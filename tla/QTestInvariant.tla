--------------------------- MODULE QTestInvariant ---------------------------
(***************************************************************************)
(* The inductive invariant of QTest.                                       *)
(***************************************************************************)
EXTENDS QTest

-----------------------------------------------------------------------------
(* The harness's list: the least set with the first block in it and, with  *)
(* each, the next one.                                                     *)
Reach(first, n) ==
    {x \in Blocks : \A S \in SUBSET Blocks :
        first \in S \cup {NULL} /\ (\A c \in S : n[c] \in S \cup {NULL}) => x \in S}

Listed == Reach(allocated, bnext)

(* Each block's prev is the one that it is the next of.                    *)
BackLinked(first, n, p) ==
    /\ first # NULL => p[first] = NULL
    /\ \A b \in Reach(first, n) :
          /\ n[b] # NULL => p[n[b]] = b
          /\ IF p[b] = NULL THEN b = first ELSE p[b] \in Reach(first, n) /\ n[p[b]] = b

(* The prevs, with the second store to a link done.                        *)
Prevs ==
    CASE step = "list" /\ allocated # NULL -> [bprev EXCEPT ![allocated] = NULL]
      [] step = "back" -> [bprev EXCEPT ![bnext[blk]] = bprev[blk]]
      [] OTHER -> bprev

Adding == step \in {"link", "list"}
Removing == step \in {"unlink", "back", "free"}

(* What a call in progress has yet to add to allocated_count.              *)
counting ==
    CASE step \in {"link", "list", "count"} -> 1
      [] step \in {"unlink", "back", "free", "uncount"} -> -1
      [] OTHER -> 0

(* As long as no call was cut off between the two stores of a link, the    *)
(* list is sound, but what such a call was about may be in no list.        *)
HarnessInv ==
    /\ HarnessTypeOK
    /\ step \notin {"none", "uncount"} => blk \in live
    /\ step = "uncount" => blk \notin live
    /\ step = "link" => allocated # NULL
    /\ step = "back" => bnext[blk] # NULL
    /\ alarms = 0 =>
          ~torn /\ live = Listed \cup IF Adding \/ Removing THEN {blk} ELSE {}
    /\ ~torn =>
          /\ Listed \subseteq live
          /\ BackLinked(allocated, bnext, Prevs)
          /\ Adding => blk \notin Listed /\ bnext[blk] = allocated /\ bprev[blk] = NULL
          /\ step = "list" /\ allocated # NULL => bprev[allocated] = blk
          /\ step = "unlink" => blk \in Listed
          /\ step \in {"back", "free"} => blk \notin Listed
          /\ step = "back" => bnext[blk] \in Listed

(* The blocks that are there to be freed, as a call will leave them.       *)
Known ==
    ((IF torn THEN live ELSE Listed) \cup IF Adding THEN {blk} ELSE {})
        \ IF Removing THEN {blk} ELSE {}

-----------------------------------------------------------------------------
(* L[1], ..., L[k] are the distinct elements of a list that starts at e.   *)
Chain(link, e, k, L) ==
    /\ k \in Nat
    /\ L \in [1 .. k -> Elements]
    /\ \A i, j \in 1 .. k : L[i] = L[j] => i = j
    /\ e = IF k = 0 THEN NULL ELSE L[1]
    /\ \A i \in 1 .. k : link[L[i]] = IF i = k THEN NULL ELSE L[i + 1]

Members(k, L) == {L[i] : i \in 1 .. k}

One(b) == IF b THEN 1 ELSE 0

(* q_free's commands; it takes the list apart, from ptr on, and in the end *)
(* the queue is gone or given up.                                          *)
Freeing == {"free", "renew", "quit"}
Taking == cmd \in Freeing /\ pc \in {"free next", "free value", "free ele"}
Cleared == cmd \in Freeing /\ pc \in {"cancel", "interrupted", "exit"}
HasQueue == q # NULL /\ ~Cleared
Live == HasQueue /\ ~Taking

(* The list from the queue's head, and the one that q_free and q_reverse   *)
(* hold in ptr.                                                            *)
Front == IF Live THEN head ELSE NULL
Rest == IF Taking \/ pc \in {"turn", "turned"} THEN ptr ELSE NULL

(* Where ele, and its string, are in no list but in the hands of a call.   *)
EleInHand ==
    {"malloc value", "store", "link head", "first tail", "first head", "link tail",
     "shrink", "no head", "no tail", "free value", "free ele", "turned"}
BothInHand == EleInHand \ {"malloc value", "free ele"}

Pending ==
    (IF pc = "assign" THEN {<<"queue", ptr>>} ELSE {})
    \cup (IF pc \in EleInHand THEN {<<"ele", ele>>} ELSE {})
    \cup (IF pc \in BothInHand THEN {<<"value", ele>>} ELSE {})

(* The blocks that will be freed, when S are the elements of the lists.    *)
Owned(S) ==
    Pending \cup ({"ele", "value"} \X S)
            \cup (IF HasQueue THEN {<<"queue", q>>} ELSE {})

(* Between these an insertion is in the list, or the size, but not counted *)
(* in qcnt, and a removal the other way round.                             *)
NewEle ==
    {"malloc value", "store", "link head", "first tail", "first head", "link tail",
     "move tail", "grow"}
Grown == pc = "only tail" \/ (pc = "return" /\ rval)
Linked == pc \in {"grow", "move tail"} \/ Grown
Removed == cmd = "rh" /\ pc \in {"cancel", "interrupted"} /\ rval
Shrunk == Removed \/ (cmd = "rh" /\ pc \in {"no head", "no tail", "free value", "free ele"})
Unlinked == Shrunk \/ pc = "shrink"

Result ==
    /\ pc = "only tail" => rval
    /\ rval /\ (pc = "return" \/ cmd = "rh") => q # NULL
    /\ cmd = "rh" /\ pc \notin {"cancel", "interrupted"} => ~rval

Control ==
    /\ alarms \in 0 .. MaxAlarms
    /\ alarms = 0 => held # Broken /\ pc # "interrupted"
    /\ counting = 1 => pc \in {"assign", "malloc value", "store"}
    /\ counting = 1 /\ pc = "assign" => blk = <<"queue", ptr>>
    /\ counting = 1 /\ pc = "malloc value" => blk = <<"ele", ele>>
    /\ counting = 1 /\ pc = "store" => blk = <<"value", ele>>
    /\ counting = -1 => pc \in {"free ele", "free next", "cancel", "return"}
    /\ pc = "prompt" => cmd = "none"
    /\ pc = "exit" => cmd \in {"none", "quit"}
    /\ pc \in {"q_new", "assign"} => cmd = "new" /\ q = NULL
    /\ pc = "q_free" => cmd \in Freeing
    /\ pc = "free next" => cmd \in Freeing
    /\ pc \in {"free value", "free ele"} => cmd \in Freeing \cup {"rh"}
    /\ pc \in {"insert", "malloc value", "store", "grow", "return"} => cmd \in Inserting
    /\ pc \in {"link head", "only tail"} => cmd = "ih"
    /\ pc \in {"first tail", "first head", "link tail", "move tail"} => cmd = "it"
    /\ pc \in {"remove", "unlink", "shrink", "no head", "no tail"} => cmd = "rh"
    /\ pc \in {"reverse", "turn tail", "turn head", "turn", "turned"} => cmd = "reverse"
    /\ pc \in {"cancel", "interrupted"} => cmd # "none"
    /\ pc = "interrupted" /\ cmd \in Inserting \cup {"rh", "reverse"} /\ q # NULL
          => held = Broken
    /\ pc \in NewEle \cup {"free next", "free value", "free ele", "only tail",
                           "unlink", "shrink", "no head", "no tail",
                           "turn tail", "turn head", "turn", "turned"}
          => q # NULL
    /\ pc = "assign" => ptr \in Queues
    /\ pc \in {"free next", "turn tail", "turn head", "turn", "turned"}
          => ptr \in Elements \cup {NULL}
    /\ pc \in {"free value", "free ele"} /\ cmd # "rh" => ptr \in Elements \cup {NULL}
    /\ pc \in {"turn tail", "turn head"} => ptr = head
    /\ pc = "unlink" => ele = head /\ ele # NULL
    /\ pc \in {"link head", "turned"} => next[ele] = head
    /\ pc \in {"first tail", "first head", "link tail"} => next[ele] = NULL
    /\ pc = "first head" => tail = ele
    /\ pc \in {"unlink", "shrink"} => size # 0
    /\ Result
    /\ q = NULL \/ cmd = "new" => held = NoQueue
    /\ cmd \in Inserting => str \in Strings

(* Nothing in the lists is freed, and without an alarm nothing leaks;      *)
(* allocated_count is too low by no more than the commands cut off.        *)
Sound(owned, there, count, missed) ==
    /\ owned \subseteq there
    /\ missed = 0 => there = owned
    /\ Cardinality(owned) <= count
    /\ count <= Cardinality(there) + missed

Books(S) ==
    /\ Sound(Owned(S), Known, allocated_count + counting, alarms)
    /\ counting = -1 => Known # Blocks

EleBlocks(there) == {e \in Elements : <<"ele", e>> \in there}

(* How qcnt, size and the list may differ, in elements: those on their way *)
(* from one list to the other, out of the list or in it before qcnt says   *)
(* so, and those that are allocated before, or after, size or qcnt do.     *)
Turning == One(pc = "turned")
Out == One(Unlinked)
In == One(Linked)
Ahead == One(pc \in NewEle \/ Grown)
Behind == One(Removed)
Room == One(pc \in NewEle \/ (Shrunk /\ ~Removed))
Late == One(pc \in {"grow", "move tail"})
Early == One(pc = "shrink")
More == One(Grown)
Fewer == One(Shrunk)

Numbers(k, m) ==
    /\ k + m + Turning + Out <= qcnt + In + alarms
    /\ ~(Taking \/ Cleared) => qcnt + Ahead <= Cardinality(EleBlocks(Known)) + alarms + Behind
    /\ Live => size + Room <= Cardinality(EleBlocks(Known))

(* The rest holds of a queue that no command was cut off on.               *)
Whole == held # Broken /\ Live

Sizes(k, m) ==
    /\ size + Late = k + m + Turning + Early
    /\ cmd # "new" => qcnt + More = size + Fewer

Tails(k, L, m, M) ==
    /\ cmd = "new" \/ pc \in {"first tail", "first head", "no head", "no tail"} => k = 0
    /\ pc = "only tail" => k = 1
    /\ pc \in {"link tail", "unlink"} \/ Linked => k > 0
    /\ pc = "move tail" => k > 1
    /\ pc = "first head" => tail = ele
    /\ pc = "link tail" => tail = L[k]
    /\ pc = "move tail" => tail = L[k - 1] /\ ele = L[k]
    /\ pc = "grow" =>
          IF cmd = "it" THEN tail = L[k]
          ELSE tail = IF k = 1 THEN NULL ELSE L[k]
    /\ pc = "turn head" => tail = head
    /\ pc \in {"turn", "turned"} =>
          tail = IF k > 0 THEN L[k] ELSE IF pc = "turned" THEN ele
                 ELSE IF m > 0 THEN M[1] ELSE NULL
    /\ pc \in {"shrink", "no head", "no tail"} => tail = IF k = 0 THEN ele ELSE L[k]
    /\ pc \notin {"first head", "move tail", "grow", "only tail", "turn head", "turn", "turned",
                  "shrink", "no head", "no tail"}
          => tail = IF k = 0 THEN NULL ELSE L[k]

(* What the call in progress has made of the strings held.                 *)
Says(k, L, m, M) ==
    /\ pc \in {"link head", "first tail", "first head", "link tail"} => value[ele] = str
    /\ cmd # "new" =>
       IF Linked THEN
           IF cmd = "ih"
           THEN held = [j \in 1 .. k - 1 |-> value[L[j + 1]]] /\ value[L[1]] = str
           ELSE held = [j \in 1 .. k - 1 |-> value[L[j]]] /\ value[L[k]] = str
       ELSE IF Unlinked THEN
           held = [j \in 1 .. k + 1 |-> IF j = 1 THEN held[1] ELSE value[L[j - 1]]]
       ELSE IF pc = "turn" THEN
           held = [j \in 1 .. k + m |-> value[IF j <= k THEN L[k + 1 - j] ELSE M[j - k]]]
       ELSE IF pc = "turned" THEN
           held = [j \in 1 .. k + 1 + m |-> value[IF j <= k THEN L[k + 1 - j]
                                                  ELSE IF j = k + 1 THEN ele
                                                  ELSE M[j - k - 1]]]
       ELSE IF cmd = "reverse" /\ pc = "cancel" THEN
           held = [j \in 1 .. k |-> value[L[k + 1 - j]]]
       ELSE
           held = [j \in 1 .. k |-> value[L[j]]]

Shape(k, L, m, M) ==
    /\ Chain(next, Front, k, L)
    /\ Chain(next, Rest, m, M)
    /\ \A i \in 1 .. k, j \in 1 .. m : L[i] # M[j]
    /\ pc \in EleInHand => ele \in Elements \ (Members(k, L) \cup Members(m, M))
    /\ Books(Members(k, L) \cup Members(m, M))
    /\ Numbers(k, m)
    /\ Whole => Sizes(k, m) /\ Tails(k, L, m, M) /\ Says(k, L, m, M)

(* qcnt falls below nothing only as often as a command was cut off.        *)
NotBelow == 0 <= qcnt + alarms

IInv ==
    /\ TypeOK
    /\ Control
    /\ NotBelow
    /\ \E k, L, m, M : Shape(k, L, m, M)

(* The program goes on only below err_limit.                               *)
GoesOn == pc # "exit" => err_cnt < err_limit

(* What a whole queue held is a sequence of strings.                       *)
HeldIsSeq == Whole /\ cmd # "new" => held \in Seq(Strings \cup {Blank})
=============================================================================
