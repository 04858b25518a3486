-------------------------------- MODULE Csim --------------------------------
(***************************************************************************)
(* One run of the cache simulator (cachelab/csim.c): ReadTraceFile reads   *)
(* loads and stores, TestCache looks each up in its set and counts it.     *)
(*                                                                         *)
(* A counter is the age of a line, and UINT64_MAX marks a line that is not *)
(* in use.  The code reads it signed in one place, where it is -1 and the  *)
(* oldest, and unsigned in another, where it is the youngest and the next  *)
(* after it is 0; both are kept, with -1 for it.  Other counters grow by   *)
(* one for each access and do not come near 2^63.                          *)
(*                                                                         *)
(* E is given on the command line, as set_bit and block_bit, which are     *)
(* constants here.  MaxAccesses bounds the trace.  The values that are     *)
(* printed for each access, and the parsing, are left out.                 *)
(***************************************************************************)
EXTENDS Integers, FiniteSets, FiniteSetsExt, Sequences, SequencesExt

CONSTANTS Addresses, MaxE, set_bit, block_bit, MaxAccesses

ASSUME CsimAssumption ==
    /\ Addresses \subseteq Nat
    /\ MaxE \in Nat
    /\ set_bit \in Nat
    /\ block_bit \in Nat
    /\ 2^set_bit \in Nat \ {0}
    /\ 2^block_bit \in Nat \ {0}

VARIABLES
    E,                                      \* lines per set
    cache,                                  \* the sets, functions from lines
    hits, misses, evictions,                \* the fields of result
    dirty_bytes_in_cache, dirty_bytes_evicted,
    since                                   \* history: in each set, the lines
                                            \* used since it is full

vars == <<E, cache, hits, misses, evictions,
          dirty_bytes_in_cache, dirty_bytes_evicted, since>>

S == 2^set_bit
B == 2^block_bit

set_index(addr) == (addr \div B) % S
Tag(addr) == addr \div (B * S)

Sets == 0 .. S - 1
Lines == 1 .. E
Unused == [valid |-> FALSE, dirty |-> FALSE, tag |-> 0, counter |-> -1]

Init ==
    /\ E \in 1 .. MaxE
    /\ cache = [i \in Sets |-> [l \in Lines |-> Unused]]
    /\ hits = 0 /\ misses = 0 /\ evictions = 0
    /\ dirty_bytes_in_cache = 0 /\ dirty_bytes_evicted = 0
    /\ since = [i \in Sets |-> {}]

-----------------------------------------------------------------------------
Counters(set) == {set[l].counter : l \in Lines}

(* Mutant of Matching: lines that are not in use match too.                *)
Matching_AnyLine(set, t) == {l \in Lines : set[l].tag = t}

Matching(set, t) == {l \in Lines : set[l].valid /\ set[l].tag = t}

(* The largest counter, as a long.                                         *)
Youngest(set, c) == c \in Counters(set) /\ \A d \in Counters(set) : d <= c

(* The same, compared unsigned: -1 is larger than all others.              *)
YoungestUnsigned(set, c) == IF -1 \in Counters(set) THEN c = -1 ELSE Youngest(set, c)

(* Mutant of Oldest: also compares unsigned, so that unused lines are last.*)
Oldest_Unsigned(set, l) ==
    /\ \A k \in Lines : set[k].counter >= 0
                          => set[l].counter >= 0 /\ set[l].counter <= set[k].counter
    /\ \A k \in 1 .. l - 1 : set[l].counter # set[k].counter

(* The first line with the smallest counter.                               *)
Oldest(set, l) ==
    /\ \A k \in Lines : set[l].counter <= set[k].counter
    /\ \A k \in 1 .. l - 1 : set[l].counter < set[k].counter

(* Mutant of Clean: a store counts its block again.                        *)
Clean_All(set, lines) == lines

Clean(set, lines) == {l \in lines : ~set[l].dirty}

(* History only.                                                           *)
Full(set) == -1 \notin Counters(set)
Used(i, set, lines, filled) ==
    since' = [since EXCEPT ![i] = IF filled THEN lines
                                  ELSE IF Full(set) THEN @ \cup lines ELSE @]

(* A line after an access: it holds the tag and is the youngest.           *)
Touched(t, dirty, youngest) ==
    [valid |-> TRUE, dirty |-> dirty, tag |-> t, counter |-> youngest + 1]

Hit(op, i, t) ==
    /\ Matching(cache[i], t) # {}
    /\ \E youngest \in Counters(cache[i]) :
          /\ YoungestUnsigned(cache[i], youngest)
          /\ cache' = [cache EXCEPT ![i] = [l \in Lines |->
                 IF l \in Matching(cache[i], t)
                 THEN Touched(t, @[l].dirty \/ op = "S", youngest)
                 ELSE @[l]]]
    /\ hits' = hits + Cardinality(Matching(cache[i], t))
    /\ dirty_bytes_in_cache' = dirty_bytes_in_cache
           + IF op = "S" THEN B * Cardinality(Clean(cache[i], Matching(cache[i], t))) ELSE 0
    /\ Used(i, cache[i], Matching(cache[i], t), FALSE)
    /\ UNCHANGED <<misses, evictions, dirty_bytes_evicted>>

(* Both kinds of miss put the tag into the oldest line.                    *)
Fill(op, i, t, l, youngest) ==
    /\ cache[i][l].counter < 0
    /\ cache' = [cache EXCEPT ![i][l] = Touched(t, op = "S", youngest)]
    /\ dirty_bytes_in_cache' = dirty_bytes_in_cache + IF op = "S" THEN B ELSE 0
    /\ Used(i, cache[i], {l}, \A k \in Lines \ {l} : cache[i][k].counter >= 0)
    /\ UNCHANGED <<evictions, dirty_bytes_evicted>>

(* Mutant of Evict: a load takes the block off the dirty bytes, even if it *)
(* was clean.                                                              *)
Evict_TakesOff(op, i, t, l, youngest) ==
    /\ cache[i][l].counter >= 0
    /\ cache' = [cache EXCEPT ![i][l] = Touched(t, op = "S", youngest)]
    /\ evictions' = evictions + 1
    /\ dirty_bytes_evicted' = dirty_bytes_evicted + IF cache[i][l].dirty THEN B ELSE 0
    /\ dirty_bytes_in_cache' = dirty_bytes_in_cache + IF op = "S" THEN 0 ELSE -B
    /\ Used(i, cache[i], {l}, FALSE)

Evict(op, i, t, l, youngest) ==
    /\ cache[i][l].counter >= 0
    /\ cache' = [cache EXCEPT ![i][l] = Touched(t, op = "S", youngest)]
    /\ evictions' = evictions + 1
    /\ dirty_bytes_evicted' = dirty_bytes_evicted + IF cache[i][l].dirty THEN B ELSE 0
    /\ dirty_bytes_in_cache' = dirty_bytes_in_cache
           + (IF op = "S" THEN B ELSE 0) - (IF cache[i][l].dirty THEN B ELSE 0)
    /\ Used(i, cache[i], {l}, FALSE)

Miss(op, i, t) ==
    /\ Matching(cache[i], t) = {}
    /\ \E l \in Lines, youngest \in Counters(cache[i]) :
          /\ Oldest(cache[i], l)
          /\ Youngest(cache[i], youngest)
          /\ Fill(op, i, t, l, youngest) \/ Evict(op, i, t, l, youngest)
    /\ misses' = misses + 1
    /\ UNCHANGED hits

TestCache(op, addr) ==
    /\ hits + misses < MaxAccesses
    /\ Hit(op, set_index(addr), Tag(addr)) \/ Miss(op, set_index(addr), Tag(addr))
    /\ UNCHANGED E

Next == \E op \in {"L", "S"}, addr \in Addresses : TestCache(op, addr)

Spec == Init /\ [][Next]_vars
-----------------------------------------------------------------------------
line == [valid : BOOLEAN, dirty : BOOLEAN, tag : Nat, counter : Nat \cup {-1}]

TypeOK ==
    /\ E \in 1 .. MaxE
    /\ cache \in [Sets -> [Lines -> line]]
    /\ {hits, misses, evictions, dirty_bytes_in_cache, dirty_bytes_evicted} \subseteq Nat
    /\ since \in [Sets -> SUBSET Lines]

(* A line is in use when it has an age, and only then dirty.               *)
AgedWhenValid ==
    \A i \in Sets, l \in Lines :
        /\ cache[i][l].valid <=> cache[i][l].counter >= 0
        /\ cache[i][l].dirty => cache[i][l].valid

(* No block is in two lines of its set, or a hit would be counted twice.   *)
TagsUnique ==
    \A i \in Sets : \A k, l \in Lines :
        cache[i][k].valid /\ cache[i][l].valid /\ cache[i][k].tag = cache[i][l].tag
            => k = l

(* Lines used since the set is full are younger than all others, and no    *)
(* two of them have the same age.                                          *)
AgesInOrder ==
    \A i \in Sets : \A l \in since[i] :
        /\ Full(cache[i])
        /\ \A k \in Lines \ since[i] : cache[i][k].counter < cache[i][l].counter
        /\ \A k \in since[i] : cache[i][k].counter = cache[i][l].counter => k = l

(* TestCache relies on it at each access: the line it hits is one, and the *)
(* line it replaces is the right one (csim.c:92, csim.c:114-125).          *)
SetsSound == AgedWhenValid /\ TagsUnique /\ AgesInOrder

(* What printSummary is given describes the cache: every miss that was no  *)
(* eviction put one more line into use, and the dirty bytes are those of   *)
(* the lines that are dirty (csim.c:130-158).                              *)
Places == Sets \X (1 .. MaxE)
InUse == {p \in Places : p[2] <= E /\ cache[p[1]][p[2]].valid}
Dirty == {p \in Places : p[2] <= E /\ cache[p[1]][p[2]].dirty}

Accounting ==
    /\ misses - evictions = Cardinality(InUse)
    /\ dirty_bytes_in_cache = B * Cardinality(Dirty)

-----------------------------------------------------------------------------
(* The simulator is a write-back cache that replaces old lines first, then *)
(* the least recently used (csim.c:80-164).  Its order is that of the ages.*)
TagsOf(i, lines) == {cache[i][l].tag : l \in lines}
ValidLines(i) == {l \in Lines : cache[i][l].valid}
Younger(i, l) == {k \in since[i] : cache[i][k].counter > cache[i][l].counter}
TagByAge(i, rank) ==
    cache[i][CHOOSE l \in since[i] : Cardinality(Younger(i, l)) = rank - 1].tag

OldTags == [i \in Sets |-> TagsOf(i, ValidLines(i) \ since[i])]
RecentTags == [i \in Sets |-> [rank \in 1 .. Cardinality(since[i]) |-> TagByAge(i, rank)]]
DirtyTags == [i \in Sets |-> TagsOf(i, {l \in Lines : cache[i][l].dirty})]

Aged == INSTANCE AgedSets WITH
    Tags <- {Tag(addr) : addr \in Addresses},
    MaxWays <- MaxE,
    ways <- E,
    old <- OldTags,
    recent <- RecentTags,
    dirty <- DirtyTags,
    writebacks <- dirty_bytes_evicted \div B

ImplementsAgedSets == Aged!Spec
=============================================================================
