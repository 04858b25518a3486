----------------------------- MODULE CacheList -----------------------------
(***************************************************************************)
(* The proxy's cache (proxylab/cache.c): a doubly linked list of blocks,   *)
(* most recently used first, with reference counts.  Each function of      *)
(* cache.c is an operator from a value of the cache to the next; the       *)
(* critical sections in which the proxy calls them are in module Proxy.    *)
(*                                                                         *)
(* Memory is explicit.  A block is an address; free takes it out of alloc  *)
(* and forgets its fields, and malloc may hand the same address out again. *)
(* Touching a block that is not allocated, and following links for ever,   *)
(* set broken: what the program does from there on is not modelled.        *)
(* A block's content and its size are those of its URL.  malloc succeeds.  *)
(***************************************************************************)
EXTENDS Integers, FiniteSets

CONSTANTS
    Blocks,           \* addresses malloc can return
    Urls,
    NULL,
    SizeOf,           \* size in bytes of the response for each URL
    MAX_CACHE_SIZE,
    MAX_OBJECT_SIZE

ASSUME CacheAssumption ==
    /\ IsFiniteSet(Blocks) /\ NULL \notin Blocks \cup Urls
    /\ SizeOf \in [Urls -> Nat]
    /\ MAX_OBJECT_SIZE \in Nat /\ MAX_CACHE_SIZE \in Nat
    /\ MAX_OBJECT_SIZE < MAX_CACHE_SIZE

Links == Blocks \cup {NULL}

Block == [url : Urls \cup {NULL}, refcnt : Nat, prev : Links, next : Links]

Cache == [head : Links, tail : Links, total_size : Nat,
          mem : [Blocks -> Block], alloc : SUBSET Blocks, broken : BOOLEAN]

Unwritten == [url |-> NULL, refcnt |-> 0, prev |-> NULL, next |-> NULL]

init_cache == [head |-> NULL, tail |-> NULL, total_size |-> 0,
               mem |-> [b \in Blocks |-> Unwritten], alloc |-> {},
               broken |-> FALSE]

Broken(c) == [c EXCEPT !.broken = TRUE]

-----------------------------------------------------------------------------
(* Walks along the links, one step longer than there are blocks.           *)

Steps == 0 .. Cardinality(Blocks)

Walk(start, link) ==
    LET w[n \in Steps] == IF n = 0 THEN start
                          ELSE IF w[n - 1] = NULL THEN NULL
                          ELSE link[w[n - 1]]
    IN w

Forward(c) == Walk(c.head, [b \in Blocks |-> c.mem[b].next])

Backward(c) == Walk(c.tail, [b \in Blocks |-> c.mem[b].prev])

(* The first place of a walk at which a loop stops; -1 when it never does. *)
First(stops) ==
    IF stops = {} THEN -1 ELSE CHOOSE n \in stops : \A m \in stops : n <= m

Listed(c) == {Forward(c)[n] : n \in Steps} \ {NULL}

(* Mutant of find_cache: the first block answers for every URL.            *)
find_cache_First(c, uri) == [block |-> c.head, broken |-> FALSE]

(* The block of that URL nearest the head, or NULL.  The scan breaks the   *)
(* program when it meets freed memory or does not end.                     *)
find_cache(c, uri) ==
    LET w == Forward(c)
        at == First({n \in Steps : w[n] \notin c.alloc \/ c.mem[w[n]].url = uri})
    IN IF at = -1 THEN [block |-> NULL, broken |-> TRUE]
       ELSE [block |-> w[at], broken |-> w[at] \notin c.alloc \cup {NULL}]

-----------------------------------------------------------------------------
increref(c, b) == IF b \in c.alloc THEN [c EXCEPT !.mem[b].refcnt = @ + 1]
                                   ELSE Broken(c)

decreref(c, b) ==
    IF b \notin c.alloc THEN Broken(c)
    ELSE IF c.mem[b].refcnt = 1
    THEN [c EXCEPT !.mem[b] = Unwritten, !.alloc = @ \ {b}]
    ELSE [c EXCEPT !.mem[b].refcnt = @ - 1]

(* A store into a link of a block.                                         *)
SetNext(c, b, to) == [c EXCEPT !.mem[b].next = to]
SetPrev(c, b, to) == [c EXCEPT !.mem[b].prev = to]

(* Unlink the block and put it in front, unless it has no prev.            *)
Unlink(c, b) ==
    LET p == c.mem[b].prev
        n == c.mem[b].next
    IN IF n # NULL THEN SetPrev(SetNext(c, p, n), n, p)
                   ELSE [SetNext(c, p, n) EXCEPT !.tail = p]

PutInFront(c, b) ==
    [SetPrev(SetPrev(SetNext(c, b, c.head), c.head, b), b, NULL) EXCEPT !.head = b]

(* Mutant of move_to_first: the last block stays the last.                 *)
move_to_first_NotTail(c, b) ==
    IF b \notin c.alloc THEN Broken(c)
    ELSE IF c.mem[b].prev = NULL \/ c.mem[b].next = NULL THEN c
    ELSE PutInFront(Unlink(c, b), b)

move_to_first(c, b) ==
    IF b \notin c.alloc THEN Broken(c)
    ELSE IF c.mem[b].prev = NULL THEN c
    ELSE IF c.head \in c.alloc
            /\ {c.mem[b].prev, c.mem[b].next} \subseteq c.alloc \cup {NULL}
         THEN PutInFront(Unlink(c, b), b)
         ELSE Broken(c)

-----------------------------------------------------------------------------
(* Blocks the list, or a thread that holds a pointer, can still get at.    *)
(* Any other block that was not freed has leaked; Forget takes it for fresh*)
(* memory, which nobody can tell from it and which keeps Blocks finite.    *)
Closed(c, S) == \A b \in S \ {NULL} : {c.mem[b].next, c.mem[b].prev} \subseteq S

Reachable(c, held) ==
    {b \in Links : \A S \in SUBSET Links :
        {c.head, c.tail} \cup held \subseteq S /\ Closed(c, S) => b \in S}

Forget(c, held) ==
    LET kept == c.alloc \cap Reachable(c, held)
    IN [c EXCEPT !.alloc = kept,
                 !.mem = [b \in Blocks |-> IF b \in kept THEN c.mem[b] ELSE Unwritten]]

(* Mutant of insert_block: the old head does not point back.               *)
insert_block_NoBackLink(c, new) ==
    [c EXCEPT !.alloc = @ \cup {new},
              !.mem[new] = [Unwritten EXCEPT !.next = c.head],
              !.head = new,
              !.tail = IF c.head = NULL THEN new ELSE @]

(* The new block in front of the list; its old head points back to it.     *)
insert_block(c, new) ==
    LET linked == IF c.head = NULL THEN [c EXCEPT !.tail = new]
                                   ELSE SetPrev(c, c.head, new)
    IN [linked EXCEPT !.alloc = @ \cup {new},
                      !.mem[new] = [Unwritten EXCEPT !.next = c.head],
                      !.head = new]

(* The loop of evict_cache gives up the blocks before place n of the walk  *)
(* from the tail: it stops where their sizes reach content_size.           *)
EvictedSize(c, n) ==
    LET w == Backward(c)
        s[k \in Steps] == IF k = 0 THEN 0
                          ELSE s[k - 1] + SizeOf[c.mem[w[k - 1]].url]
    IN s[n]

EvictionEnd(c, content_size) ==
    First({n \in Steps : \/ Backward(c)[n] \notin c.alloc
                         \/ EvictedSize(c, n) >= content_size})

GiveUp(c, n) ==
    IF n = -1 THEN Broken(c) ELSE
    LET w == Backward(c)
        g[k \in 0 .. n] == IF k = 0 THEN c ELSE decreref(g[k - 1], w[k - 1])
    IN g[n]

(* Mutants of CutAt: the new tail keeps its link to what was given up; the *)
(* tail is not moved.                                                      *)
CutAt_LinkKept(c, temp) == [c EXCEPT !.tail = temp]
CutAt_TailKept(c, temp) == SetNext(c, temp, NULL)

(* End the list at temp.                                                   *)
CutAt(c, temp) == [SetNext(c, temp, NULL) EXCEPT !.tail = temp]

(* Mutant of Replaced: the new block's size is taken off as well.          *)
Replaced_SubtractsBoth(total, evict_size, content_size) ==
    total - evict_size - content_size

Replaced(total, evict_size, content_size) == total - (evict_size - content_size)

(* The blocks given up are the whole list or leave temp as its tail.  The  *)
(* old head does not learn that a block is now in front of it.             *)
evict_cache(c, content_size, new) ==
    LET n == EvictionEnd(c, content_size)
        temp == Backward(c)[n]
        given == [GiveUp(c, n) EXCEPT !.alloc = @ \cup {new}, !.head = new]
    IN IF n = -1 THEN Broken(c)
       ELSE IF given.broken \/ temp \notin c.alloc \cup {NULL} THEN Broken(c)
       ELSE IF temp = NULL
       THEN [given EXCEPT !.mem[new] = Unwritten, !.tail = new,
                          !.total_size = content_size]
       ELSE [CutAt(given, temp) EXCEPT
                 !.mem[new] = [Unwritten EXCEPT !.next = c.head],
                 !.total_size = Replaced(@, EvictedSize(c, n), content_size)]

write_to_cache(c, b, url) == [c EXCEPT !.mem[b].url = url, !.mem[b].refcnt = 1]

HasRoom(c, content_size) == c.total_size + content_size < MAX_CACHE_SIZE

(* The addresses malloc can return: those free when it is called, which is *)
(* after the eviction.                                                     *)
Mallocable(c, content_size) ==
    Blocks \ (IF HasRoom(c, content_size) THEN c
              ELSE GiveUp(c, EvictionEnd(c, content_size))).alloc

(* Mutant of find_cache_to_write: an inserted block is not counted.        *)
find_cache_to_write_NotCounted(c, url, new) ==
    LET inserted == IF HasRoom(c, SizeOf[url]) THEN insert_block(c, new)
                    ELSE evict_cache(c, SizeOf[url], new)
    IN IF inserted.broken THEN inserted ELSE write_to_cache(inserted, new, url)

find_cache_to_write(c, url, new) ==
    LET content_size == SizeOf[url]
        inserted == IF HasRoom(c, content_size)
                    THEN [insert_block(c, new) EXCEPT !.total_size = @ + content_size]
                    ELSE evict_cache(c, content_size, new)
    IN IF inserted.broken THEN inserted ELSE write_to_cache(inserted, new, url)
=============================================================================
