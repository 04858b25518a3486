------------------------------- MODULE Malloc -------------------------------
(***************************************************************************)
(* The allocator of malloclab/mm.c as its clients see it: malloc, free and *)
(* realloc in any order, on a heap that mem_sbrk can run out of.  calloc   *)
(* is malloc of a product, with the payload cleared.                       *)
(*                                                                         *)
(* A client writes all of a payload as soon as it has it, so that what the *)
(* allocator reads by mistake, or overwrites, shows.                       *)
(***************************************************************************)
EXTENDS Heap

CONSTANT Requests   \* payload sizes asked for, in words

ASSUME RequestsAssumption == Requests \subseteq Nat

VARIABLES heap,
          live      \* size asked for of each payload a client has

vars == <<heap, live>>

Init == heap = no_heap /\ live = <<>>

Works == ~heap.strayed

(* The client fills size words at bp. *)
Filled(h, bp, size) ==
    [h EXCEPT !.mem = [i \in DOMAIN @ |-> IF i - 1 \in bp .. bp + size - 1
                                         THEN Data ELSE @[i]]]

With(f, x, v) == [y \in DOMAIN f \cup {x} |-> IF y = x THEN v ELSE f[y]]
Without(f, x) == [y \in DOMAIN f \ {x} |-> f[y]]

(* What clients hold when malloc has answered a request.                   *)
Granted(answer, size) ==
    IF answer.bp = NULL THEN live ELSE With(live, answer.bp, size)

(* The test driver initialises a fresh heap before it allocates.           *)
MmInit == /\ heap = no_heap
          /\ heap' = mm_init(heap)
          /\ UNCHANGED live

Malloc(size) ==
    /\ Works
    /\ LET answer == malloc(heap, size)
       IN /\ heap' = IF answer.bp = NULL THEN answer.heap
                     ELSE Filled(answer.heap, answer.bp, size)
          /\ live' = Granted(answer, size)

Free(bp) ==
    /\ Works
    /\ heap' = free(heap, bp)
    /\ live' = Without(live, bp)

(* A failing malloc leaves the old payload to its client; otherwise what   *)
(* both have in common is copied and the old payload freed.                *)
Realloc(bp, size) ==
    /\ Works /\ size # 0
    /\ LET answer == malloc(heap, size)
       IN IF answer.bp = NULL
          THEN heap' = answer.heap /\ UNCHANGED live
          ELSE /\ heap' = free(Filled(answer.heap, answer.bp, size), bp)
               /\ live' = Without(Granted(answer, size), bp)

Next == \/ MmInit
        \/ \E size \in Requests : Malloc(size)
        \/ \E bp \in DOMAIN live : \/ Free(bp)
                                   \/ \E size \in Requests : Realloc(bp, size)

Spec == Init /\ [][Next]_vars

-----------------------------------------------------------------------------
TypeOK ==
    /\ Brk(heap) \in 0 .. MaxHeap
    /\ heap.heap_start \in 0 .. MaxHeap
    /\ heap.root_list \in [Lists -> 0 .. MaxHeap]
    /\ heap.strayed \in BOOLEAN
    /\ DOMAIN live \subseteq 1 .. MaxHeap

(* The blocks in the order of their addresses.  An epilogue that is not at *)
(* the end of the heap is followed by the prologue of a heap begun later.  *)
After(b) == IF get_size(heap, b) # 0 THEN find_next(heap, b)
            ELSE IF b < Brk(heap) - 1 THEN b + 2 ELSE b

Walk == LET w[i \in 1 .. MaxHeap] == IF i = 1 THEN 1 ELSE After(w[i - 1]) IN w

Headers == IF Brk(heap) = 0 THEN {} ELSE {Walk[i] : i \in 1 .. MaxHeap}
Blocks == {b \in Headers : get_size(heap, b) # 0}
FreeBlocks == {b \in Blocks : ~get_alloc(heap, b)}

(* The blocks fill the heap from the first to the epilogue at its end.     *)
BlocksTileHeap ==
    Works /\ Brk(heap) # 0 =>
        /\ Walk[MaxHeap] = Brk(heap) - 1
        /\ \A b \in Headers : get_size(heap, b) = 0 => get_alloc(heap, b)

(* What a block remembers of the one before it is true, in particular of a *)
(* 16-byte block, which has no footer; a footer repeats its header; and    *)
(* free blocks have been coalesced.                                        *)
BoundaryTags ==
    Works => \A b \in Blocks : LET c == find_next(heap, b) IN
        /\ get_prev_alloc(heap, c) = get_alloc(heap, b)
        /\ get_prev_16B(heap, c) = (get_size(heap, b) = dsize)
        /\ ~get_alloc(heap, b) =>
              /\ get_alloc(heap, c)
              /\ get_size(heap, b) >= min_block_size
                    => Word(heap, header_to_footer(heap, b)) = Word(heap, b)

(* Until mm_init has its first free block the epilogue is in the last list.*)
Sentinel == IF heap.heap_start # NULL /\ get_size(heap, heap.heap_start) = 0
            THEN {heap.heap_start} ELSE {}

(* Each free block is in the list of its size, once, and nothing else is;  *)
(* a doubly linked list can be followed back.                              *)
ListsHoldFreeBlocks ==
    Works =>
        /\ \A n \in Lists : LET list == FreeList(heap, n) IN
              /\ Cardinality(ToSet(list)) = Len(list)
              /\ \A b \in ToSet(list) \ Sentinel : find_listnumber(get_size(heap, b)) = n
              /\ n # 0 => \A i \in DOMAIN list :
                    get(heap, prev_linknode(list[i])) = IF i = 1 THEN NULL ELSE list[i - 1]
        /\ UNION {ToSet(FreeList(heap, n)) : n \in Lists} = FreeBlocks \cup Sentinel

(* The allocated blocks are the clients' payloads, each large enough, and  *)
(* no word of a payload has been touched.                                  *)
PayloadsIntact ==
    Works =>
        /\ Blocks \ FreeBlocks = {payload_to_header(bp) : bp \in DOMAIN live}
        /\ \A bp \in DOMAIN live :
              /\ bp % dsize = 0
              /\ live[bp] < get_size(heap, payload_to_header(bp))
              /\ \A a \in bp .. bp + live[bp] - 1 : Word(heap, a) = Data

A == INSTANCE Allocator WITH Words <- 1 .. MaxHeap

ImplementsAllocator == A!Spec
=============================================================================
