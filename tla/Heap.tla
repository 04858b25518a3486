-------------------------------- MODULE Heap --------------------------------
(***************************************************************************)
(* The heap of the allocator (malloclab/mm.c), word by word: blocks with a *)
(* header, free blocks with links and a footer, segregated free lists.     *)
(* Each function of mm.c is an operator on a value of the heap; the        *)
(* library calls are the actions of module Malloc.                         *)
(*                                                                         *)
(* Addresses and sizes count words of 8 bytes, so that a 16-byte block is  *)
(* two words: the header, and one word that is its next link and would be  *)
(* its footer as well.  A word holds a header or footer, a pointer, or the *)
(* client's data.  What lies beyond the break reads as 0; writing there    *)
(* sets strayed, and what follows is not modelled.                         *)
(***************************************************************************)
EXTENDS Integers, Sequences, FiniteSets, SequencesExt

CONSTANTS
    Limits,     \* the largest size, in double words, of each list but the last
    RANGE,      \* how many fitting blocks find_fit compares
    chunksize,  \* words a heap grows by at least
    MaxHeap     \* words that mem_sbrk can hand out

wsize == 1
dsize == 2
min_block_size == 4

SIZE == Len(Limits) + 1
Lists == 0 .. SIZE - 1

NULL == 0

pack(size, alloc, prev, prev_16B) ==
    [size |-> size, alloc |-> alloc, prev |-> prev, prev_16B |-> prev_16B]
Pointer(a) == [pointer |-> a]
Data == [data |-> TRUE]

round_up(size, n) == n * ((size + (n - 1)) \div n)

(* Sizes up to Limits[1] double words go to list 0, and so on. *)
find_listnumber(size) ==
    Cardinality({i \in DOMAIN Limits : size > dsize * Limits[i]})

ASSUME HeapAssumption ==
    /\ Limits \in Seq(Nat \ {0}) /\ Limits # <<>> /\ Limits[1] = 1
    /\ RANGE \in Nat \ {0}
    /\ chunksize \in Nat /\ chunksize % dsize = 0
    /\ find_listnumber(chunksize) = SIZE - 1
    /\ MaxHeap \in Nat

no_heap == [mem |-> <<>>, heap_start |-> NULL,
            root_list |-> [n \in Lists |-> NULL], strayed |-> FALSE]

-----------------------------------------------------------------------------
(* Reading and writing words.  mem[a + 1] is the word at address a.        *)

Brk(h) == Len(h.mem)

Word(h, a) == IF a \in 0 .. Brk(h) - 1 THEN h.mem[a + 1] ELSE Pointer(NULL)

put(h, a, w) == IF a \in 0 .. Brk(h) - 1 THEN [h EXCEPT !.mem[a + 1] = w]
                                         ELSE [h EXCEPT !.strayed = TRUE]

PutIf(cond, h, a, w) == IF cond THEN put(h, a, w) ELSE h

AsPointer(w) == IF "pointer" \in DOMAIN w THEN w.pointer ELSE NULL
get(h, a) == AsPointer(Word(h, a))

extract_size(w) == IF "size" \in DOMAIN w THEN w.size ELSE 0
Bit(w, bit) == "size" \in DOMAIN w /\ w[bit]

get_size(h, b) == extract_size(Word(h, b))
get_alloc(h, b) == Bit(Word(h, b), "alloc")
get_prev_alloc(h, b) == Bit(Word(h, b), "prev")
get_prev_16B(h, b) == Bit(Word(h, b), "prev_16B")

header_to_payload(b) == b + wsize
payload_to_header(bp) == bp - wsize
next_linknode(b) == b + wsize
prev_linknode(b) == b + 2 * wsize
header_to_footer(h, b) == b + get_size(h, b) - wsize
find_next(h, b) == b + get_size(h, b)
find_prev(h, b) == b - extract_size(Word(h, b - wsize))

write_header(h, b, size, alloc, prev, prev_16B) ==
    put(h, b, pack(size, alloc, prev, prev_16B))
write_footer(h, b, size, alloc, prev, prev_16B) ==
    put(h, header_to_footer(h, b), pack(size, alloc, prev, prev_16B))
WriteFree(h, b, size, prev, prev_16B) ==
    write_footer(write_header(h, b, size, FALSE, prev, prev_16B),
                 b, size, FALSE, prev, prev_16B)

set_prev_alloc(h, b, prev_alloc) ==
    put(h, b, pack(get_size(h, b), get_alloc(h, b), prev_alloc, get_prev_16B(h, b)))
set_prev_16B(h, b, prev_16B) ==
    put(h, b, pack(get_size(h, b), get_alloc(h, b), get_prev_alloc(h, b), prev_16B))

(* Mutant of CanGrow: the end of the memory is not checked.                *)
CanGrow_Unchecked(h, incr) == TRUE

CanGrow(h, incr) == Brk(h) + incr <= MaxHeap
mem_sbrk(h, incr) == [h EXCEPT !.mem = @ \o [i \in 1 .. incr |-> Pointer(NULL)]]

-----------------------------------------------------------------------------
(* The free lists: list 0 is singly linked, the others doubly.             *)

(* The blocks of a list, cut where it runs longer than the heap.           *)
FreeList(h, n) ==
    LET w[i \in 0 .. Brk(h)] == IF i = 0 THEN h.root_list[n]
                                ELSE IF w[i - 1] = NULL THEN NULL
                                ELSE get(h, next_linknode(w[i - 1]))
        ends == {i \in 0 .. Brk(h) : w[i] = NULL}
    IN [i \in 1 .. (IF ends = {} THEN Brk(h) + 1 ELSE Min(ends)) |-> w[i - 1]]

(* node becomes the first of list n.                                       *)
PutFirst(h, node, n, old_head, back) ==
    [PutIf(n # 0, PutIf(back, put(h, next_linknode(node), Pointer(old_head)),
                        prev_linknode(old_head), Pointer(node)),
           prev_linknode(node), Pointer(NULL)) EXCEPT !.root_list[n] = node]

(* Mutant of insert_node: the old head keeps its prev link.                *)
insert_node_NoBackLink(h, node) ==
    LET n == find_listnumber(get_size(h, node))
        old_head == h.root_list[n]
    IN IF old_head = node THEN h ELSE PutFirst(h, node, n, old_head, FALSE)

insert_node(h, node) ==
    LET n == find_listnumber(get_size(h, node))
        old_head == h.root_list[n]
    IN IF old_head = node THEN h
       ELSE PutFirst(h, node, n, old_head, n # 0 /\ old_head # NULL)

(* In list 0 the predecessor is found by a walk, elsewhere by its link.    *)
ListPrev(h, node, n) ==
    LET before == {b \in ToSet(FreeList(h, 0)) : get(h, next_linknode(b)) = node}
    IN IF n # 0 THEN get(h, prev_linknode(node))
       ELSE IF before = {} THEN NULL ELSE CHOOSE b \in before : TRUE

UnlinkHead(h, n, next) ==
    [PutIf(n # 0 /\ next # NULL, h, prev_linknode(next), Pointer(NULL))
     EXCEPT !.root_list[n] = next]

Unlink(h, n, prev, next) ==
    IF n = 0 /\ prev = NULL THEN h
    ELSE put(PutIf(n # 0 /\ next # NULL, h, prev_linknode(next), Pointer(prev)),
             next_linknode(prev), Pointer(next))

(* Mutant of delete_node: a list is only ever left at its head.            *)
delete_node_HeadOnly(h, node) ==
    LET n == find_listnumber(get_size(h, node))
        next == get(h, next_linknode(node))
    IN IF h.root_list[n] = node THEN UnlinkHead(h, n, next) ELSE h

delete_node(h, node) ==
    LET n == find_listnumber(get_size(h, node))
        next == get(h, next_linknode(node))
    IN IF h.root_list[n] = node THEN UnlinkHead(h, n, next)
       ELSE Unlink(h, n, ListPrev(h, node, n), next)

(* Combined fit: of the first RANGE blocks that fit, from the list of that *)
(* size upwards, the first of the smallest.  A place is a block with its   *)
(* list and its position there.                                            *)
Places(h, from) ==
    UNION {LET list == FreeList(h, n) IN {<<n, i, list[i]>> : i \in DOMAIN list} :
           n \in from .. SIZE - 1}

Precedes(p, q) == p[1] < q[1] \/ (p[1] = q[1] /\ p[2] < q[2])

Better(h, p, q) == \/ get_size(h, p[3]) < get_size(h, q[3])
                   \/ get_size(h, p[3]) = get_size(h, q[3]) /\ ~Precedes(q, p)

Best(h, chosen) == CHOOSE p \in chosen : \A q \in chosen : Better(h, p, q)

find_fit(h, asize) ==
    LET fits == {p \in Places(h, find_listnumber(asize)) :
                    ~get_alloc(h, p[3]) /\ asize <= get_size(h, p[3])}
        chosen == {p \in fits : Cardinality({q \in fits : Precedes(q, p)}) < RANGE}
    IN IF chosen = {} THEN NULL ELSE Best(h, chosen)[3]

-----------------------------------------------------------------------------
(* Mutant of Before: a 16-byte block is taken to have a footer.            *)
Before_ByFooter(h, b) == find_prev(h, b)

(* A block that has become free joins its free neighbours and enters a     *)
(* list.  The block before it is found by its footer, unless it has none.  *)
Before(h, b) == IF get_prev_16B(h, b) THEN b - dsize ELSE find_prev(h, b)

Merged(h, b, size) == WriteFree(h, b, size, TRUE, get_prev_16B(h, b))

Coalesced(h, prev, b, after) ==
    CASE get_prev_alloc(h, b) /\ get_alloc(h, after) ->
           [block |-> b, heap |-> set_prev_alloc(insert_node(h, b), after, FALSE)]
      [] get_prev_alloc(h, b) /\ ~get_alloc(h, after) ->
           [block |-> b,
            heap |-> set_prev_16B(
                insert_node(Merged(delete_node(h, after), b,
                                   get_size(h, b) + get_size(h, after)), b),
                find_next(h, after), FALSE)]
      [] ~get_prev_alloc(h, b) /\ get_alloc(h, after) ->
           [block |-> prev,
            heap |-> insert_node(
                set_prev_16B(set_prev_alloc(
                    Merged(delete_node(h, prev), prev, get_size(h, b) + get_size(h, prev)),
                    after, FALSE), after, FALSE), prev)]
      [] OTHER ->
           [block |-> prev,
            heap |-> set_prev_16B(
                insert_node(Merged(delete_node(delete_node(h, prev), after), prev,
                                   get_size(h, b) + get_size(h, after) + get_size(h, prev)),
                            prev),
                find_next(h, after), FALSE)]

coalesce_block(h, b) == Coalesced(h, Before(h, b), b, find_next(h, b))

(* The old epilogue becomes the header of a free block, and a new epilogue *)
(* follows.  After the prologue the word before the header has size 0.     *)
extend_heap(h, size) ==
    LET n == round_up(size, dsize)
        b == payload_to_header(Brk(h))
        grown == mem_sbrk(h, n)
        first == ~get_prev_16B(h, b) /\ extract_size(Word(h, b - wsize)) = 0
        free == WriteFree(grown, b, n, first \/ get_prev_alloc(h, b),
                          ~first /\ get_prev_16B(h, b))
        unlinked == put(put(free, prev_linknode(b), Pointer(NULL)),
                        next_linknode(b), Pointer(NULL))
    IN IF ~CanGrow(h, n) THEN [block |-> NULL, heap |-> h]
       ELSE coalesce_block(write_header(unlinked, b + n, 0, TRUE, FALSE, FALSE), b)

(* Mutant of Tell16B: the block after a 16-byte block is not told.         *)
Tell16B_Not(h, b, size) == h

Tell16B(h, b, size) == IF size = dsize THEN set_prev_16B(h, b, TRUE) ELSE h

(* Take asize words of a block that was free and is marked allocated; the  *)
(* block has left its list.                                                *)
TakePart(h, b, asize, next_size) ==
    LET rest == b + asize
    IN insert_node(
           Tell16B(WriteFree(write_header(h, b, asize, TRUE, TRUE, get_prev_16B(h, b)),
                             rest, next_size, TRUE, asize = dsize),
                   rest + next_size, next_size),
           rest)

TakeAll(h, b, block_size) ==
    set_prev_alloc(write_header(h, b, block_size, TRUE, TRUE, get_prev_16B(h, b)),
                   b + block_size, TRUE)

split_block(h, b, asize, block_size) ==
    IF block_size - asize >= dsize
    THEN TakePart(delete_node(h, b), b, asize, block_size - asize)
    ELSE TakeAll(delete_node(h, b), b, block_size)

(* A new heap after all that mem_sbrk has handed out before: prologue,     *)
(* epilogue, and one free block.  The epilogue stands in for that block in *)
(* the last list until it is there.                                        *)
mm_init(h) ==
    LET start == Brk(h)
        begun == [put(put(mem_sbrk(h, 2), start, pack(0, TRUE, TRUE, FALSE)),
                      start + 1, pack(0, TRUE, FALSE, FALSE))
                  EXCEPT !.heap_start = start + 1,
                         !.root_list = [n \in Lists |->
                                           IF n = SIZE - 1 THEN start + 1 ELSE NULL]]
    IN IF CanGrow(h, 2) THEN extend_heap(begun, chunksize).heap ELSE h

(* Mutant of malloc's rounding: no room for the header.                    *)
Asize_NoHeader(size) == round_up(size, dsize)
Asize(size) == round_up(size + wsize, dsize)

(* malloc's answer: the payload's address, or NULL, and the heap.          *)
Found(h, fit, asize) ==
    IF fit # NULL THEN [block |-> fit, heap |-> h]
    ELSE extend_heap(h, IF asize > chunksize THEN asize ELSE chunksize)

Allocated(h, b, asize, block_size) ==
    split_block(write_header(h, b, block_size, TRUE, TRUE, get_prev_16B(h, b)),
                b, asize, block_size)

Placed(h, b, asize) ==
    IF b = NULL THEN [bp |-> NULL, heap |-> h]
    ELSE [bp |-> header_to_payload(b), heap |-> Allocated(h, b, asize, get_size(h, b))]

Served(h, size) ==
    LET place == Found(h, find_fit(h, Asize(size)), Asize(size))
    IN IF size = 0 THEN [bp |-> NULL, heap |-> h]
       ELSE Placed(place.heap, place.block, Asize(size))

malloc(h, size) ==
    Served(IF \A n \in Lists : h.root_list[n] = NULL THEN mm_init(h) ELSE h, size)

Marked(h, b, size) ==
    LET header == pack(size, FALSE, get_prev_alloc(h, b), get_prev_16B(h, b))
    IN put(PutIf(size >= min_block_size,
                 PutIf(size >= min_block_size, put(h, b, header),
                       b + size - wsize, header),
                 prev_linknode(b), Pointer(NULL)),
           next_linknode(b), Pointer(NULL))

free(h, bp) ==
    LET b == payload_to_header(bp)
    IN coalesce_block(Marked(h, b, get_size(h, b)), b).heap
=============================================================================
