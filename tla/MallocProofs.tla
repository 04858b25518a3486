---------------------------- MODULE MallocProofs ----------------------------
(***************************************************************************)
(* Proofs about the allocator (malloclab/mm.c), for every size of the      *)
(* heap, any classes of sizes and any requests.  The inductive invariant   *)
(* (Kept) says that there is a set of blocks that tile the heap, that each *)
(* has told the next one the truth, that the free lists hold the free ones *)
(* (Sound), and that the allocated ones are the clients' payloads (Owned). *)
(* A block that is being freed is the one exception (Limbo), between the   *)
(* marking of its header and coalesce_block.                               *)
(***************************************************************************)
EXTENDS Malloc, Induction

-----------------------------------------------------------------------------
(* What the words of a heap can hold, and writing them. *)

(* What a word can hold. *)
WordValues == {pack(s, a, p, q) : s \in Nat, a \in BOOLEAN, p \in BOOLEAN, q \in BOOLEAN}
                  \cup {Pointer(a) : a \in Nat} \cup {Data}

Memory(h) == h \in [mem : Seq(WordValues), heap_start : Nat,
                    root_list : [Lists -> Nat], strayed : BOOLEAN]

(* What is packed in a header or footer can be taken out again. *)
LEMMA Packed ==
    ASSUME NEW s \in Nat, NEW a \in BOOLEAN, NEW p \in BOOLEAN, NEW q \in BOOLEAN
    PROVE  /\ pack(s, a, p, q) \in WordValues
           /\ extract_size(pack(s, a, p, q)) = s
           /\ Bit(pack(s, a, p, q), "alloc") <=> a
           /\ Bit(pack(s, a, p, q), "prev") <=> p
           /\ Bit(pack(s, a, p, q), "prev_16B") <=> q
<1> DEFINE w == pack(s, a, p, q)
<1>1. w \in WordValues
  BY DEF WordValues
<1>2. w = [size |-> s, alloc |-> a, prev |-> p, prev_16B |-> q]
  BY DEF pack
<1>3. "size" \in DOMAIN w /\ w.size = s /\ w["alloc"] = a /\ w["prev"] = p /\ w["prev_16B"] = q
  BY <1>2
<1> QED
  BY <1>1, <1>3 DEF extract_size, Bit

(* A pointer in a word can be read back. *)
LEMMA Pointed ==
    ASSUME NEW a \in Nat
    PROVE  /\ Pointer(a) \in WordValues
           /\ extract_size(Pointer(a)) = 0
           /\ AsPointer(Pointer(a)) = a
<1>1. Pointer(a) = [pointer |-> a]
  BY DEF Pointer
<1>2. "pointer" \in DOMAIN Pointer(a) /\ "size" \notin DOMAIN Pointer(a) /\ Pointer(a).pointer = a
  BY <1>1
<1> QED
  BY <1>2 DEF extract_size, AsPointer, WordValues

(* Whatever a word holds, its size and its pointer are numbers. *)
LEMMA Read ==
    ASSUME NEW w \in WordValues
    PROVE  extract_size(w) \in Nat /\ AsPointer(w) \in Nat
<1>1. CASE w \in {pack(s, a, p, q) : s \in Nat, a \in BOOLEAN, p \in BOOLEAN, q \in BOOLEAN}
  <2>1. PICK s \in Nat, a \in BOOLEAN, p \in BOOLEAN, q \in BOOLEAN :
            w = [size |-> s, alloc |-> a, prev |-> p, prev_16B |-> q]
    BY <1>1 DEF pack
  <2>2. "pointer" \notin DOMAIN w /\ "size" \in DOMAIN w /\ w.size = s
    BY <2>1
  <2> QED
    BY <2>2 DEF extract_size, AsPointer, NULL
<1>2. CASE w \in {Pointer(a) : a \in Nat}
  <2>1. PICK a \in Nat : w = Pointer(a)
    BY <1>2
  <2> QED
    BY <2>1, Pointed
<1>3. CASE w = Data
  <2>1. "pointer" \notin DOMAIN w /\ "size" \notin DOMAIN w
    BY <1>3 DEF Data
  <2> QED
    BY <2>1 DEF extract_size, AsPointer, NULL
<1> QED
  BY <1>1, <1>2, <1>3 DEF WordValues

(* What reading the heap gives. *)
LEMMA MemoryParts ==
    ASSUME NEW h, Memory(h)
    PROVE  /\ Brk(h) \in Nat /\ h.heap_start \in Nat
           /\ h.root_list \in [Lists -> Nat]
           /\ \A a : Word(h, a) \in WordValues
           /\ \A a : get_size(h, a) \in Nat /\ get(h, a) \in Nat
<1>1. h.mem \in Seq(WordValues) /\ Brk(h) \in Nat /\ h.heap_start \in Nat
      /\ h.root_list \in [Lists -> Nat]
  BY DEF Memory, Brk
<1>2. ASSUME NEW a
      PROVE  Word(h, a) \in WordValues
  <2>1. Pointer(NULL) \in WordValues
    BY Pointed DEF NULL
  <2>2. ASSUME a \in 0 .. Brk(h) - 1
        PROVE  h.mem[a + 1] \in WordValues
    <3>1. a + 1 \in 1 .. Len(h.mem)
      BY <1>1, <2>2 DEF Brk
    <3> QED
      BY <1>1, <3>1
  <2> QED
    BY <2>1, <2>2 DEF Word
<1>3. ASSUME NEW a
      PROVE  get_size(h, a) \in Nat /\ get(h, a) \in Nat
  BY <1>2, Read DEF get_size, get
<1> QED
  BY <1>1, <1>2, <1>3

(* h2 differs from h in some of its words only. *)
Rewritten(h, h2) ==
    /\ Memory(h2)
    /\ Brk(h2) = Brk(h)
    /\ h2.heap_start = h.heap_start
    /\ h2.root_list = h.root_list

(* put changes one word, or strays. *)
LEMMA PutIs ==
    ASSUME NEW h, Memory(h), NEW a, NEW w \in WordValues
    PROVE  /\ Rewritten(h, put(h, a, w))
           /\ a \in 0 .. Brk(h) - 1 => put(h, a, w).strayed = h.strayed
           /\ h.strayed => put(h, a, w).strayed
           /\ a \notin 0 .. Brk(h) - 1 => put(h, a, w).strayed
           /\ \A x : Word(put(h, a, w), x) =
                        IF x = a /\ a \in 0 .. Brk(h) - 1 THEN w ELSE Word(h, x)
<1>0. h = [mem |-> h.mem, heap_start |-> h.heap_start,
           root_list |-> h.root_list, strayed |-> h.strayed]
      /\ h.mem \in Seq(WordValues) /\ h.heap_start \in Nat
      /\ h.root_list \in [Lists -> Nat] /\ h.strayed \in BOOLEAN
  BY DEF Memory
<1>1. CASE a \in 0 .. Brk(h) - 1
  <2> DEFINE m2 == [h.mem EXCEPT ![a + 1] = w]
             h2 == [mem |-> m2, heap_start |-> h.heap_start,
                    root_list |-> h.root_list, strayed |-> h.strayed]
  <2>1. put(h, a, w) = h2
    BY <1>0, <1>1 DEF put
  <2>2. a + 1 \in 1 .. Len(h.mem)
    BY <1>0, <1>1 DEF Brk
  <2>3. m2 \in Seq(WordValues) /\ Len(m2) = Len(h.mem)
    BY <1>0, <2>2
  <2>4. \A i \in 1 .. Len(h.mem) : m2[i] = IF i = a + 1 THEN w ELSE h.mem[i]
    BY <1>0, <2>2
  <2> HIDE DEF m2
  <2>5. h2 \in [mem : Seq(WordValues), heap_start : Nat,
                root_list : [Lists -> Nat], strayed : BOOLEAN]
    BY <1>0, <2>3
  <2>6. h2.mem = m2 /\ h2.heap_start = h.heap_start /\ h2.root_list = h.root_list
        /\ h2.strayed = h.strayed
    OBVIOUS
  <2> HIDE DEF h2
  <2>7. Brk(h2) = Brk(h)
    BY <2>3, <2>6 DEF Brk
  <2>8. Rewritten(h, h2)
    BY <2>5, <2>6, <2>7 DEF Rewritten, Memory
  <2>9. ASSUME NEW x
        PROVE  Word(h2, x) = IF x = a THEN w ELSE Word(h, x)
    <3>1. CASE x \in 0 .. Brk(h) - 1
      <4>1. x + 1 \in 1 .. Len(h.mem) /\ (x + 1 = a + 1 <=> x = a)
        BY <3>1, <1>0, <1>1 DEF Brk
      <4>2. Word(h2, x) = m2[x + 1] /\ Word(h, x) = h.mem[x + 1]
        BY <3>1, <2>6, <2>7 DEF Word
      <4> QED
        BY <4>1, <4>2, <2>4
    <3>2. CASE x \notin 0 .. Brk(h) - 1
      BY <3>2, <2>7, <1>1 DEF Word
    <3> QED
      BY <3>1, <3>2
  <2> QED
    BY <1>1, <2>1, <2>6, <2>8, <2>9
<1>2. CASE a \notin 0 .. Brk(h) - 1
  <2> DEFINE h2 == [mem |-> h.mem, heap_start |-> h.heap_start,
                    root_list |-> h.root_list, strayed |-> TRUE]
  <2>1. put(h, a, w) = h2
    BY <1>0, <1>2 DEF put
  <2>2. h2 \in [mem : Seq(WordValues), heap_start : Nat,
                root_list : [Lists -> Nat], strayed : BOOLEAN]
    BY <1>0
  <2>3. h2.mem = h.mem /\ h2.heap_start = h.heap_start /\ h2.root_list = h.root_list
        /\ h2.strayed = TRUE
    OBVIOUS
  <2> HIDE DEF h2
  <2>4. Brk(h2) = Brk(h) /\ \A x : Word(h2, x) = Word(h, x)
    BY <2>3 DEF Brk, Word
  <2>5. Rewritten(h, h2)
    BY <2>2, <2>3, <2>4 DEF Rewritten, Memory
  <2> QED
    BY <1>2, <2>1, <2>3, <2>4, <2>5
<1> QED
  BY <1>1, <1>2

(* h2 differs from h in words within the heap. *)
Wrote(h, h2) == Rewritten(h, h2) /\ h2.strayed = h.strayed

Within(h) == 0 .. Brk(h) - 1

(* Two writes within the heap are one. *)
LEMMA WroteTwice ==
    ASSUME NEW h, NEW h1, NEW h2, Wrote(h, h1), Wrote(h1, h2)
    PROVE  Wrote(h, h2)
BY DEF Wrote, Rewritten

(* put within the heap. *)
LEMMA PutWithin ==
    ASSUME NEW h, Memory(h), NEW a \in Within(h), NEW w \in WordValues
    PROVE  /\ Wrote(h, put(h, a, w))
           /\ Word(put(h, a, w), a) = w
           /\ \A x : x # a => Word(put(h, a, w), x) = Word(h, x)
BY PutIs DEF Wrote, Within

(* set_prev_alloc changes one bit of a header. *)
LEMMA SetPrevAlloc ==
    ASSUME NEW h, Memory(h), NEW b \in Within(h), NEW v \in BOOLEAN
    PROVE  LET h2 == set_prev_alloc(h, b, v)
           IN  /\ Wrote(h, h2)
               /\ \A x : x # b => Word(h2, x) = Word(h, x)
               /\ get_size(h2, b) = get_size(h, b)
               /\ get_alloc(h2, b) <=> get_alloc(h, b)
               /\ get_prev_alloc(h2, b) <=> v
               /\ get_prev_16B(h2, b) <=> get_prev_16B(h, b)
<1> DEFINE a == get_alloc(h, b)
           q == get_prev_16B(h, b)
           w == pack(get_size(h, b), a, v, q)
<1>1. get_size(h, b) \in Nat /\ a \in BOOLEAN /\ q \in BOOLEAN
  BY MemoryParts DEF get_alloc, get_prev_16B, Bit
<1>2. /\ w \in WordValues /\ extract_size(w) = get_size(h, b) /\ (Bit(w, "alloc") <=> a)
      /\ (Bit(w, "prev") <=> v) /\ (Bit(w, "prev_16B") <=> q)
  <2> HIDE DEF a, q
  <2> QED
    BY <1>1, Packed
<1>3. set_prev_alloc(h, b, v) = put(h, b, w)
  BY DEF set_prev_alloc
<1> HIDE DEF w
<1>4. /\ Wrote(h, put(h, b, w)) /\ Word(put(h, b, w), b) = w
      /\ \A x : x # b => Word(put(h, b, w), x) = Word(h, x)
  BY <1>2, PutWithin
<1> DEFINE h2 == put(h, b, w)
<1> HIDE DEF h2
<1>5. /\ Wrote(h, h2) /\ Word(h2, b) = w
      /\ \A x : x # b => Word(h2, x) = Word(h, x)
  BY <1>4 DEF h2
<1>6. /\ get_size(h2, b) = get_size(h, b) /\ (get_alloc(h2, b) <=> a)
      /\ (get_prev_alloc(h2, b) <=> v) /\ (get_prev_16B(h2, b) <=> q)
  BY <1>2, <1>5 DEF get_size, get_alloc, get_prev_alloc, get_prev_16B
<1>7. set_prev_alloc(h, b, v) = h2
  BY <1>3 DEF h2
<1> QED
  BY <1>5, <1>6, <1>7

(* set_prev_16B changes one bit of a header. *)
LEMMA SetPrev16B ==
    ASSUME NEW h, Memory(h), NEW b \in Within(h), NEW v \in BOOLEAN
    PROVE  LET h2 == set_prev_16B(h, b, v)
           IN  /\ Wrote(h, h2)
               /\ \A x : x # b => Word(h2, x) = Word(h, x)
               /\ get_size(h2, b) = get_size(h, b)
               /\ get_alloc(h2, b) <=> get_alloc(h, b)
               /\ get_prev_alloc(h2, b) <=> get_prev_alloc(h, b)
               /\ get_prev_16B(h2, b) <=> v
<1> DEFINE a == get_alloc(h, b)
           q == get_prev_alloc(h, b)
           w == pack(get_size(h, b), a, q, v)
<1>1. get_size(h, b) \in Nat /\ a \in BOOLEAN /\ q \in BOOLEAN
  BY MemoryParts DEF get_alloc, get_prev_alloc, Bit
<1>2. /\ w \in WordValues /\ extract_size(w) = get_size(h, b) /\ (Bit(w, "alloc") <=> a)
      /\ (Bit(w, "prev") <=> q) /\ (Bit(w, "prev_16B") <=> v)
  <2> HIDE DEF a, q
  <2> QED
    BY <1>1, Packed
<1>3. set_prev_16B(h, b, v) = put(h, b, w)
  BY DEF set_prev_16B
<1> HIDE DEF w
<1> DEFINE h2 == put(h, b, w)
<1>5. /\ Wrote(h, h2) /\ Word(h2, b) = w
      /\ \A x : x # b => Word(h2, x) = Word(h, x)
  BY <1>2, PutWithin
<1> HIDE DEF h2
<1>6. /\ get_size(h2, b) = get_size(h, b) /\ (get_alloc(h2, b) <=> a)
      /\ (get_prev_alloc(h2, b) <=> q) /\ (get_prev_16B(h2, b) <=> v)
  BY <1>2, <1>5 DEF get_size, get_alloc, get_prev_alloc, get_prev_16B
<1>7. set_prev_16B(h, b, v) = h2
  BY <1>3 DEF h2
<1> QED
  BY <1>5, <1>6, <1>7

(* Header and footer of a free block, and what its header then says. *)
FreeAt(h, b, size, prev, prev_16B) ==
    /\ get_size(h, b) = size /\ ~get_alloc(h, b)
    /\ get_prev_alloc(h, b) <=> prev
    /\ get_prev_16B(h, b) <=> prev_16B
    /\ Word(h, b + size - 1) = Word(h, b)

(* WriteFree writes a header and the footer that repeats it. *)
LEMMA WroteFree ==
    ASSUME NEW h, Memory(h), NEW b \in Nat, NEW size \in Nat, size >= 2, b + size <= Brk(h),
           NEW p \in BOOLEAN, NEW q \in BOOLEAN
    PROVE  LET h2 == WriteFree(h, b, size, p, q)
           IN  /\ Wrote(h, h2)
               /\ FreeAt(h2, b, size, p, q)
               /\ \A x : x # b /\ x # b + size - 1 => Word(h2, x) = Word(h, x)
<1> DEFINE w == pack(size, FALSE, p, q)
           h1 == put(h, b, w)
           f == b + size - 1
           h2 == put(h1, f, w)
<1>1. /\ w \in WordValues /\ extract_size(w) = size /\ ~Bit(w, "alloc")
      /\ (Bit(w, "prev") <=> p) /\ (Bit(w, "prev_16B") <=> q)
  BY Packed
<1>2. b \in Within(h) /\ f \in Within(h)
  BY MemoryParts DEF Within
<1> HIDE DEF w
<1>3. /\ Wrote(h, h1) /\ Word(h1, b) = w
      /\ \A x : x # b => Word(h1, x) = Word(h, x)
  BY <1>1, <1>2, PutWithin
<1>4. header_to_footer(h1, b) = f
  BY <1>1, <1>3 DEF header_to_footer, get_size, wsize
<1>5. WriteFree(h, b, size, p, q) = h2
  BY <1>4 DEF WriteFree, write_footer, write_header, w
<1> HIDE DEF h1
<1>6. Memory(h1) /\ f \in Within(h1)
  BY <1>2, <1>3 DEF Wrote, Rewritten, Within
<1>7. /\ Wrote(h1, h2) /\ Word(h2, f) = w
      /\ \A x : x # f => Word(h2, x) = Word(h1, x)
  BY <1>1, <1>6, PutWithin
<1> HIDE DEF h2, f
<1>8. Word(h2, b) = w
  BY <1>3, <1>7
<1>9. FreeAt(h2, b, size, p, q)
  BY <1>1, <1>7, <1>8 DEF FreeAt, f, get_size, get_alloc, get_prev_alloc, get_prev_16B
<1>10. Wrote(h, h2)
  BY <1>3, <1>7, WroteTwice
<1>11. \A x : x # b /\ x # f => Word(h2, x) = Word(h, x)
  BY <1>3, <1>7
<1> QED
  BY <1>5, <1>9, <1>10, <1>11 DEF f

-----------------------------------------------------------------------------
(* The free lists: what insert_node and delete_node do. *)

(* The classes of sizes: 16-byte blocks have list 0 to themselves. *)
LEMMA ListNumber ==
    ASSUME NEW x \in Nat
    PROVE  /\ find_listnumber(x) \in Lists
           /\ find_listnumber(x) = 0 <=> x <= dsize
           /\ \A y \in Nat : x <= y => find_listnumber(x) <= find_listnumber(y)
<1> DEFINE D == DOMAIN Limits
           Above(y) == {i \in D : y > dsize * Limits[i]}
<1>1. /\ D = 1 .. Len(Limits) /\ Len(Limits) \in Nat \ {0} /\ Limits[1] = 1
      /\ \A i \in D : Limits[i] \in Nat \ {0}
  BY HeapAssumption
<1>2. IsFiniteSet(D) /\ Cardinality(D) = Len(Limits)
  BY <1>1, FS_Interval
<1>3. ASSUME NEW y \in Nat
      PROVE  /\ IsFiniteSet(Above(y)) /\ Cardinality(Above(y)) \in 0 .. Len(Limits)
             /\ find_listnumber(y) = Cardinality(Above(y))
  <2>1. Above(y) \subseteq D
    OBVIOUS
  <2>2. IsFiniteSet(Above(y)) /\ Cardinality(Above(y)) <= Cardinality(D)
    <3> HIDE DEF Above, D
    <3> QED
      BY <1>2, <2>1, FS_Subset
  <2>3. Cardinality(Above(y)) \in Nat
    BY <2>2, FS_CardinalityType
  <2> QED
    BY <1>1, <1>2, <2>2, <2>3 DEF find_listnumber
<1>4. Lists = 0 .. Len(Limits)
  BY <1>1 DEF Lists, SIZE
<1>5. find_listnumber(x) \in Lists
  BY <1>3, <1>4
<1>6. find_listnumber(x) = 0 <=> x <= dsize
  <2>1. Cardinality(Above(x)) = 0 <=> Above(x) = {}
    BY <1>3, FS_EmptySet
  <2>2. Above(x) = {} <=> x <= dsize
    <3>1. ASSUME Above(x) = {} PROVE x <= dsize
      <4>1. 1 \in D /\ 1 \notin Above(x)
        BY <1>1, <3>1
      <4> QED
        BY <4>1, <1>1 DEF dsize
    <3>2. ASSUME x <= dsize, NEW i \in D PROVE ~(x > dsize * Limits[i])
      <4>1. Limits[i] \in Nat \ {0}
        BY <1>1
      <4> QED
        BY <3>2, <4>1 DEF dsize
    <3> QED
      BY <3>1, <3>2
  <2> QED
    BY <1>3, <2>1, <2>2
<1>7. ASSUME NEW y \in Nat, x <= y
      PROVE  find_listnumber(x) <= find_listnumber(y)
  <2>1. Above(x) \subseteq Above(y)
    <3>1. ASSUME NEW i \in D, x > dsize * Limits[i]
          PROVE  y > dsize * Limits[i]
      <4>1. Limits[i] \in Nat
        BY <1>1
      <4> QED
        BY <3>1, <4>1, <1>7 DEF dsize
    <3> QED
      BY <3>1
  <2>2. Cardinality(Above(x)) <= Cardinality(Above(y))
    <3>1. IsFiniteSet(Above(y))
      BY <1>3
    <3> HIDE DEF Above
    <3> QED
      BY <2>1, <3>1, FS_Subset
  <2> QED
    BY <1>3, <2>2
<1> QED
  BY <1>5, <1>6, <1>7

(* List n of h is s[1], ..., s[k], the blocks of S, each once. *)
Chain(h, n, S, k, s) ==
    /\ k \in Nat /\ s \in [1 .. k -> S]
    /\ \A x \in S : \E i \in 1 .. k : s[i] = x
    /\ \A i, j \in 1 .. k : s[i] = s[j] => i = j
    /\ h.root_list[n] = IF k = 0 THEN NULL ELSE s[1]
    /\ \A i \in 1 .. k : get(h, s[i] + 1) = IF i = k THEN NULL ELSE s[i + 1]
    /\ n # 0 => \A i \in 1 .. k : get(h, s[i] + 2) = IF i = 1 THEN NULL ELSE s[i - 1]

Holds(h, n, S) == \E k, s : Chain(h, n, S, k, s)

(* Nodes whose links are words of the heap. *)
Node(h, n, x) ==
    /\ x \in Nat /\ x % 2 = 1
    /\ x + 1 < Brk(h)
    /\ n # 0 => x + 2 < Brk(h)

(* The lists of N hold the blocks that S says. *)
Linked(h, N, S) ==
    /\ N \subseteq Lists
    /\ S \in [N -> SUBSET Nat]
    /\ \A n \in N : Holds(h, n, S[n])
    /\ \A n \in N : \A x \in S[n] : Node(h, n, x)
    /\ \A m, n \in N : m # n => S[m] \cap S[n] = {}

LinkWords(n, T) == {x + 1 : x \in T} \cup {x + 2 : x \in {y \in T : n # 0}}

(* A list depends on nothing but its root and its links. *)
LEMMA HoldsStill ==
    ASSUME NEW h, NEW h2, NEW n, NEW S, Holds(h, n, S),
           h2.root_list[n] = h.root_list[n],
           \A x \in S : get(h2, x + 1) = get(h, x + 1),
           n # 0 => \A x \in S : get(h2, x + 2) = get(h, x + 2)
    PROVE  Holds(h2, n, S)
<1>1. PICK k, s : Chain(h, n, S, k, s)
  BY DEF Holds
<1>2. Chain(h2, n, S, k, s)
  <2>1. k \in Nat /\ s \in [1 .. k -> S]
    BY <1>1 DEF Chain
  <2>2. ASSUME NEW i \in 1 .. k
        PROVE  get(h2, s[i] + 1) = get(h, s[i] + 1)
               /\ (n # 0 => get(h2, s[i] + 2) = get(h, s[i] + 2))
    BY <2>1
  <2> QED
    BY <1>1, <2>2 DEF Chain
<1> QED
  BY <1>2 DEF Holds

(* So do all the lists. *)
LEMMA LinkedStill ==
    ASSUME NEW h, Memory(h), NEW h2, NEW N, NEW S, Linked(h, N, S), Memory(h2), Brk(h2) >= Brk(h),
           \A n \in N : h2.root_list[n] = h.root_list[n],
           \A n \in N : \A a \in LinkWords(n, S[n]) : Word(h2, a) = Word(h, a)
    PROVE  Linked(h2, N, S)
<1>1. ASSUME NEW n \in N
      PROVE  Holds(h2, n, S[n])
  <2>1. \A x \in S[n] : get(h2, x + 1) = get(h, x + 1)
    BY DEF LinkWords, get
  <2>2. n # 0 => \A x \in S[n] : get(h2, x + 2) = get(h, x + 2)
    BY DEF LinkWords, get
  <2>3. Holds(h, n, S[n])
    BY DEF Linked
  <2> QED
    BY <2>1, <2>2, <2>3, HoldsStill
<1>2. ASSUME NEW n \in N, NEW x \in S[n]
      PROVE  Node(h2, n, x)
  <2>1. Node(h, n, x) /\ Brk(h2) \in Nat /\ Brk(h) \in Nat
    BY MemoryParts DEF Linked
  <2> QED
    BY <2>1 DEF Node
<1> QED
  BY <1>1, <1>2 DEF Linked

(* h2 differs from h in list n only: its root and links of nodes in T. *)
Relinked(h, h2, n, T) ==
    /\ Memory(h2)
    /\ Brk(h2) = Brk(h)
    /\ h2.heap_start = h.heap_start
    /\ h2.strayed = h.strayed
    /\ \A m \in Lists : m # n => h2.root_list[m] = h.root_list[m]
    /\ \A a : a \notin LinkWords(n, T) => Word(h2, a) = Word(h, a)

(* A root can be changed by itself. *)
LEMMA Reroot ==
    ASSUME NEW h, Memory(h), NEW n \in Lists, NEW a \in Nat
    PROVE  LET r == [h EXCEPT !.root_list[n] = a]
           IN  /\ Memory(r) /\ Brk(r) = Brk(h) /\ r.heap_start = h.heap_start
               /\ r.strayed = h.strayed /\ r.root_list[n] = a
               /\ \A m \in Lists : m # n => r.root_list[m] = h.root_list[m]
               /\ \A x : Word(r, x) = Word(h, x)
<1> DEFINE r == [h EXCEPT !.root_list[n] = a]
           l2 == [h.root_list EXCEPT ![n] = a]
<1>1. h = [mem |-> h.mem, heap_start |-> h.heap_start,
           root_list |-> h.root_list, strayed |-> h.strayed]
      /\ h.mem \in Seq(WordValues) /\ h.heap_start \in Nat
      /\ h.root_list \in [Lists -> Nat] /\ h.strayed \in BOOLEAN
  BY DEF Memory
<1>2. r = [mem |-> h.mem, heap_start |-> h.heap_start, root_list |-> l2, strayed |-> h.strayed]
  <2>1. r = [h EXCEPT !.root_list = l2]
    BY <1>1
  <2> HIDE DEF l2, r
  <2> QED
    BY <1>1, <2>1
<1>3. l2 \in [Lists -> Nat] /\ l2[n] = a /\ \A m \in Lists : m # n => l2[m] = h.root_list[m]
  BY <1>1
<1> HIDE DEF l2
<1>4. r \in [mem : Seq(WordValues), heap_start : Nat,
             root_list : [Lists -> Nat], strayed : BOOLEAN]
  BY <1>1, <1>2, <1>3
<1>5. r.mem = h.mem /\ r.heap_start = h.heap_start /\ r.root_list = l2 /\ r.strayed = h.strayed
  BY <1>2
<1> HIDE DEF r
<1>6. Brk(r) = Brk(h) /\ \A x : Word(r, x) = Word(h, x)
  BY <1>5 DEF Brk, Word
<1>7. Memory(r)
  BY <1>4 DEF Memory
<1> QED
  BY <1>3, <1>5, <1>6, <1>7 DEF r

(* What was not rewritten. *)
LEMMA Wrote2 ==
    ASSUME NEW h, NEW h2, Wrote(h, h2)
    PROVE  /\ Memory(h2) /\ Brk(h2) = Brk(h) /\ Within(h2) = Within(h)
           /\ h2.heap_start = h.heap_start /\ h2.root_list = h.root_list
           /\ h2.strayed = h.strayed
BY DEF Wrote, Rewritten, Within

(* What insert_node writes. *)
LEMMA PutFirstIs ==
    ASSUME NEW h, Memory(h), NEW n \in Lists, NEW node, Node(h, n, node),
           NEW old \in Nat, old # node, NEW back \in BOOLEAN,
           back => n # 0 /\ Node(h, n, old)
    PROVE  LET r == PutFirst(h, node, n, old, back)
           IN  /\ Memory(r) /\ Brk(r) = Brk(h) /\ r.heap_start = h.heap_start
               /\ r.strayed = h.strayed
               /\ \A m \in Lists : r.root_list[m] = IF m = n THEN node ELSE h.root_list[m]
               /\ Word(r, node + 1) = Pointer(old)
               /\ n # 0 => Word(r, node + 2) = Pointer(NULL)
               /\ back => Word(r, old + 2) = Pointer(node)
               /\ \A x : x # node + 1 /\ (n # 0 => x # node + 2) /\ (back => x # old + 2)
                            => Word(r, x) = Word(h, x)
<1> DEFINE h1 == put(h, node + 1, Pointer(old))
           h2 == PutIf(back, h1, old + 2, Pointer(node))
           z  == n # 0
           h3 == PutIf(z, h2, node + 2, Pointer(NULL))
           r  == [h3 EXCEPT !.root_list[n] = node]
<1>0. PutFirst(h, node, n, old, back) = r
  BY DEF PutFirst, next_linknode, prev_linknode, wsize
<1>1. /\ node \in Nat /\ node + 1 \in Within(h) /\ (z => node + 2 \in Within(h))
      /\ (back => old + 2 \in Within(h)) /\ z \in BOOLEAN
  BY MemoryParts DEF Node, Within
<1>2. Pointer(old) \in WordValues /\ Pointer(node) \in WordValues /\ Pointer(NULL) \in WordValues
  BY <1>1, Pointed DEF NULL
<1>3. /\ Wrote(h, h1) /\ Word(h1, node + 1) = Pointer(old)
      /\ \A x : x # node + 1 => Word(h1, x) = Word(h, x)
  BY <1>1, <1>2, PutWithin
<1> HIDE DEF h1
<1>4. Memory(h1) /\ Within(h1) = Within(h)
  BY <1>3, Wrote2
<1>5. /\ Wrote(h1, h2) /\ (back => Word(h2, old + 2) = Pointer(node))
      /\ \A x : ~back \/ x # old + 2 => Word(h2, x) = Word(h1, x)
  <2>1. CASE back
    <3>1. h2 = put(h1, old + 2, Pointer(node)) /\ old + 2 \in Within(h1)
      BY <1>1, <1>4, <2>1 DEF PutIf
    <3> HIDE DEF h2
    <3> QED
      BY <1>2, <1>4, <2>1, <3>1, PutWithin
  <2>2. CASE ~back
    <3>1. h2 = h1
      BY <2>2 DEF PutIf
    <3> HIDE DEF h2
    <3> QED
      BY <1>4, <2>2, <3>1 DEF Wrote, Rewritten
  <2> QED
    BY <2>1, <2>2
<1> HIDE DEF h2
<1>6. Memory(h2) /\ Within(h2) = Within(h) /\ Wrote(h, h2)
  BY <1>3, <1>4, <1>5, Wrote2, WroteTwice
<1>7. /\ Wrote(h2, h3) /\ (z => Word(h3, node + 2) = Pointer(NULL))
      /\ \A x : ~z \/ x # node + 2 => Word(h3, x) = Word(h2, x)
  <2>1. CASE z
    <3>1. h3 = put(h2, node + 2, Pointer(NULL)) /\ node + 2 \in Within(h2)
      BY <1>1, <1>6, <2>1 DEF PutIf
    <3> HIDE DEF h3
    <3> QED
      BY <1>2, <1>6, <2>1, <3>1, PutWithin
  <2>2. CASE ~z
    <3>1. h3 = h2
      BY <2>2 DEF PutIf
    <3> HIDE DEF h3
    <3> QED
      BY <1>6, <2>2, <3>1 DEF Wrote, Rewritten
  <2> QED
    BY <2>1, <2>2
<1> HIDE DEF h3
<1>8. Wrote(h, h3)
  BY <1>6, <1>7, WroteTwice
<1>9. /\ Memory(h3) /\ Brk(h3) = Brk(h) /\ h3.heap_start = h.heap_start
      /\ h3.root_list = h.root_list /\ h3.strayed = h.strayed
  BY <1>8, Wrote2
<1>10. /\ Memory(r) /\ Brk(r) = Brk(h3) /\ r.heap_start = h3.heap_start
       /\ r.strayed = h3.strayed /\ r.root_list[n] = node
       /\ \A m \in Lists : m # n => r.root_list[m] = h3.root_list[m]
       /\ \A x : Word(r, x) = Word(h3, x)
  <2> HIDE DEF r
  <2> QED
    BY <1>1, <1>9, Reroot DEF r
<1> HIDE DEF r
<1>11. node + 1 # node + 2 /\ (back => node + 1 # old + 2 /\ old + 2 # node + 2)
  <2>1. back => old % 2 = 1 /\ node % 2 = 1
    BY DEF Node
  <2> QED
    BY <1>1, <2>1
<1>12. Word(r, node + 1) = Pointer(old)
  BY <1>3, <1>5, <1>7, <1>10, <1>11
<1>13. n # 0 => Word(r, node + 2) = Pointer(NULL)
  BY <1>7, <1>10
<1>14. back => Word(r, old + 2) = Pointer(node)
  BY <1>5, <1>7, <1>10, <1>11
<1>15. \A x : x # node + 1 /\ (n # 0 => x # node + 2) /\ (back => x # old + 2)
                 => Word(r, x) = Word(h, x)
  BY <1>3, <1>5, <1>7, <1>10
<1> QED
  BY <1>0, <1>9, <1>10, <1>12, <1>13, <1>14, <1>15

(* insert_node puts a block that is in no list at the head of its list. *)
LEMMA Inserted ==
    ASSUME NEW h, Memory(h), NEW N, NEW S, Linked(h, N, S), NEW node, NEW n \in N,
           n = find_listnumber(get_size(h, node)), Node(h, n, node),
           \A m \in N : node \notin S[m]
    PROVE  LET r == insert_node(h, node)
           IN  /\ Relinked(h, r, n, S[n] \cup {node})
               /\ r.root_list[n] = node
               /\ Linked(r, N, [S EXCEPT ![n] = @ \cup {node}])
<1> DEFINE T == S[n] \cup {node}
           old == h.root_list[n]
           r == insert_node(h, node)
           S2 == [S EXCEPT ![n] = T]
<1>1. PICK k, s : Chain(h, n, S[n], k, s)
  BY DEF Linked, Holds
<1>2. n \in Lists /\ N \subseteq Lists /\ S \in [N -> SUBSET Nat] /\ S[n] \subseteq Nat
      /\ node \in Nat /\ node # NULL
      /\ \A x \in S[n] : Node(h, n, x) /\ x \in Nat /\ x % 2 = 1 /\ x # NULL
  BY DEF Linked, Node, NULL
<1>3. old \in Nat /\ old # node /\ (old # NULL <=> k # 0) /\ (k # 0 => 1 \in 1 .. k /\ old = s[1] /\ old \in S[n])
  <2>1. CASE k = 0
    BY <2>1, <1>1, <1>2 DEF Chain, NULL
  <2>2. CASE k # 0
    <3>1. 1 \in 1 .. k /\ old = s[1] /\ s[1] \in S[n]
      BY <2>2, <1>1 DEF Chain
    <3> QED
      BY <3>1, <1>2, <2>2
  <2> QED
    BY <2>1, <2>2
<1>4. PICK back \in BOOLEAN : back <=> n # 0 /\ old # NULL
  OBVIOUS
<1>5. r = PutFirst(h, node, n, old, back)
  BY <1>3, <1>4, Zenon DEF insert_node
<1>6. back => n # 0 /\ Node(h, n, old)
  BY <1>2, <1>3, <1>4
<1> HIDE DEF r, old
<1>7. /\ Memory(r) /\ Brk(r) = Brk(h) /\ r.heap_start = h.heap_start
      /\ r.strayed = h.strayed
      /\ \A m \in Lists : r.root_list[m] = IF m = n THEN node ELSE h.root_list[m]
      /\ Word(r, node + 1) = Pointer(old)
      /\ n # 0 => Word(r, node + 2) = Pointer(NULL)
      /\ back => Word(r, old + 2) = Pointer(node)
      /\ \A x : x # node + 1 /\ (n # 0 => x # node + 2) /\ (back => x # old + 2)
                   => Word(r, x) = Word(h, x)
  BY <1>2, <1>3, <1>5, <1>6, PutFirstIs
<1>8. Relinked(h, r, n, T)
  <2>1. ASSUME NEW a, a \notin LinkWords(n, T)
        PROVE  Word(r, a) = Word(h, a)
    <3>1. a # node + 1 /\ (n # 0 => a # node + 2)
      BY <2>1 DEF LinkWords
    <3>2. back => a # old + 2
      BY <2>1, <1>3, <1>4 DEF LinkWords
    <3> QED
      BY <1>7, <3>1, <3>2
  <2>2. \A m \in Lists : m # n => r.root_list[m] = h.root_list[m]
    BY <1>7
  <2> HIDE DEF T
  <2> QED
    BY <1>7, <2>1, <2>2 DEF Relinked
<1>9. Holds(r, n, T)
  <2> DEFINE s2 == [j \in 1 .. k + 1 |-> IF j = 1 THEN node ELSE s[j - 1]]
  <2>0. k \in Nat /\ s \in [1 .. k -> S[n]] /\ node \notin S[n]
    BY <1>1 DEF Chain
  <2>1. s2 \in [1 .. k + 1 -> T] /\ s2[1] = node
        /\ \A j \in 1 .. k : s2[j + 1] = s[j] /\ j + 1 \in 1 .. k + 1
    BY <2>0
  <2>2. \A j \in 1 .. k + 1 : j = 1 \/ (j - 1 \in 1 .. k /\ s2[j] = s[j - 1] /\ s2[j] \in S[n])
    BY <2>0
  <2>a. \A j \in 1 .. k + 1 : j # 1 => j - 1 \in 1 .. k
    BY <2>0
  <2> HIDE DEF s2
  <2>3. \A x \in T : \E i \in 1 .. k + 1 : s2[i] = x
    <3> TAKE x \in T
    <3>1. CASE x = node
      BY <2>0, <2>1, <3>1
    <3>2. CASE x # node
      <4>1. PICK i \in 1 .. k : s[i] = x
        BY <1>1, <3>2 DEF Chain
      <4> QED
        BY <2>1, <4>1
    <3> QED
      BY <3>1, <3>2
  <2>4. ASSUME NEW i \in 1 .. k + 1, NEW j \in 1 .. k + 1, s2[i] = s2[j]
        PROVE  i = j
    <3>1. CASE i = 1 \/ j = 1
      BY <2>0, <2>1, <2>2, <2>4, <3>1
    <3>2. CASE i # 1 /\ j # 1
      <4>1. i - 1 \in 1 .. k /\ j - 1 \in 1 .. k /\ s[i - 1] = s[j - 1]
        BY <2>2, <2>4, <3>2
      <4>2. i - 1 = j - 1
        BY <1>1, <4>1 DEF Chain
      <4> QED
        BY <4>2
    <3> QED
      BY <3>1, <3>2
  <2>5. r.root_list[n] = s2[1] /\ k + 1 # 0 /\ k + 1 \in Nat
    BY <1>2, <1>7, <2>0, <2>1
  <2>6. ASSUME NEW i \in 1 .. k + 1
        PROVE  get(r, s2[i] + 1) = IF i = k + 1 THEN NULL ELSE s2[i + 1]
    <3>1. CASE i = 1
      <4>1. get(r, node + 1) = old
        BY <1>3, <1>7, Pointed DEF get
      <4>2. old = IF k = 0 THEN NULL ELSE s[1]
        BY <1>3
      <4>3. k # 0 => s2[2] = s[1]
        BY <2>0, <2>1
      <4> QED
        BY <2>0, <2>1, <3>1, <4>1, <4>2, <4>3
    <3>2. CASE i # 1
      <4> DEFINE x == s[i - 1]
      <4>1. i - 1 \in 1 .. k /\ s2[i] = x /\ x \in S[n]
        BY <2>2, <3>2
      <4>2. get(h, x + 1) = IF i - 1 = k THEN NULL ELSE s[i]
        BY <1>1, <4>1 DEF Chain
      <4>3. x \in Nat /\ x % 2 = 1 /\ x # node /\ node % 2 = 1
        BY <1>2, <2>0, <4>1 DEF Node
      <4>4. x + 1 # node + 1 /\ x + 1 # node + 2
        BY <1>2, <4>3
      <4>5. back => x + 1 # old + 2
        BY <1>2, <1>3, <1>4, <4>3
      <4>6. Word(r, x + 1) = Word(h, x + 1)
        BY <1>7, <4>4, <4>5
      <4>7. i # k + 1 => s2[i + 1] = s[i]
        <5>1. ASSUME i # k + 1 PROVE i \in 1 .. k
          BY <5>1, <2>0
        <5> QED
          BY <2>1, <5>1
      <4>8. i - 1 = k <=> i = k + 1
        BY <2>0
      <4>9. get(r, x + 1) = get(h, x + 1)
        BY <4>6 DEF get
      <4> HIDE DEF x
      <4> QED
        BY <4>1, <4>2, <4>7, <4>8, <4>9
    <3> QED
      BY <3>1, <3>2
  <2>7. ASSUME n # 0, NEW i \in 1 .. k + 1
        PROVE  get(r, s2[i] + 2) = IF i = 1 THEN NULL ELSE s2[i - 1]
    <3>1. CASE i = 1
      <4>1. get(r, node + 2) = NULL
        BY <1>7, <2>7, Pointed DEF get, NULL
      <4> QED
        BY <2>1, <3>1, <4>1
    <3>2. CASE i # 1
      <4> DEFINE x == s[i - 1]
      <4>1. i - 1 \in 1 .. k /\ s2[i] = x /\ x \in S[n]
        BY <2>2, <3>2
      <4>2. get(h, x + 2) = IF i - 1 = 1 THEN NULL ELSE s[i - 2]
        <5>1. \A j \in 1 .. k : get(h, s[j] + 2) = IF j = 1 THEN NULL ELSE s[j - 1]
          BY <1>1, <2>7 DEF Chain
        <5>2. (i - 1) - 1 = i - 2
          OBVIOUS
        <5> QED
          BY <4>1, <5>1, <5>2
      <4>3. x \in Nat /\ x % 2 = 1 /\ x # node /\ node % 2 = 1
        BY <1>2, <2>0, <4>1 DEF Node
      <4>4. x + 2 # node + 1 /\ x + 2 # node + 2
        BY <1>2, <4>3
      <4>5. CASE i = 2
        <5>1. x = old /\ back
          BY <4>1, <4>5, <1>3, <1>4, <2>7
        <5>2. get(r, x + 2) = node
          BY <1>2, <1>7, <5>1, Pointed DEF get
        <5> QED
          BY <2>1, <4>1, <4>5, <5>2
      <4>6. CASE i # 2
        <5>1. i - 1 # 1 /\ 1 \in 1 .. k
          BY <2>0, <4>1, <4>6
        <5>2. x # old
          BY <1>1, <1>3, <4>1, <5>1 DEF Chain
        <5>3. back => x + 2 # old + 2
          BY <1>3, <4>3, <5>2
        <5>4. Word(r, x + 2) = Word(h, x + 2)
          BY <1>7, <4>4, <5>3
        <5>5. get(r, x + 2) = s[i - 2]
          BY <4>2, <5>1, <5>4 DEF get
        <5>6. i - 2 \in 1 .. k /\ (i - 2) + 1 = i - 1
          BY <2>0, <4>1, <4>6
        <5>7. s2[i - 1] = s[i - 2]
          BY <2>1, <5>6
        <5> HIDE DEF x
        <5> QED
          BY <3>2, <4>1, <5>5, <5>7
      <4> QED
        BY <4>5, <4>6
    <3> QED
      BY <3>1, <3>2
  <2>8. Chain(r, n, T, k + 1, s2)
    <3> HIDE DEF T
    <3>1. \A i \in 1 .. k + 1 : get(r, s2[i] + 1) = IF i = k + 1 THEN NULL ELSE s2[i + 1]
      BY <2>6
    <3>2. n # 0 => \A i \in 1 .. k + 1 : get(r, s2[i] + 2) = IF i = 1 THEN NULL ELSE s2[i - 1]
      BY <2>7
    <3> QED
      BY <2>1, <2>3, <2>4, <2>5, <3>1, <3>2 DEF Chain
  <2> QED
    BY <2>8 DEF Holds
<1>10. ASSUME NEW m \in N, m # n
       PROVE  Holds(r, m, S[m])
  <2>1. \A x \in S[m] : Node(h, m, x) /\ x \in Nat /\ x % 2 = 1 /\ x # node /\ x \notin S[n]
    BY <1>10 DEF Linked, Node
  <2>2. ASSUME NEW x \in S[m]
        PROVE  Word(r, x + 1) = Word(h, x + 1) /\ Word(r, x + 2) = Word(h, x + 2)
    <3>1. x \in Nat /\ x % 2 = 1 /\ x # node /\ x \notin S[n] /\ node % 2 = 1
      BY <2>1 DEF Node
    <3>2. back => old \in S[n] /\ old \in Nat /\ old % 2 = 1 /\ x # old
      BY <1>2, <1>3, <1>4, <3>1
    <3>3. x + 1 # node + 1 /\ x + 1 # node + 2 /\ x + 2 # node + 1 /\ x + 2 # node + 2
      BY <1>2, <3>1
    <3>4. back => x + 1 # old + 2 /\ x + 2 # old + 2
      BY <3>1, <3>2
    <3> QED
      BY <1>7, <3>3, <3>4
  <2>3. \A x \in S[m] : get(r, x + 1) = get(h, x + 1) /\ get(r, x + 2) = get(h, x + 2)
    BY <2>2 DEF get
  <2>4. Holds(h, m, S[m]) /\ r.root_list[m] = h.root_list[m]
    BY <1>2, <1>7, <1>10 DEF Linked
  <2> QED
    BY <2>3, <2>4, HoldsStill
<1>11. S2 \in [N -> SUBSET Nat] /\ S2[n] = T /\ \A m \in N : m # n => S2[m] = S[m]
  BY <1>2
<1>12. Linked(r, N, S2)
  <2> HIDE DEF S2, T
  <2>1. \A m \in N : Holds(r, m, S2[m])
    BY <1>9, <1>10, <1>11
  <2>2. \A m \in N : \A x \in S2[m] : Node(r, m, x)
    <3> TAKE m \in N
    <3>1. \A x \in S[m] : Node(h, m, x)
      BY DEF Linked
    <3>2. \A x \in S2[m] : Node(h, m, x)
      BY <1>11, <3>1 DEF T
    <3> QED
      BY <1>7, <3>2 DEF Node
  <2>3. \A i, j \in N : i # j => S2[i] \cap S2[j] = {}
    <3>1. \A i, j \in N : i # j => S[i] \cap S[j] = {}
      BY DEF Linked
    <3> QED
      BY <1>11, <3>1 DEF T
  <2> QED
    BY <1>2, <1>11, <2>1, <2>2, <2>3 DEF Linked
<1>13. [S EXCEPT ![n] = @ \cup {node}] = S2
  OBVIOUS
<1> QED
  BY <1>2, <1>7, <1>8, <1>12, <1>13 DEF r, T

(* A list of nodes is no longer than the heap. *)
LEMMA ChainShort ==
    ASSUME NEW h, Memory(h), NEW n, NEW S, NEW k, NEW s, Chain(h, n, S, k, s),
           \A x \in S : Node(h, n, x)
    PROVE  k <= Brk(h)
<1>1. k \in Nat /\ s \in [1 .. k -> S] /\ \A i, j \in 1 .. k : s[i] = s[j] => i = j
  BY DEF Chain
<1>2. Brk(h) \in Nat
  BY MemoryParts
<1>3. S \subseteq 1 .. Brk(h)
  BY <1>2 DEF Node
<1>4. s \in [1 .. k -> 1 .. Brk(h)]
  BY <1>1, <1>3
<1>5. IsFiniteSet(1 .. k) /\ IsFiniteSet(1 .. Brk(h))
  BY <1>1, <1>2, FS_Interval
<1>6. Cardinality(1 .. k) = k
  BY <1>1, FS_Interval
<1>7. Cardinality(1 .. Brk(h)) = Brk(h)
  BY <1>2, FS_Interval
<1>8. ~(Cardinality(1 .. Brk(h)) < Cardinality(1 .. k))
  <2> DEFINE X == 1 .. k
             Y == 1 .. Brk(h)
  <2>1. IsFiniteSet(X) /\ IsFiniteSet(Y) /\ s \in [X -> Y]
        /\ \A i, j \in X : s[i] = s[j] => i = j
    BY <1>1, <1>4, <1>5
  <2> HIDE DEF X, Y
  <2>2. ~(Cardinality(Y) < Cardinality(X))
    BY <2>1, FS_PigeonHole
  <2> QED
    BY <2>2 DEF X, Y
<1> QED
  BY <1>1, <1>2, <1>6, <1>7, <1>8

(* The walk along the links finds what the chain says. *)
LEMMA FreeListOf ==
    ASSUME NEW h, Memory(h), NEW n, NEW S \in SUBSET Nat, NEW k, NEW s, Chain(h, n, S, k, s),
           k <= Brk(h), NULL \notin S
    PROVE  FreeList(h, n) = s
<1> DEFINE B == Brk(h)
           Step(v) == IF v = NULL THEN NULL ELSE get(h, next_linknode(v))
           Is(f) == f = [i \in 0 .. B |-> IF i = 0 THEN h.root_list[n]
                                          ELSE IF f[i - 1] = NULL THEN NULL
                                          ELSE get(h, next_linknode(f[i - 1]))]
           z == [i \in 0 .. B |-> IF i < k THEN s[i + 1] ELSE NULL]
           w == CHOOSE f : Is(f)
<1>1. k \in Nat /\ B \in Nat /\ k <= B /\ s \in [1 .. k -> S]
  <2>1. k \in Nat /\ s \in [1 .. k -> S]
    BY DEF Chain
  <2> QED
    BY <2>1, MemoryParts
<1>2. \A x \in S : x \in Nat /\ x # NULL
  OBVIOUS
<1>3. /\ \A i \in 0 .. B : i < k => z[i] = s[i + 1] /\ z[i] # NULL /\ i + 1 \in 1 .. k
      /\ \A i \in 0 .. B : ~(i < k) => z[i] = NULL
  <2>1. ASSUME NEW i \in 0 .. B, i < k
        PROVE  z[i] = s[i + 1] /\ z[i] # NULL /\ i + 1 \in 1 .. k
    <3>1. i + 1 \in 1 .. k
      BY <1>1, <2>1
    <3>2. s[i + 1] # NULL
      BY <1>1, <1>2, <3>1
    <3> QED
      BY <2>1, <3>1, <3>2
  <2> QED
    BY <2>1
<1>4. z[0] = h.root_list[n]
  <2>1. 0 \in 0 .. B
    BY <1>1
  <2> QED
    BY <2>1, <1>1, <1>3 DEF Chain
<1>5. ASSUME NEW i \in 0 .. B, i # 0
      PROVE  i - 1 \in 0 .. B /\ z[i] = Step(z[i - 1])
  <2>1. i - 1 \in 0 .. B
    BY <1>1, <1>5
  <2>2. CASE i - 1 < k
    <3>1. z[i - 1] = s[i] /\ z[i - 1] # NULL /\ i \in 1 .. k
      BY <1>1, <1>3, <2>1, <2>2
    <3>2. get(h, s[i] + 1) = IF i = k THEN NULL ELSE s[i + 1]
      BY <3>1 DEF Chain
    <3>3. i < k <=> i # k
      BY <1>1, <3>1
    <3>4. z[i] = IF i = k THEN NULL ELSE s[i + 1]
      BY <1>3, <3>3
    <3> HIDE DEF z
    <3> QED
      BY <2>1, <3>1, <3>2, <3>4 DEF next_linknode, wsize
  <2>3. CASE ~(i - 1 < k)
    <3>1. ~(i < k)
      BY <1>1, <2>3
    <3> QED
      BY <1>3, <2>1, <2>3, <3>1
  <2> QED
    BY <2>1, <2>2, <2>3
<1>6. Is(z)
  <2>1. z = [i \in 0 .. B |-> z[i]]
    BY DEF z
  <2> HIDE DEF z
  <2>2. \A i \in 0 .. B : z[i] = IF i = 0 THEN h.root_list[n]
                                 ELSE IF z[i - 1] = NULL THEN NULL
                                 ELSE get(h, next_linknode(z[i - 1]))
    BY <1>4, <1>5
  <2> QED
    BY <2>1, <2>2
<1>7. Is(w)
  <2> HIDE DEF Is
  <2> QED
    BY <1>6
<1>8. \A i \in 0 .. B : w[i] = z[i]
  <2> DEFINE G == {i \in 0 .. B : w[i] = z[i]}
  <2>0. \A i \in 0 .. B : w[i] = IF i = 0 THEN h.root_list[n]
                                 ELSE IF w[i - 1] = NULL THEN NULL
                                 ELSE get(h, next_linknode(w[i - 1]))
    <3> HIDE DEF w
    <3> QED
      BY <1>7
  <2> HIDE DEF w, z, Is
  <2>1. 0 \in G
    <3>1. 0 \in 0 .. B
      BY <1>1
    <3> QED
      BY <1>4, <2>0, <3>1
  <2>2. ASSUME NEW i \in 0 .. B - 1, i \in G
        PROVE  i + 1 \in G
    <3>1. i + 1 \in 0 .. B /\ i + 1 # 0 /\ (i + 1) - 1 = i /\ w[i] = z[i]
      BY <1>1, <2>2
    <3>2. w[i + 1] = Step(w[i])
      BY <2>0, <3>1
    <3>3. z[i + 1] = Step(z[i])
      BY <1>5, <3>1
    <3> QED
      BY <3>1, <3>2, <3>3
  <2> HIDE DEF G
  <2>3. \A i \in 0 .. B : i \in G
    BY <1>1, <2>1, <2>2, UpTo
  <2> QED
    BY <2>3 DEF G
<1> DEFINE ends == {i \in 0 .. B : w[i] = NULL}
<1>9. ends # {} /\ Min(ends) = k
  <2> HIDE DEF w, z
  <2>1. k \in ends /\ \A i \in ends : k <= i /\ i \in Nat
    BY <1>1, <1>3, <1>8
  <2> HIDE DEF ends
  <2>2. Min(ends) \in ends /\ \A y \in ends : Min(ends) <= y
    <3>1. \E x \in ends : \A y \in ends : x <= y
      BY <2>1
    <3> QED
      BY <3>1 DEF Min
  <2>3. Min(ends) <= k /\ k <= Min(ends) /\ Min(ends) \in Nat
    BY <2>1, <2>2
  <2> QED
    BY <1>1, <2>1, <2>3
<1>10. FreeList(h, n) = [i \in 1 .. (IF ends = {} THEN B + 1 ELSE Min(ends)) |-> w[i - 1]]
  BY DEF FreeList
<1>11. \A i \in 1 .. k : w[i - 1] = s[i]
  <2> HIDE DEF w, z
  <2> TAKE i \in 1 .. k
  <2>1. i - 1 \in 0 .. B /\ i - 1 < k /\ (i - 1) + 1 = i
    BY <1>1
  <2> QED
    BY <1>3, <1>8, <2>1
<1>12. s = [i \in 1 .. k |-> s[i]]
  BY <1>1
<1> HIDE DEF w, z, ends
<1> QED
  BY <1>9, <1>10, <1>11, <1>12

(* A list of nodes is walked to its end. *)
LEMMA FreeListIs ==
    ASSUME NEW h, Memory(h), NEW n, NEW S \in SUBSET Nat, NEW k, NEW s, Chain(h, n, S, k, s),
           \A x \in S : Node(h, n, x)
    PROVE  FreeList(h, n) = s
<1>1. k <= Brk(h)
  BY ChainShort
<1>2. NULL \notin S
  BY DEF Node, NULL
<1> QED
  BY <1>1, <1>2, FreeListOf

(* The nodes around the i-th of a chain. *)
NextIn(s, k, i) == IF i = k THEN NULL ELSE s[i + 1]
PrevIn(s, i) == IF i = 1 THEN NULL ELSE s[i - 1]

(* delete_node finds the predecessor, by the walk or by the link. *)
LEMMA ListPrevIs ==
    ASSUME NEW h, Memory(h), NEW n \in Lists, NEW S \in SUBSET Nat, NEW k, NEW s,
           Chain(h, n, S, k, s), \A x \in S : Node(h, n, x), NEW i \in 1 .. k
    PROVE  ListPrev(h, s[i], n) = PrevIn(s, i)
<1>1. k \in Nat /\ s \in [1 .. k -> S]
  BY DEF Chain
<1>2. CASE n # 0
  <2>1. get(h, s[i] + 2) = PrevIn(s, i)
    BY <1>2 DEF Chain, PrevIn
  <2> QED
    BY <1>2, <2>1 DEF ListPrev, prev_linknode, wsize
<1>3. CASE n = 0
  <2> DEFINE before == {b \in ToSet(FreeList(h, 0)) : get(h, next_linknode(b)) = s[i]}
  <2>1. FreeList(h, 0) = s
    BY <1>3, FreeListIs
  <2>2. before = {b \in {s[j] : j \in 1 .. k} : get(h, b + 1) = s[i]}
    BY <1>1, <2>1 DEF ToSet, next_linknode, wsize
  <2>3. \A j \in 1 .. k : get(h, s[j] + 1) = s[i] <=> j + 1 = i
    <3> TAKE j \in 1 .. k
    <3>1. get(h, s[j] + 1) = IF j = k THEN NULL ELSE s[j + 1]
      BY DEF Chain
    <3>2. s[i] # NULL
      BY <1>1 DEF Node, NULL
    <3>3. j # k => j + 1 \in 1 .. k /\ (s[j + 1] = s[i] <=> j + 1 = i)
      <4>1. j # k => j + 1 \in 1 .. k
        BY <1>1
      <4> QED
        BY <4>1 DEF Chain
    <3>4. j = k => j + 1 # i
      BY <1>1
    <3> QED
      BY <3>1, <3>2, <3>3, <3>4
  <2> HIDE DEF before
  <2>4. CASE i = 1
    <3>1. before = {}
      BY <1>1, <2>2, <2>3, <2>4
    <3> QED
      BY <1>3, <2>4, <3>1 DEF ListPrev, PrevIn, before
  <2>5. CASE i # 1
    <3>1. i - 1 \in 1 .. k /\ (i - 1) + 1 = i
      BY <1>1, <2>5
    <3>2. before = {s[i - 1]}
      <4>1. s[i - 1] \in before
        BY <2>2, <2>3, <3>1
      <4>2. \A j \in 1 .. k : j + 1 = i => j = i - 1
        BY <1>1
      <4>3. \A b \in before : b = s[i - 1]
        BY <2>2, <2>3, <4>2
      <4> QED
        BY <4>1, <4>3
    <3>3. (CHOOSE b \in before : TRUE) = s[i - 1]
      BY <3>2
    <3> QED
      BY <1>3, <2>5, <3>2, <3>3 DEF ListPrev, PrevIn, before
  <2> QED
    BY <2>4, <2>5
<1> QED
  BY <1>2, <1>3

(* What delete_node writes: the neighbours' links, or the root. *)
Cut(h, r, n, k, s, i) ==
    /\ Memory(r) /\ Brk(r) = Brk(h) /\ r.heap_start = h.heap_start /\ r.strayed = h.strayed
    /\ \A m \in Lists : r.root_list[m] = IF m = n /\ i = 1 THEN NextIn(s, k, i)
                                         ELSE h.root_list[m]
    /\ n # 0 /\ i # k => Word(r, s[i + 1] + 2) = Pointer(PrevIn(s, i))
    /\ i # 1 => Word(r, s[i - 1] + 1) = Pointer(NextIn(s, k, i))
    /\ \A x : /\ n # 0 /\ i # k => x # s[i + 1] + 2
              /\ i # 1 => x # s[i - 1] + 1
              => Word(r, x) = Word(h, x)

(* delete_node does that. *)
LEMMA CutAt ==
    ASSUME NEW h, Memory(h), NEW n \in Lists, NEW S \in SUBSET Nat, NEW k, NEW s,
           Chain(h, n, S, k, s), \A x \in S : Node(h, n, x), NEW i \in 1 .. k,
           n = find_listnumber(get_size(h, s[i]))
    PROVE  Cut(h, delete_node(h, s[i]), n, k, s, i)
<1> DEFINE node == s[i]
           next == NextIn(s, k, i)
           prev == PrevIn(s, i)
           r == delete_node(h, node)
           c == n # 0 /\ next # NULL
           NP(w) == PutIf(n # 0 /\ next # NULL, h, prev_linknode(next), Pointer(w))
<1>1. k \in Nat /\ s \in [1 .. k -> S] /\ \A j \in 1 .. k : s[j] \in Nat /\ s[j] % 2 = 1 /\ Node(h, n, s[j])
  BY DEF Chain, Node
<1>2. \A j \in 1 .. k : s[j] # NULL /\ s[j] + 1 \in Within(h) /\ (n # 0 => s[j] + 2 \in Within(h))
  <2> TAKE j \in 1 .. k
  <2>1. Node(h, n, s[j]) /\ Brk(h) \in Nat
    BY <1>1, MemoryParts
  <2> QED
    BY <2>1 DEF Node, Within, NULL
<1>3. get(h, next_linknode(node)) = next
  BY DEF Chain, NextIn, next_linknode, wsize
<1>4. h.root_list[n] = s[1] /\ (s[1] = node <=> i = 1)
  <2>1. k # 0 /\ 1 \in 1 .. k
    BY <1>1
  <2> QED
    BY <2>1 DEF Chain
<1>5. ListPrev(h, node, n) = prev
  BY ListPrevIs
<1>6. /\ i # k => i + 1 \in 1 .. k /\ next = s[i + 1] /\ next # NULL
      /\ i = k => next = NULL
      /\ next \in Nat
  <2>1. i # k => i + 1 \in 1 .. k
    BY <1>1
  <2> QED
    BY <1>1, <1>2, <2>1 DEF NextIn, NULL
<1>7. /\ i # 1 => i - 1 \in 1 .. k /\ prev = s[i - 1] /\ prev # NULL
      /\ i = 1 => prev = NULL
      /\ prev \in Nat
  <2>1. i # 1 => i - 1 \in 1 .. k
    BY <1>1
  <2> QED
    BY <1>1, <1>2, <2>1 DEF PrevIn, NULL
<1>8. r = IF i = 1 THEN UnlinkHead(h, n, next) ELSE Unlink(h, n, prev, next)
  BY <1>3, <1>4, <1>5 DEF delete_node
<1>9. Pointer(prev) \in WordValues /\ Pointer(next) \in WordValues
  BY <1>6, <1>7, Pointed
<1> HIDE DEF node, next, prev, r
<1>10. /\ Wrote(h, NP(prev)) /\ (n # 0 /\ i # k => Word(NP(prev), s[i + 1] + 2) = Pointer(prev))
       /\ \A x : (n # 0 /\ i # k => x # s[i + 1] + 2) => Word(NP(prev), x) = Word(h, x)
  <2>1. CASE n # 0 /\ i # k
    <3>1. NP(prev) = put(h, s[i + 1] + 2, Pointer(prev))
      BY <1>6, <2>1 DEF PutIf, prev_linknode, wsize
    <3>2. s[i + 1] + 2 \in Within(h)
      BY <1>2, <1>6, <2>1
    <3> DEFINE a == s[i + 1] + 2
               g == put(h, a, Pointer(prev))
    <3>3. /\ Wrote(h, g) /\ Word(g, a) = Pointer(prev)
          /\ \A x : x # a => Word(g, x) = Word(h, x)
      <4> HIDE DEF a
      <4> QED
        BY <1>9, <3>2, PutWithin DEF a
    <3> QED
      BY <2>1, <3>1, <3>3
  <2>2. CASE ~(n # 0 /\ i # k)
    <3>1. NP(prev) = h
      BY <1>6, <2>2 DEF PutIf
    <3> QED
      BY <2>2, <3>1 DEF Wrote, Rewritten
  <2> QED
    BY <2>1, <2>2
<1> DEFINE g == NP(prev)
<1>11. /\ Memory(g) /\ Brk(g) = Brk(h) /\ Within(g) = Within(h)
       /\ g.heap_start = h.heap_start /\ g.root_list = h.root_list
       /\ g.strayed = h.strayed
  BY <1>10, Wrote2
<1>12. CASE i = 1
  <2>1. r = [g EXCEPT !.root_list[n] = next]
    BY <1>7, <1>8, <1>12 DEF UnlinkHead
  <2> HIDE DEF g
  <2>2. /\ Memory(r) /\ Brk(r) = Brk(g) /\ r.heap_start = g.heap_start
        /\ r.strayed = g.strayed /\ r.root_list[n] = next
        /\ \A m \in Lists : m # n => r.root_list[m] = g.root_list[m]
        /\ \A x : Word(r, x) = Word(g, x)
    BY <1>6, <1>11, <2>1, Reroot
  <2> QED
    BY <1>10, <1>11, <1>12, <2>2 DEF Cut, next, prev, r, g, node
<1>13. CASE i # 1
  <2> DEFINE a == s[i - 1] + 1
  <2>1. r = put(g, a, Pointer(next))
    BY <1>7, <1>8, <1>13 DEF Unlink, next_linknode, wsize
  <2>2. a \in Within(g)
    BY <1>2, <1>7, <1>11, <1>13
  <2> HIDE DEF g, a
  <2>3. /\ Wrote(g, r) /\ Word(r, a) = Pointer(next)
        /\ \A x : x # a => Word(r, x) = Word(g, x)
    BY <1>9, <1>11, <2>1, <2>2, PutWithin
  <2>4. /\ Memory(r) /\ Brk(r) = Brk(g) /\ r.heap_start = g.heap_start
        /\ r.root_list = g.root_list /\ r.strayed = g.strayed
    BY <2>3, Wrote2
  <2>5. n # 0 /\ i # k => s[i + 1] + 2 # a
    <3>1. \A x, y \in Nat : x % 2 = 1 /\ y % 2 = 1 => x + 2 # y + 1
      OBVIOUS
    <3>2. i # k => s[i + 1] \in Nat /\ s[i + 1] % 2 = 1
      BY <1>1, <1>6
    <3>3. s[i - 1] \in Nat /\ s[i - 1] % 2 = 1
      BY <1>1, <1>7, <1>13
    <3> QED
      BY <3>1, <3>2, <3>3 DEF a
  <2>6. n # 0 /\ i # k => Word(r, s[i + 1] + 2) = Pointer(prev)
    BY <1>10, <2>3, <2>5 DEF g
  <2>7. \A x : (n # 0 /\ i # k => x # s[i + 1] + 2) /\ x # a => Word(r, x) = Word(h, x)
    BY <1>10, <2>3 DEF g
  <2>8. \A m \in Lists : r.root_list[m] = h.root_list[m]
    BY <1>11, <2>4 DEF g
  <2> QED
    BY <1>11, <1>13, <2>3, <2>4, <2>6, <2>7, <2>8 DEF Cut, next, prev, r, g, node, a
<1> QED
  BY <1>12, <1>13

(* delete_node takes a block out of its list. *)
LEMMA Deleted ==
    ASSUME NEW h, Memory(h), NEW N, NEW S, Linked(h, N, S), NEW n \in N, NEW node \in S[n],
           n = find_listnumber(get_size(h, node))
    PROVE  LET r == delete_node(h, node)
           IN  /\ Relinked(h, r, n, S[n] \ {node})
               /\ Linked(r, N, [S EXCEPT ![n] = @ \ {node}])
<1> DEFINE T == S[n] \ {node}
           r == delete_node(h, node)
           S2 == [S EXCEPT ![n] = T]
<1>1. PICK k, s : Chain(h, n, S[n], k, s)
  BY DEF Linked, Holds
<1>2. n \in Lists /\ N \subseteq Lists /\ S \in [N -> SUBSET Nat] /\ S[n] \in SUBSET Nat
      /\ \A x \in S[n] : Node(h, n, x) /\ x \in Nat /\ x % 2 = 1
  BY DEF Linked, Node
<1>3. k \in Nat /\ s \in [1 .. k -> S[n]] /\ \A x, y \in 1 .. k : s[x] = s[y] => x = y
  BY <1>1 DEF Chain
<1>4. PICK i \in 1 .. k : s[i] = node
  BY <1>1 DEF Chain
<1>5. Cut(h, r, n, k, s, i)
  BY <1>1, <1>2, <1>4, CutAt
<1> HIDE DEF r
<1>6. i \in Nat /\ (i # 1 => i - 1 \in 1 .. k) /\ (i # k => i + 1 \in 1 .. k)
  BY <1>3
<1>7. \A j \in 1 .. k : s[j] \in Nat /\ s[j] % 2 = 1 /\ s[j] \in S[n] /\ (j # i => s[j] \in T)
  BY <1>2, <1>3, <1>4
<1>8. Relinked(h, r, n, T)
  <2>1. ASSUME NEW a, a \notin LinkWords(n, T)
        PROVE  Word(r, a) = Word(h, a)
    <3>1. n # 0 /\ i # k => a # s[i + 1] + 2
      <4>1. i # k => s[i + 1] \in T
        BY <1>6, <1>7
      <4> QED
        BY <2>1, <4>1 DEF LinkWords
    <3>2. i # 1 => a # s[i - 1] + 1
      <4>1. i # 1 => s[i - 1] \in T
        BY <1>6, <1>7
      <4> QED
        BY <2>1, <4>1 DEF LinkWords
    <3> QED
      BY <1>5, <3>1, <3>2 DEF Cut
  <2>2. \A m \in Lists : m # n => r.root_list[m] = h.root_list[m]
    BY <1>5 DEF Cut
  <2> HIDE DEF T
  <2> QED
    BY <1>5, <2>1, <2>2 DEF Relinked, Cut
(* Only the two neighbours' links change. *)
<1>9. ASSUME NEW x \in Nat, x % 2 = 1
      PROVE  /\ (i # 1 => x # s[i - 1]) => get(r, x + 1) = get(h, x + 1)
             /\ (n # 0 /\ i # k => x # s[i + 1]) => get(r, x + 2) = get(h, x + 2)
  <2>0. \A y \in Nat : y % 2 = 1 => x + 1 # y + 2 /\ x + 2 # y + 1
                        /\ (x # y => x + 1 # y + 1 /\ x + 2 # y + 2)
    BY <1>9
  <2>1. i # 1 => s[i - 1] \in Nat /\ s[i - 1] % 2 = 1
    BY <1>6, <1>7
  <2>2. i # k => s[i + 1] \in Nat /\ s[i + 1] % 2 = 1
    BY <1>6, <1>7
  <2>3. (i # 1 => x # s[i - 1]) => Word(r, x + 1) = Word(h, x + 1)
    BY <1>5, <2>0, <2>1, <2>2 DEF Cut
  <2>4. (n # 0 /\ i # k => x # s[i + 1]) => Word(r, x + 2) = Word(h, x + 2)
    BY <1>5, <2>0, <2>1, <2>2 DEF Cut
  <2> QED
    BY <2>3, <2>4 DEF get
<1>10. Holds(r, n, T)
  <2> DEFINE at(j) == IF j < i THEN j ELSE j + 1
             s2 == [j \in 1 .. k - 1 |-> s[at(j)]]
  <2>1. \A j \in 1 .. k - 1 : at(j) \in 1 .. k /\ at(j) # i
    BY <1>3, <1>6
  <2>2. \A j \in 1 .. k - 1 : s2[j] = s[at(j)] /\ s2[j] \in T
    BY <1>7, <2>1
  <2>3. s2 \in [1 .. k - 1 -> T] /\ k - 1 \in Nat
    BY <1>3, <1>6, <2>2
  <2>4. \A j, l \in 1 .. k - 1 : at(j) = at(l) => j = l
    BY <1>3, <1>6
  <2>5. \A j \in 1 .. k : j # i => \E l \in 1 .. k - 1 : at(l) = j
    <3> TAKE j \in 1 .. k
    <3>1. CASE j < i
      BY <3>1, <1>3, <1>6
    <3>2. CASE j > i
      <4>1. j - 1 \in 1 .. k - 1 /\ at(j - 1) = j
        BY <3>2, <1>3, <1>6
      <4> QED
        BY <4>1
    <3> QED
      BY <3>1, <3>2, <1>6
  <2> HIDE DEF s2
  <2>6. \A x \in T : \E l \in 1 .. k - 1 : s2[l] = x
    <3> TAKE x \in T
    <3>1. PICK j \in 1 .. k : s[j] = x
      BY <1>1 DEF Chain
    <3>2. j # i
      BY <1>4, <3>1
    <3>3. PICK l \in 1 .. k - 1 : at(l) = j
      BY <2>5, <3>2
    <3> HIDE DEF at
    <3> QED
      BY <2>2, <3>1, <3>3
  <2>7. ASSUME NEW j \in 1 .. k - 1, NEW l \in 1 .. k - 1, s2[j] = s2[l]
        PROVE  j = l
    <3>1. at(j) = at(l)
      <4> HIDE DEF at
      <4> QED
        BY <1>3, <2>1, <2>2, <2>7
    <3> QED
      BY <2>4, <3>1
  <2>8. r.root_list[n] = IF k - 1 = 0 THEN NULL ELSE s2[1]
    <3>0. r.root_list[n] = IF i = 1 THEN NextIn(s, k, i) ELSE h.root_list[n]
      BY <1>2, <1>5 DEF Cut
    <3>1. h.root_list[n] = s[1]
      BY <1>1, <1>3, <1>6 DEF Chain
    <3>2. CASE k = 1
      BY <1>3, <1>6, <3>0, <3>2 DEF NextIn
    <3>3. CASE k # 1
      <4>1. 1 \in 1 .. k - 1 /\ k - 1 # 0
        BY <1>3, <1>6, <3>3
      <4>2. s2[1] = s[at(1)]
        BY <2>2, <4>1
      <4>3. CASE i = 1
        <5>1. at(1) = 2 /\ i # k /\ i + 1 = 2
          BY <3>3, <4>3
        <5> QED
          BY <3>0, <4>1, <4>2, <4>3, <5>1 DEF NextIn
      <4>4. CASE i # 1
        <5>1. at(1) = 1
          BY <1>6, <4>4
        <5> QED
          BY <3>0, <3>1, <4>1, <4>2, <4>4, <5>1
      <4> QED
        BY <4>3, <4>4
    <3> QED
      BY <3>2, <3>3
  <2>9. ASSUME NEW j \in 1 .. k - 1
        PROVE  get(r, s2[j] + 1) = IF j = k - 1 THEN NULL ELSE s2[j + 1]
    <3> DEFINE x == s2[j]
    <3>1. x = s[at(j)] /\ at(j) \in 1 .. k /\ at(j) # i
      BY <2>1, <2>2
    <3>2. get(h, x + 1) = IF at(j) = k THEN NULL ELSE s[at(j) + 1]
      <4> HIDE DEF at, x
      <4> QED
        BY <1>1, <3>1 DEF Chain
    <3>3. x \in Nat /\ x % 2 = 1
      <4> HIDE DEF at, x
      <4> QED
        BY <1>7, <3>1
    <3>4. j + 1 \in 1 .. k - 1 => s2[j + 1] = s[at(j + 1)]
      BY <2>2
    <3>5. CASE j + 1 = i
      <4>1. at(j) = j /\ i # 1 /\ i - 1 = j
        BY <1>3, <1>6, <3>5
      <4>2. get(r, x + 1) = NextIn(s, k, i)
        <5>1. NextIn(s, k, i) \in Nat
          <6>1. i # k => s[i + 1] \in Nat
            BY <1>6, <1>7
          <6> QED
            BY <6>1 DEF NextIn, NULL
        <5>2. Word(r, x + 1) = Pointer(NextIn(s, k, i))
          BY <1>5, <3>1, <4>1 DEF Cut
        <5> QED
          BY <5>1, <5>2, Pointed DEF get
      <4>3. j = k - 1 <=> i = k
        BY <1>3, <1>6, <3>5
      <4>4. i # k => s2[j + 1] = s[i + 1]
        <5>1. ASSUME i # k PROVE j + 1 \in 1 .. k - 1 /\ at(j + 1) = i + 1
          BY <1>3, <1>6, <3>5, <5>1
        <5> QED
          BY <3>4, <5>1
      <4> HIDE DEF at, x
      <4> QED
        BY <4>2, <4>3, <4>4 DEF NextIn, x
    <3>6. CASE j + 1 # i
      <4>1. i # 1 => x # s[i - 1]
        <5>1. i # 1 => at(j) # i - 1
          BY <1>3, <1>6, <3>6
        <5> HIDE DEF at, x
        <5> QED
          BY <1>3, <1>6, <3>1, <5>1
      <4>2. get(r, x + 1) = get(h, x + 1)
        <5> HIDE DEF x
        <5> QED
          BY <1>9, <3>3, <4>1
      <4>3. at(j) = k <=> j = k - 1
        BY <1>3, <1>6, <3>6
      <4>4. j # k - 1 => at(j + 1) = at(j) + 1 /\ j + 1 \in 1 .. k - 1
        BY <1>3, <1>6, <3>6
      <4> HIDE DEF at, x
      <4> QED
        BY <3>2, <3>4, <4>2, <4>3, <4>4 DEF x
    <3> QED
      BY <3>5, <3>6
  <2>10. ASSUME n # 0, NEW j \in 1 .. k - 1
        PROVE  get(r, s2[j] + 2) = IF j = 1 THEN NULL ELSE s2[j - 1]
    <3> DEFINE x == s2[j]
    <3>1. x = s[at(j)] /\ at(j) \in 1 .. k /\ at(j) # i
      BY <2>1, <2>2
    <3>2. get(h, x + 2) = IF at(j) = 1 THEN NULL ELSE s[at(j) - 1]
      <4> HIDE DEF at, x
      <4> QED
        BY <1>1, <2>10, <3>1 DEF Chain
    <3>3. x \in Nat /\ x % 2 = 1
      <4> HIDE DEF at, x
      <4> QED
        BY <1>7, <3>1
    <3>4. j - 1 \in 1 .. k - 1 => s2[j - 1] = s[at(j - 1)]
      BY <2>2
    <3>5. CASE j = i
      <4>1. at(j) = i + 1 /\ i # k
        BY <1>3, <1>6, <3>5
      <4>2. get(r, x + 2) = PrevIn(s, i)
        <5>1. PrevIn(s, i) \in Nat
          <6>1. i # 1 => s[i - 1] \in Nat
            BY <1>6, <1>7
          <6> QED
            BY <6>1 DEF PrevIn, NULL
        <5>2. Word(r, x + 2) = Pointer(PrevIn(s, i))
          BY <1>5, <2>10, <3>1, <4>1 DEF Cut
        <5> QED
          BY <5>1, <5>2, Pointed DEF get
      <4>4. i # 1 => s2[j - 1] = s[i - 1]
        <5>1. ASSUME i # 1 PROVE j - 1 \in 1 .. k - 1 /\ at(j - 1) = i - 1
          BY <1>3, <1>6, <3>5, <5>1
        <5> QED
          BY <3>4, <5>1
      <4> HIDE DEF at, x
      <4> QED
        BY <3>5, <4>2, <4>4 DEF PrevIn, x
    <3>6. CASE j # i
      <4>1. i # k => x # s[i + 1]
        <5>1. i # k => at(j) # i + 1
          BY <1>3, <1>6, <3>6
        <5> HIDE DEF at, x
        <5> QED
          BY <1>3, <1>6, <3>1, <5>1
      <4>2. get(r, x + 2) = get(h, x + 2)
        <5> HIDE DEF x
        <5> QED
          BY <1>9, <3>3, <4>1
      <4>3. at(j) = 1 <=> j = 1
        BY <1>3, <1>6, <3>6
      <4>4. j # 1 => at(j - 1) = at(j) - 1 /\ j - 1 \in 1 .. k - 1
        BY <1>3, <1>6, <3>6
      <4> HIDE DEF at, x
      <4> QED
        BY <3>2, <3>4, <4>2, <4>3, <4>4 DEF x
    <3> QED
      BY <3>5, <3>6
  <2>11. Chain(r, n, T, k - 1, s2)
    <3> HIDE DEF T
    <3>1. \A j \in 1 .. k - 1 : get(r, s2[j] + 1) = IF j = k - 1 THEN NULL ELSE s2[j + 1]
      BY <2>9
    <3>2. n # 0 => \A j \in 1 .. k - 1 : get(r, s2[j] + 2) = IF j = 1 THEN NULL ELSE s2[j - 1]
      BY <2>10
    <3> QED
      BY <2>3, <2>6, <2>7, <2>8, <3>1, <3>2 DEF Chain
  <2> QED
    BY <2>11 DEF Holds
<1>11. ASSUME NEW m \in N, m # n
       PROVE  Holds(r, m, S[m])
  <2>1. \A x \in S[m] : x \in Nat /\ x % 2 = 1 /\ x \notin S[n]
    BY <1>11 DEF Linked, Node
  <2>2. \A x \in S[m] : get(r, x + 1) = get(h, x + 1) /\ get(r, x + 2) = get(h, x + 2)
    <3> TAKE x \in S[m]
    <3>1. i # 1 => x # s[i - 1]
      BY <1>6, <1>7, <2>1
    <3>2. i # k => x # s[i + 1]
      BY <1>6, <1>7, <2>1
    <3> QED
      BY <1>9, <2>1, <3>1, <3>2
  <2>3. Holds(h, m, S[m]) /\ r.root_list[m] = h.root_list[m]
    BY <1>2, <1>5, <1>11 DEF Linked, Cut
  <2> QED
    BY <2>2, <2>3, HoldsStill
<1>12. S2 \in [N -> SUBSET Nat] /\ S2[n] = T /\ \A m \in N : m # n => S2[m] = S[m]
  BY <1>2
<1>13. Linked(r, N, S2)
  <2> HIDE DEF S2, T
  <2>0. Brk(r) = Brk(h)
    BY <1>5 DEF Cut
  <2>1. \A m \in N : Holds(r, m, S2[m])
    BY <1>10, <1>11, <1>12
  <2>2. \A m \in N : \A x \in S2[m] : Node(r, m, x)
    <3> TAKE m \in N
    <3>1. \A x \in S[m] : Node(h, m, x)
      BY DEF Linked
    <3>2. \A x \in S2[m] : Node(h, m, x)
      BY <1>12, <3>1 DEF T
    <3> QED
      BY <2>0, <3>2 DEF Node
  <2>3. \A x, y \in N : x # y => S2[x] \cap S2[y] = {}
    <3>1. \A x, y \in N : x # y => S[x] \cap S[y] = {}
      BY DEF Linked
    <3> QED
      BY <1>12, <3>1 DEF T
  <2> QED
    BY <1>2, <1>12, <2>1, <2>2, <2>3 DEF Linked
<1>14. [S EXCEPT ![n] = @ \ {node}] = S2
  OBVIOUS
<1> QED
  BY <1>8, <1>13, <1>14 DEF r, T

-----------------------------------------------------------------------------
(* Sound heaps, and what becomes of one when a region gets new blocks. *)

(* The blocks of a heap: H is the set of their headers, of the epilogues   *)
(* too.  They follow one another from the first to the epilogue at the end.*)
NextHeader(h, b) == b + (IF get_size(h, b) # 0 THEN get_size(h, b) ELSE 2)

Tiled(h, H) ==
    /\ Brk(h) <= MaxHeap
    /\ H \subseteq 1 .. Brk(h) - 1
    /\ 1 \in H /\ Brk(h) - 1 \in H
    /\ get_size(h, Brk(h) - 1) = 0
    /\ \A b \in H : b % 2 = 1 /\ get_size(h, b) % 2 = 0
    /\ \A b \in H : get_size(h, b) = 0 => get_alloc(h, b)
    /\ \A b \in H : b # Brk(h) - 1 =>
          NextHeader(h, b) \in H /\ \A x \in H : x <= b \/ x >= NextHeader(h, b)

(* What block b has told the next one, and its footer, except about x that *)
(* has become free and is not yet in a list.                               *)
Told(h, b, x) ==
    LET c == b + get_size(h, b)
    IN  /\ b # x => (get_prev_alloc(h, c) <=> get_alloc(h, b))
        /\ get_prev_16B(h, c) <=> get_size(h, b) = 2
        /\ ~get_alloc(h, b) /\ get_size(h, b) >= 4 => Word(h, c - 1) = Word(h, b)
        /\ ~get_alloc(h, b) /\ b # x /\ c # x => get_alloc(h, c)

Tagged(h, H, x) == \A b \in H : get_size(h, b) # 0 => Told(h, b, x)

(* A block remembers a free one before it only if there is one.            *)
Follows(h, H, b) == \E c \in H : get_size(h, c) # 0 /\ c + get_size(h, c) = b

Preceded(h, H, N) ==
    \A b \in H : get_prev_alloc(h, b) \/ Follows(h, H, b) \/ (N # Lists /\ b = Brk(h) - 1)

(* heap_start stays the first block of its region; until it is there, its  *)
(* list is the epilogue's, and the heap cannot grow.                       *)
Started(h, H, N) ==
    /\ h.heap_start \in H
    /\ ~Follows(h, H, h.heap_start)
    /\ N = Lists => get_size(h, h.heap_start) # 0
    /\ \/ N = Lists
       \/ /\ N = Lists \ {SIZE - 1}
          /\ h.root_list[SIZE - 1] = Brk(h) - 1
          /\ h.heap_start = Brk(h) - 1
          /\ ~CanGrow(h, chunksize)

Number(h, b) == find_listnumber(get_size(h, b))

Members(h, H, N, x) ==
    [n \in N |-> {b \in H : ~get_alloc(h, b) /\ b # x /\ Number(h, b) = n}]

Filed(h, H, N, x) ==
    /\ Linked(h, N, Members(h, H, N, x))
    /\ \A b \in H : ~get_alloc(h, b) /\ b # x => Number(h, b) \in N

Sound(h, H, N, x) ==
    /\ Memory(h) /\ ~h.strayed
    /\ Tiled(h, H) /\ Tagged(h, H, x) /\ Preceded(h, H, N) /\ Started(h, H, N)
    /\ Filed(h, H, N, x)

(* From h to h2 the allocated blocks stay and keep their words; only y is  *)
(* new among them.                                                         *)
Keeps(h, H, h2, H2, y) ==
    /\ \A c \in H : get_alloc(h, c) /\ get_size(h, c) # 0 =>
          /\ c \in H2 /\ get_alloc(h2, c) /\ get_size(h2, c) = get_size(h, c)
          /\ \A a \in c + 1 .. c + get_size(h, c) - 1 : Word(h2, a) = Word(h, a)
    /\ \A c \in H2 : get_alloc(h2, c) /\ get_size(h2, c) # 0 /\ c # y =>
          c \in H /\ get_alloc(h, c) /\ get_size(h, c) # 0

(* What holds of every block of a heap that is tiled. *)
LEMMA TiledParts ==
    ASSUME NEW h, NEW H, Memory(h), Tiled(h, H)
    PROVE  /\ Brk(h) \in Nat /\ Brk(h) >= 2
           /\ \A b \in H : /\ b \in Nat /\ b >= 1 /\ b <= Brk(h) - 1 /\ b % 2 = 1
                           /\ get_size(h, b) \in Nat /\ get_size(h, b) % 2 = 0
                           /\ get_size(h, b) # 0 => get_size(h, b) >= 2 /\ b # Brk(h) - 1
                           /\ ~get_alloc(h, b) => get_size(h, b) # 0
<1>1. Brk(h) \in Nat
  BY MemoryParts
<1>2. 1 \in 1 .. Brk(h) - 1
  BY DEF Tiled
<1>3. ASSUME NEW b \in H
      PROVE  /\ b \in Nat /\ b >= 1 /\ b <= Brk(h) - 1 /\ b % 2 = 1
             /\ get_size(h, b) \in Nat /\ get_size(h, b) % 2 = 0
             /\ get_size(h, b) # 0 => get_size(h, b) >= 2 /\ b # Brk(h) - 1
             /\ ~get_alloc(h, b) => get_size(h, b) # 0
  <2>1. b \in 1 .. Brk(h) - 1 /\ b % 2 = 1 /\ get_size(h, b) % 2 = 0
        /\ get_size(h, Brk(h) - 1) = 0 /\ (get_size(h, b) = 0 => get_alloc(h, b))
    BY DEF Tiled
  <2>2. get_size(h, b) \in Nat
    BY MemoryParts
  <2>3. get_size(h, b) # 0 => get_size(h, b) >= 2
    BY <2>1, <2>2
  <2> QED
    BY <1>1, <2>1, <2>2, <2>3
<1> QED
  BY <1>1, <1>2, <1>3

(* Two blocks do not overlap, and no header is within a block. *)
LEMMA BlocksApart ==
    ASSUME NEW h, NEW H, Memory(h), Tiled(h, H), NEW b \in H, NEW c \in H, b < c
    PROVE  b + get_size(h, b) <= c /\ b + 2 <= c
<1>1. b # Brk(h) - 1 /\ b \in Nat /\ c \in Nat /\ get_size(h, b) \in Nat
      /\ (get_size(h, b) # 0 => get_size(h, b) >= 2)
  BY TiledParts
<1>2. c >= NextHeader(h, b)
  BY <1>1 DEF Tiled
<1> QED
  BY <1>1, <1>2 DEF NextHeader

(* A block ends where the next one begins. *)
LEMMA NextBlock ==
    ASSUME NEW h, NEW H, Memory(h), Tiled(h, H), NEW b \in H, get_size(h, b) # 0
    PROVE  b + get_size(h, b) \in H
<1>1. b # Brk(h) - 1
  BY TiledParts
<1> QED
  BY <1>1 DEF Tiled, NextHeader

(* The words that list operations may change: links of free blocks. *)
LinkWord(h, H, a) ==
    \E b \in H : ~get_alloc(h, b) /\ (a = b + 1 \/ (a = b + 2 /\ get_size(h, b) >= 4))

(* Headers, footers and payloads are not links. *)
LEMMA NotLink ==
    ASSUME NEW h, NEW H, Memory(h), Tiled(h, H), NEW b \in H
    PROVE  /\ ~LinkWord(h, H, b)
           /\ get_size(h, b) >= 4 => ~LinkWord(h, H, b + get_size(h, b) - 1)
           /\ get_alloc(h, b) => \A a \in b + 1 .. b + get_size(h, b) - 1 : ~LinkWord(h, H, a)
<1>1. b \in Nat /\ get_size(h, b) \in Nat
  BY TiledParts
<1>2. ASSUME NEW c \in H, ~get_alloc(h, c)
      PROVE  /\ c \in Nat /\ get_size(h, c) \in Nat /\ get_size(h, c) >= 2
             /\ c < b => c + get_size(h, c) <= b
             /\ b < c => b + get_size(h, b) <= c /\ b + 2 <= c
             /\ c # b => c < b \/ b < c
  BY <1>1, <1>2, TiledParts, BlocksApart
<1>3. ASSUME NEW c \in H, ~get_alloc(h, c), NEW a \in Nat,
             a = c + 1 \/ (a = c + 2 /\ get_size(h, c) >= 4)
      PROVE  /\ a # b
             /\ get_size(h, b) >= 4 => a # b + get_size(h, b) - 1
             /\ get_alloc(h, b) => a \notin b + 1 .. b + get_size(h, b) - 1
  BY <1>1, <1>2, <1>3
<1>4. \A a \in Int : LinkWord(h, H, a) => a \in Nat
  BY <1>2 DEF LinkWord
<1> QED
  BY <1>1, <1>3, <1>4 DEF LinkWord

(* h2 has new blocks, New, where h had free ones, from p up to e; a free   *)
(* block x of h is in no list.  Outside, only links may differ.            *)
Region(h, H, p, e, x) ==
    /\ p \in H /\ e \in H /\ p < e
    /\ get_alloc(h, e)
    /\ \A c \in H : p <= c /\ c < e => ~get_alloc(h, c)
    /\ x = NULL \/ (p <= x /\ x < e)
    /\ h.heap_start <= p \/ h.heap_start > e

NewBlocks(h, h2, p, e, New, y) ==
    /\ New \subseteq p .. e - 1 /\ p \in New
    /\ \A b \in New : /\ b % 2 = 1 /\ get_size(h2, b) # 0 /\ get_size(h2, b) % 2 = 0
                      /\ b + get_size(h2, b) \in New \cup {e}
                      /\ \A c \in New : c <= b \/ c >= b + get_size(h2, b)
                      /\ Told(h2, b, NULL)
                      /\ get_alloc(h2, b) => b = y
                      /\ b # p => \E c \in New : c + get_size(h2, c) = b
    /\ \E c \in New : c + get_size(h2, c) = e
    /\ get_prev_alloc(h2, p) <=> get_prev_alloc(h, p)
    /\ get_prev_16B(h2, p) <=> get_prev_16B(h, p)
    /\ ~get_alloc(h2, p) => get_prev_alloc(h, p)

Elsewhere(h, H, h2, p, e) ==
    /\ Memory(h2) /\ Brk(h2) = Brk(h) /\ h2.heap_start = h.heap_start
    /\ h2.strayed = h.strayed
    /\ get_size(h2, e) = get_size(h, e) /\ get_alloc(h2, e)
    /\ \A a \in Int : a < p \/ a > e => Word(h2, a) = Word(h, a) \/ LinkWord(h, H, a)

Recast(H, p, e, New) == {b \in H : b < p \/ b >= e} \cup New

(* Outside the region, blocks and payloads stay. *)
LEMMA RecastKeeps ==
    ASSUME NEW h, NEW H, NEW h2, NEW p, NEW e, NEW New, NEW x, NEW y,
           Memory(h), Tiled(h, H), Region(h, H, p, e, x),
           NewBlocks(h, h2, p, e, New, y), Elsewhere(h, H, h2, p, e)
    PROVE  /\ \A b \in H : b < p \/ b > e =>
                 /\ Word(h2, b) = Word(h, b)
                 /\ get_size(h2, b) = get_size(h, b)
                 /\ get_alloc(h2, b) <=> get_alloc(h, b)
                 /\ get_prev_alloc(h2, b) <=> get_prev_alloc(h, b)
                 /\ get_prev_16B(h2, b) <=> get_prev_16B(h, b)
           /\ \A b \in H : b < p \/ b >= e =>
                 /\ get_size(h2, b) = get_size(h, b)
                 /\ get_alloc(h2, b) <=> get_alloc(h, b)
           /\ Keeps(h, H, h2, Recast(H, p, e, New), y)
<1>0. p \in H /\ e \in H /\ p \in Nat /\ e \in Nat /\ p < e
  BY TiledParts DEF Region
<1>1. ASSUME NEW b \in H, b < p \/ b > e
      PROVE  Word(h2, b) = Word(h, b)
  BY <1>1, NotLink, TiledParts DEF Elsewhere
<1>2. ASSUME NEW b \in H, b < p \/ b > e
      PROVE  /\ get_size(h2, b) = get_size(h, b)
             /\ get_alloc(h2, b) <=> get_alloc(h, b)
             /\ get_prev_alloc(h2, b) <=> get_prev_alloc(h, b)
             /\ get_prev_16B(h2, b) <=> get_prev_16B(h, b)
  BY <1>1, <1>2 DEF get_size, get_alloc, get_prev_alloc, get_prev_16B
<1>3. ASSUME NEW b \in H, b < p \/ b >= e
      PROVE  /\ get_size(h2, b) = get_size(h, b)
             /\ get_alloc(h2, b) <=> get_alloc(h, b)
  <2>1. CASE b = e
    BY <2>1 DEF Elsewhere, Region
  <2>2. CASE b # e
    <3>1. b < p \/ b > e
      BY <1>0, <1>3, <2>2, TiledParts
    <3> QED
      BY <1>2, <3>1
  <2> QED
    BY <2>1, <2>2
<1>4. ASSUME NEW c \in H, get_alloc(h, c), get_size(h, c) # 0
      PROVE  /\ c \in Recast(H, p, e, New) /\ get_alloc(h2, c)
             /\ get_size(h2, c) = get_size(h, c)
             /\ \A a \in c + 1 .. c + get_size(h, c) - 1 : Word(h2, a) = Word(h, a)
  <2>1. (c < p \/ c >= e) /\ c \in Nat /\ get_size(h, c) \in Nat
    BY <1>0, <1>4, TiledParts DEF Region
  <2>2. c < p => c + get_size(h, c) <= p
    BY <1>0, BlocksApart
  <2>3. ASSUME NEW a \in c + 1 .. c + get_size(h, c) - 1
        PROVE  Word(h2, a) = Word(h, a)
    <3>1. a \in Int /\ (a < p \/ a > e)
      BY <1>0, <2>1, <2>2
    <3>2. ~LinkWord(h, H, a)
      BY <1>4, NotLink
    <3> QED
      BY <3>1, <3>2 DEF Elsewhere
  <2> QED
    BY <1>3, <1>4, <2>1, <2>3 DEF Recast
<1>5. ASSUME NEW c \in Recast(H, p, e, New), get_alloc(h2, c), get_size(h2, c) # 0, c # y
      PROVE  c \in H /\ get_alloc(h, c) /\ get_size(h, c) # 0
  <2>1. c \notin New
    BY <1>5 DEF NewBlocks
  <2>2. c \in H /\ (c < p \/ c >= e)
    BY <2>1 DEF Recast
  <2> QED
    BY <1>3, <1>5, <2>2
<1>6. Keeps(h, H, h2, Recast(H, p, e, New), y)
  BY <1>4, <1>5 DEF Keeps
<1> QED
  BY <1>1, <1>2, <1>3, <1>6

(* The new blocks and those outside follow one another. *)
LEMMA RecastTiled ==
    ASSUME NEW h, NEW H, NEW h2, NEW p, NEW e, NEW New, NEW x, NEW y,
           Memory(h), Tiled(h, H), Region(h, H, p, e, x),
           NewBlocks(h, h2, p, e, New, y), Elsewhere(h, H, h2, p, e)
    PROVE  Tiled(h2, Recast(H, p, e, New))
<1> DEFINE H2 == Recast(H, p, e, New)
<1>0. p \in H /\ e \in H /\ p \in Nat /\ e \in Nat /\ p < e /\ Brk(h) \in Nat /\ Brk(h2) = Brk(h)
      /\ p >= 1 /\ e <= Brk(h) - 1 /\ Brk(h) <= MaxHeap /\ Memory(h2)
  BY TiledParts DEF Region, Elsewhere, Tiled
<1>1. \A b \in H : b < p \/ b >= e =>
                 /\ get_size(h2, b) = get_size(h, b)
                 /\ get_alloc(h2, b) <=> get_alloc(h, b)
  BY RecastKeeps
<1>2. \A b \in H2 : b \in New \/ (b \in H /\ (b < p \/ b >= e))
  BY DEF Recast
<1>3. \A b \in New : b \in p .. e - 1
  BY DEF NewBlocks
<1>4. H2 \subseteq 1 .. Brk(h2) - 1
  <2>1. \A b \in H : b \in 1 .. Brk(h) - 1
    BY DEF Tiled
  <2>2. \A b \in New : b \in 1 .. Brk(h) - 1
    BY <1>0, <1>3
  <2>3. \A b \in H2 : b \in 1 .. Brk(h) - 1
    BY <1>2, <2>1, <2>2
  <2> HIDE DEF H2
  <2> QED
    BY <1>0, <2>3
<1>5. 1 \in H2 /\ Brk(h2) - 1 \in H2
  <2>1. 1 \in H /\ Brk(h) - 1 \in H
    BY DEF Tiled
  <2>2. p = 1 \/ 1 < p
    BY <1>0
  <2>3. p = 1 => 1 \in New
    BY DEF NewBlocks
  <2>4. Brk(h) - 1 >= e
    BY <1>0
  <2>5. 1 \in H2
    BY <2>1, <2>2, <2>3 DEF Recast
  <2>6. Brk(h) - 1 \in H2
    BY <2>1, <2>4 DEF Recast
  <2> QED
    BY <1>0, <2>5, <2>6
<1>6. get_size(h2, Brk(h2) - 1) = 0
  <2>1. Brk(h) - 1 \in H /\ get_size(h, Brk(h) - 1) = 0
    BY DEF Tiled
  <2>2. Brk(h) - 1 >= e
    BY <1>0
  <2> QED
    BY <1>0, <1>1, <2>1, <2>2
<1>7. \A b \in H2 : b % 2 = 1 /\ get_size(h2, b) % 2 = 0
  <2>1. \A b \in H : b % 2 = 1 /\ get_size(h, b) % 2 = 0
    BY DEF Tiled
  <2>2. \A b \in New : b % 2 = 1 /\ get_size(h2, b) % 2 = 0
    BY DEF NewBlocks
  <2> QED
    BY <1>1, <1>2, <2>1, <2>2
<1>8. \A b \in H2 : get_size(h2, b) = 0 => get_alloc(h2, b)
  <2>1. \A b \in H : get_size(h, b) = 0 => get_alloc(h, b)
    BY DEF Tiled
  <2>2. \A b \in New : get_size(h2, b) # 0
    BY DEF NewBlocks
  <2> QED
    BY <1>1, <1>2, <2>1, <2>2
<1>9. ASSUME NEW b \in H2, b # Brk(h2) - 1
      PROVE  NextHeader(h2, b) \in H2 /\ \A c \in H2 : c <= b \/ c >= NextHeader(h2, b)
  <2>1. CASE b \in New
    <3> DEFINE nx == b + get_size(h2, b)
    <3>1. NextHeader(h2, b) = nx
      BY <2>1 DEF NextHeader, NewBlocks
    <3>2. nx \in New \cup {e} /\ \A c \in New : c <= b \/ c >= nx
      BY <2>1 DEF NewBlocks
    <3>3. b \in Nat /\ p <= b /\ b < e /\ nx \in Nat /\ nx <= e
      BY <1>0, <1>3, <2>1, <3>2
    <3>4. nx \in H2
      BY <1>0, <3>2 DEF Recast
    <3>5. \A c \in H : c < p \/ c >= e => c <= b \/ c >= nx
      <4>1. \A c \in H : c \in Nat
        BY TiledParts
      <4> HIDE DEF nx
      <4> QED
        BY <1>0, <3>3, <4>1
    <3> HIDE DEF nx
    <3> QED
      BY <1>2, <3>1, <3>2, <3>4, <3>5
  <2>2. CASE b \notin New
    <3> DEFINE nx == NextHeader(h, b)
    <3>1. b \in H /\ (b < p \/ b >= e) /\ b \in Nat
      BY <1>2, <2>2, TiledParts
    <3>2. NextHeader(h2, b) = nx
      BY <1>1, <3>1 DEF NextHeader
    <3>3. nx \in H /\ \A c \in H : c <= b \/ c >= nx
      BY <1>0, <1>9, <3>1 DEF Tiled
    <3>4. nx \in Nat /\ nx > b
      BY <3>1, TiledParts DEF NextHeader
    <3> HIDE DEF nx
    <3>5. CASE b < p
      <4>1. nx <= p
        BY <1>0, <3>1, <3>3, <3>4, <3>5
      <4>2. nx \in H2
        BY <1>0, <3>3, <3>4, <4>1 DEF Recast, NewBlocks
      <4>3. \A c \in New : c >= nx
        BY <1>0, <1>3, <3>4, <4>1
      <4> QED
        BY <1>2, <3>2, <3>3, <4>2, <4>3
    <3>6. CASE b >= e
      <4>1. nx \in H2
        BY <1>0, <3>1, <3>3, <3>4, <3>6 DEF Recast
      <4>2. \A c \in New : c <= b
        BY <1>0, <1>3, <3>1, <3>6
      <4> QED
        BY <1>2, <3>2, <3>3, <4>1, <4>2
    <3> QED
      BY <3>1, <3>5, <3>6
  <2> QED
    BY <2>1, <2>2
<1> HIDE DEF H2
<1> QED
  BY <1>0, <1>4, <1>5, <1>6, <1>7, <1>8, <1>9 DEF Tiled, H2

(* What the blocks outside have told is still true. *)
LEMMA RecastTagged ==
    ASSUME NEW h, NEW H, NEW h2, NEW p, NEW e, NEW New, NEW x, NEW y,
           Memory(h), Tiled(h, H), Tagged(h, H, x), Region(h, H, p, e, x),
           NewBlocks(h, h2, p, e, New, y), Elsewhere(h, H, h2, p, e)
    PROVE  Tagged(h2, Recast(H, p, e, New), NULL)
<1>0. p \in H /\ e \in H /\ p \in Nat /\ e \in Nat /\ p < e /\ p >= 1
  BY TiledParts DEF Region
<1>1. /\ \A b \in H : b < p \/ b > e =>
                 /\ Word(h2, b) = Word(h, b)
                 /\ get_size(h2, b) = get_size(h, b)
                 /\ get_alloc(h2, b) <=> get_alloc(h, b)
                 /\ get_prev_alloc(h2, b) <=> get_prev_alloc(h, b)
                 /\ get_prev_16B(h2, b) <=> get_prev_16B(h, b)
      /\ \A b \in H : b < p \/ b >= e =>
                 /\ get_size(h2, b) = get_size(h, b)
                 /\ get_alloc(h2, b) <=> get_alloc(h, b)
  BY RecastKeeps
<1>2. ASSUME NEW b \in Recast(H, p, e, New), get_size(h2, b) # 0
      PROVE  Told(h2, b, NULL)
  <2>1. CASE b \in New
    BY <2>1 DEF NewBlocks
  <2>2. CASE b \notin New
    <3> DEFINE c == b + get_size(h, b)
    <3>1. b \in H /\ (b < p \/ b >= e) /\ b \in Nat
      BY <2>2, TiledParts DEF Recast
    <3>2. get_size(h2, b) = get_size(h, b) /\ (get_alloc(h2, b) <=> get_alloc(h, b))
          /\ get_size(h, b) # 0
      BY <1>1, <1>2, <3>1
    <3>3. get_size(h, b) \in Nat /\ get_size(h, b) >= 2 /\ c \in H
      BY <3>1, <3>2, TiledParts, NextBlock
    <3>4. Told(h, b, x)
      BY <3>1, <3>2 DEF Tagged
    <3>5. b # x /\ b # NULL
      BY <1>0, <3>1, TiledParts DEF Region, NULL
    <3>6. c \in Nat /\ (b < p => c <= p) /\ (b >= e => c > e)
      BY <1>0, <3>1, <3>3, BlocksApart
    <3>7. get_size(h, b) >= 4 /\ ~get_alloc(h, b) => Word(h2, c - 1) = Word(h2, b)
      <4>1. ASSUME get_size(h, b) >= 4, ~get_alloc(h, b)
            PROVE  Word(h2, c - 1) = Word(h2, b)
        <5>1. ~LinkWord(h, H, c - 1)
          <6>1. b \in H
            BY <3>1
          <6>2. get_size(h, b) >= 4 => ~LinkWord(h, H, b + get_size(h, b) - 1)
            BY <6>1, NotLink
          <6>3. b + get_size(h, b) - 1 = c - 1
            BY <3>1, <3>3
          <6> QED
            BY <3>1, <3>3, <4>1, <6>2, <6>3
        <5>2. c - 1 \in Int /\ (c - 1 < p \/ c - 1 > e)
          BY <1>0, <3>1, <3>3, <3>6
        <5>3. Word(h2, c - 1) = Word(h, c - 1)
          BY <5>1, <5>2 DEF Elsewhere
        <5>4. Word(h, c - 1) = Word(h, b)
          BY <3>4, <4>1 DEF Told
        <5>5. b # e
          BY <4>1 DEF Region
        <5>6. Word(h2, b) = Word(h, b)
          BY <1>0, <1>1, <3>1, <5>5
        <5> QED
          BY <5>3, <5>4, <5>6
      <4> QED
        BY <4>1
    <3>8. CASE c # p
      <4>1. c < p \/ c > e
        BY <1>0, <3>1, <3>6, <3>8
      <4>2. c # x
        <5>1. c >= 1 /\ c \in Nat
          BY <1>0, <3>3, TiledParts
        <5> HIDE DEF c
        <5> QED
          BY <1>0, <4>1, <5>1 DEF Region, NULL
      <4>3. /\ get_alloc(h2, c) <=> get_alloc(h, c)
            /\ get_prev_alloc(h2, c) <=> get_prev_alloc(h, c)
            /\ get_prev_16B(h2, c) <=> get_prev_16B(h, c)
        BY <1>1, <3>3, <4>1
      <4> QED
        BY <3>2, <3>4, <3>5, <3>7, <4>2, <4>3 DEF Told
    <3>9. CASE c = p
      <4>1. /\ get_prev_alloc(h2, p) <=> get_prev_alloc(h, p)
            /\ get_prev_16B(h2, p) <=> get_prev_16B(h, p)
            /\ ~get_alloc(h2, p) => get_prev_alloc(h, p)
        BY DEF NewBlocks
      <4>2. get_prev_alloc(h, p) <=> get_alloc(h, b)
        BY <3>4, <3>5, <3>9 DEF Told
      <4> QED
        BY <3>2, <3>4, <3>5, <3>7, <3>9, <4>1, <4>2 DEF Told
    <3> QED
      BY <3>8, <3>9
  <2> QED
    BY <2>1, <2>2
<1> QED
  BY <1>2 DEF Tagged

(* Blocks still remember only free ones that are there. *)
LEMMA RecastOrder ==
    ASSUME NEW h, NEW H, NEW N, NEW h2, NEW p, NEW e, NEW New, NEW x, NEW y,
           Memory(h), Tiled(h, H), Preceded(h, H, N), Started(h, H, N), Region(h, H, p, e, x),
           NewBlocks(h, h2, p, e, New, y), Elsewhere(h, H, h2, p, e),
           SIZE - 1 \notin N => h2.root_list[SIZE - 1] = h.root_list[SIZE - 1]
    PROVE  /\ Preceded(h2, Recast(H, p, e, New), N)
           /\ Started(h2, Recast(H, p, e, New), N)
<1> DEFINE H2 == Recast(H, p, e, New)
<1>0. p \in H /\ e \in H /\ p \in Nat /\ e \in Nat /\ p < e /\ p >= 1 /\ Brk(h2) = Brk(h)
      /\ h2.heap_start = h.heap_start /\ \A b \in H : b \in Nat
  BY TiledParts DEF Region, Elsewhere
<1>1. /\ \A b \in H : b < p \/ b > e =>
                 /\ Word(h2, b) = Word(h, b)
                 /\ get_size(h2, b) = get_size(h, b)
                 /\ get_alloc(h2, b) <=> get_alloc(h, b)
                 /\ get_prev_alloc(h2, b) <=> get_prev_alloc(h, b)
                 /\ get_prev_16B(h2, b) <=> get_prev_16B(h, b)
      /\ \A b \in H : b < p \/ b >= e =>
                 /\ get_size(h2, b) = get_size(h, b)
                 /\ get_alloc(h2, b) <=> get_alloc(h, b)
  BY RecastKeeps
<1>2. \A b \in H2 : b \in New \/ (b \in H /\ (b < p \/ b >= e))
  BY DEF Recast
<1>3. /\ New \subseteq p .. e - 1 /\ New \subseteq H2 /\ p \in New
      /\ \A b \in H : b < p \/ b >= e => b \in H2
      /\ \A b \in New : b \in Nat /\ p <= b /\ b < e
  BY <1>0 DEF NewBlocks, Recast
<1>4. \A c \in New : get_size(h2, c) # 0 /\ c + get_size(h2, c) \in New \cup {e}
      /\ c + get_size(h2, c) > c /\ c + get_size(h2, c) \in Nat
  <2> TAKE c \in New
  <2>1. get_size(h2, c) # 0 /\ c + get_size(h2, c) \in New \cup {e}
    BY DEF NewBlocks
  <2>2. get_size(h2, c) \in Nat
    BY MemoryParts DEF Elsewhere
  <2>0. c \in Nat
    BY <1>3
  <2>3. c + get_size(h2, c) \in Nat
    BY <2>0, <2>2
  <2>4. c + get_size(h2, c) > c
    BY <2>0, <2>1, <2>2
  <2> QED
    BY <2>1, <2>3, <2>4
<1> HIDE DEF H2
(* The ends of the blocks before p and after e. *)
<1>5. ASSUME NEW c \in H, get_size(h, c) # 0
      PROVE  /\ c < p => c + get_size(h, c) <= p
             /\ c >= e => c + get_size(h, c) > e
             /\ p <= c /\ c < e => c + get_size(h, c) > p /\ c + get_size(h, c) <= e
             /\ c + get_size(h, c) \in H
  <2>1. get_size(h, c) \in Nat /\ get_size(h, c) >= 2 /\ c \in Nat
    BY <1>5, TiledParts
  <2> QED
    BY <1>0, <1>5, <2>1, BlocksApart, NextBlock
<1>6. ASSUME NEW b \in H2
      PROVE  get_prev_alloc(h2, b) \/ Follows(h2, H2, b) \/ (N # Lists /\ b = Brk(h2) - 1)
  <2>1. CASE b \in New /\ b # p
    <3>1. PICK c \in New : c + get_size(h2, c) = b
      BY <2>1 DEF NewBlocks
    <3> QED
      BY <1>3, <1>4, <3>1 DEF Follows
  <2>2. CASE b = e
    <3>1. PICK c \in New : c + get_size(h2, c) = b
      BY <2>2 DEF NewBlocks
    <3> QED
      BY <1>3, <1>4, <3>1 DEF Follows
  <2>3. CASE b # e /\ (b = p \/ b \notin New)
    <3>0. b \in H /\ (b = p \/ b < p \/ b >= e)
      BY <1>0, <1>2, <2>3
    <3>1. b \in H /\ (b <= p \/ b > e)
      <4>1. b \in Nat
        BY <1>0, <3>0
      <4> QED
        BY <1>0, <2>3, <3>0, <4>1
    <3>2. get_prev_alloc(h2, b) <=> get_prev_alloc(h, b)
      <4>1. CASE b = p
        BY <4>1 DEF NewBlocks
      <4>2. CASE b # p
        BY <1>0, <1>1, <3>1, <4>2
      <4> QED
        BY <4>1, <4>2
    <3>3. CASE Follows(h, H, b)
      <4>1. PICK c \in H : get_size(h, c) # 0 /\ c + get_size(h, c) = b
        BY <3>3 DEF Follows
      <4>2. c < p \/ c >= e
        BY <1>0, <1>5, <2>3, <3>1, <4>1
      <4>3. c \in H2 /\ get_size(h2, c) = get_size(h, c)
        BY <1>1, <1>3, <4>2
      <4> QED
        BY <4>1, <4>3 DEF Follows
    <3>4. CASE ~Follows(h, H, b)
      BY <1>0, <3>1, <3>2, <3>4 DEF Preceded
    <3> QED
      BY <3>3, <3>4
  <2> QED
    BY <1>2, <2>1, <2>2, <2>3
<1>7. h.heap_start \in H2 /\ h.heap_start \in H /\ (h.heap_start <= p \/ h.heap_start > e)
      /\ h.heap_start \in Nat
  <2>1. h.heap_start \in H /\ (h.heap_start <= p \/ h.heap_start > e)
    BY DEF Started, Region
  <2>2. h.heap_start \in Nat
    BY <1>0, <2>1
  <2>3. h.heap_start = p \/ h.heap_start < p \/ h.heap_start >= e
    BY <1>0, <2>1, <2>2
  <2> QED
    BY <1>0, <1>3, <2>1, <2>2, <2>3
<1>8. ~Follows(h2, H2, h.heap_start)
  <2> SUFFICES ASSUME NEW c \in H2, get_size(h2, c) # 0, c + get_size(h2, c) = h.heap_start
               PROVE  FALSE
    BY DEF Follows
  <2>1. CASE c \in New
    <3>1. h.heap_start > p /\ h.heap_start <= e
      BY <1>0, <1>3, <1>4, <2>1
    <3> QED
      BY <1>0, <1>7, <3>1
  <2>2. CASE c \notin New
    <3>1. c \in H /\ get_size(h2, c) = get_size(h, c)
      BY <1>1, <1>2, <2>2
    <3> QED
      BY <3>1 DEF Started, Follows
  <2> QED
    BY <2>1, <2>2
<1>9. N = Lists => get_size(h2, h.heap_start) # 0
  <2>1. CASE h.heap_start = p
    BY <1>3, <1>4, <2>1
  <2>2. CASE h.heap_start # p
    <3>1. h.heap_start < p \/ h.heap_start >= e
      BY <1>0, <1>7, <2>2
    <3> QED
      BY <1>1, <1>7, <3>1 DEF Started
  <2> QED
    BY <2>1, <2>2
<1>10. Started(h2, H2, N)
  <2>1. N # Lists => h2.root_list[SIZE - 1] = h.root_list[SIZE - 1]
    BY DEF Started
  <2> QED
    BY <1>0, <1>7, <1>8, <1>9, <2>1 DEF Started, CanGrow
<1> QED
  BY <1>6, <1>10 DEF Preceded, H2

(* The free blocks outside p .. e - 1, by the list of their size. *)
Outside(h, H, N, p, e) ==
    [n \in N |-> {b \in H : ~get_alloc(h, b) /\ (b < p \/ b >= e) /\ Number(h, b) = n}]

(* Links of members of the lists are links of free blocks. *)
LEMMA LinksOfFree ==
    ASSUME NEW h, NEW H, Memory(h), Tiled(h, H), NEW n, NEW T,
           \A b \in T : b \in H /\ ~get_alloc(h, b) /\ Number(h, b) = n,
           NEW a \in LinkWords(n, T)
    PROVE  LinkWord(h, H, a)
<1>1. CASE \E b \in T : a = b + 1
  BY <1>1 DEF LinkWord
<1>2. CASE \E b \in T : n # 0 /\ a = b + 2
  <2>1. PICK b \in T : n # 0 /\ a = b + 2
    BY <1>2
  <2>2. get_size(h, b) \in Nat /\ get_size(h, b) % 2 = 0 /\ get_size(h, b) # 0
    BY TiledParts
  <2>3. ~(get_size(h, b) <= 2)
    BY <2>1, <2>2, ListNumber DEF Number, dsize
  <2>4. get_size(h, b) >= 4
    BY <2>2, <2>3
  <2> QED
    BY <2>1, <2>4 DEF LinkWord
<1> QED
  BY <1>1, <1>2 DEF LinkWords

FreeAmong(h2, New, n) == {b \in New : ~get_alloc(h2, b) /\ Number(h2, b) = n}

(* Recasting the blocks from p up to e leaves a sound heap. *)
LEMMA Recasted ==
    ASSUME NEW h, NEW H, NEW N, NEW h2, NEW p, NEW e, NEW New, NEW x, NEW y,
           Memory(h), ~h.strayed, Tiled(h, H), Tagged(h, H, x), Preceded(h, H, N), Started(h, H, N),
           Region(h, H, p, e, x),
           NewBlocks(h, h2, p, e, New, y), Elsewhere(h, H, h2, p, e),
           SIZE - 1 \notin N => h2.root_list[SIZE - 1] = h.root_list[SIZE - 1],
           \A b \in H : ~get_alloc(h, b) /\ (b < p \/ b >= e) => Number(h, b) \in N,
           \A b \in New : ~get_alloc(h2, b) => Number(h2, b) \in N,
           NEW S2, Linked(h2, N, S2),
           \A n \in N : S2[n] = Outside(h, H, N, p, e)[n] \cup FreeAmong(h2, New, n)
    PROVE  /\ Sound(h2, Recast(H, p, e, New), N, NULL)
           /\ Keeps(h, H, h2, Recast(H, p, e, New), y)
<1> DEFINE H2 == Recast(H, p, e, New)
<1>1. Tiled(h2, H2)
  BY RecastTiled
<1>2. Tagged(h2, H2, NULL)
  BY RecastTagged
<1>3. Preceded(h2, H2, N) /\ Started(h2, H2, N)
  BY RecastOrder
<1>4. Keeps(h, H, h2, H2, y)
  BY RecastKeeps
<1>5. \A b \in H : b < p \/ b >= e =>
                 /\ get_size(h2, b) = get_size(h, b)
                 /\ get_alloc(h2, b) <=> get_alloc(h, b)
  BY RecastKeeps
<1>6. \A b \in H2 : b # NULL
  BY <1>1, TiledParts DEF Elsewhere, NULL
<1>7. \A b : b \in H2 <=> b \in New \/ (b \in H /\ (b < p \/ b >= e))
  BY DEF Recast
<1>8. \A b \in H : b < p \/ b >= e => Number(h2, b) = Number(h, b)
  BY <1>5 DEF Number
<1>9. \A b \in New : b \in p .. e - 1
  BY DEF NewBlocks
<1>10. ASSUME NEW n \in N
       PROVE  S2[n] = Members(h2, H2, N, NULL)[n]
  <2> DEFINE O == {b \in H : ~get_alloc(h, b) /\ (b < p \/ b >= e) /\ Number(h, b) = n}
             W == {b \in New : ~get_alloc(h2, b) /\ Number(h2, b) = n}
             M == {b \in H2 : ~get_alloc(h2, b) /\ b # NULL /\ Number(h2, b) = n}
  <2>1. S2[n] = O \cup W /\ Members(h2, H2, N, NULL)[n] = M
    BY DEF Outside, Members, FreeAmong
  <2>2. \A b : b \in M <=> b \in O \/ b \in W
    <3> HIDE DEF H2
    <3> QED
      BY <1>5, <1>6, <1>7, <1>8
  <2> HIDE DEF O, W, M
  <2> QED
    BY <2>1, <2>2
<1>11. S2 = Members(h2, H2, N, NULL)
  <2>1. S2 = [n \in N |-> S2[n]]
    BY DEF Linked
  <2>2. Members(h2, H2, N, NULL) = [n \in N |-> Members(h2, H2, N, NULL)[n]]
    BY DEF Members
  <2> HIDE DEF H2
  <2> QED
    BY <1>10, <2>1, <2>2
<1>12. \A b \in H2 : ~get_alloc(h2, b) /\ b # NULL => Number(h2, b) \in N
  <2> HIDE DEF H2
  <2> QED
    BY <1>5, <1>7, <1>8
<1>13. Filed(h2, H2, N, NULL)
  BY <1>11, <1>12 DEF Filed
<1>14. Memory(h2) /\ ~h2.strayed
  BY DEF Elsewhere
<1> HIDE DEF H2
<1> QED
  BY <1>1, <1>2, <1>3, <1>4, <1>13, <1>14 DEF Sound, H2

-----------------------------------------------------------------------------
(* coalesce_block: a free block with its free neighbours. *)

(* r tells the block at e that the one before it, of that size, is free. *)
Marks(g, r, e, size) ==
    /\ Wrote(g, r)
    /\ \A a : a # e => Word(r, a) = Word(g, a)
    /\ get_size(r, e) = get_size(g, e) /\ (get_alloc(r, e) <=> get_alloc(g, e))
    /\ ~get_prev_alloc(r, e)
    /\ get_prev_16B(r, e) <=> size = 2

(* In g the words from p up to e are one free block that is in no list. *)
Gathered(h, H, N, g, p, e, x) ==
    /\ Region(h, H, p, e, x)
    /\ Memory(g) /\ Brk(g) = Brk(h) /\ g.heap_start = h.heap_start /\ g.strayed = h.strayed
    /\ SIZE - 1 \notin N => g.root_list[SIZE - 1] = h.root_list[SIZE - 1]
    /\ get_size(g, p) = e - p /\ ~get_alloc(g, p)
    /\ get_prev_alloc(g, p) /\ get_prev_alloc(h, p)
    /\ get_prev_16B(g, p) <=> get_prev_16B(h, p)
    /\ e - p >= 4 => Word(g, e - 1) = Word(g, p)
    /\ \A a \in Int : a < p \/ a >= e => Word(g, a) = Word(h, a) \/ LinkWord(h, H, a)
    /\ Linked(g, N, Outside(h, H, N, p, e))

(* r is g with that block in list n, and the block after it told.          *)
Joined(g, r, p, e, N, n, O) ==
    /\ Memory(r) /\ Brk(r) = Brk(g) /\ r.heap_start = g.heap_start /\ r.strayed = g.strayed
    /\ \A m \in Lists : m # n => r.root_list[m] = g.root_list[m]
    /\ \A a : a # e /\ a \notin LinkWords(n, O[n] \cup {p}) => Word(r, a) = Word(g, a)
    /\ get_size(r, e) = get_size(g, e) /\ (get_alloc(r, e) <=> get_alloc(g, e))
    /\ ~get_prev_alloc(r, e)
    /\ get_prev_16B(r, e) <=> e - p = 2
    /\ Linked(r, N, [O EXCEPT ![n] = @ \cup {p}])

(* Where the gathered block lies, and that lists do not reach its end.     *)
GatheredPlace(h, H, N, g, p, e, n) ==
    /\ p \in Nat /\ e \in Nat /\ p >= 1 /\ p + 2 <= e /\ e < Brk(g)
    /\ p % 2 = 1 /\ (e - p) % 2 = 0 /\ Brk(g) \in Nat
    /\ n # 0 <=> e - p >= 4
    /\ Node(g, n, p)
    /\ \A m \in N : p \notin Outside(h, H, N, p, e)[m]
    /\ \A m \in N : e \notin LinkWords(m, Outside(h, H, N, p, e)[m])
    /\ e \notin LinkWords(n, Outside(h, H, N, p, e)[n] \cup {p})
    /\ \A b \in Outside(h, H, N, p, e)[n] : b \in H /\ ~get_alloc(h, b) /\ Number(h, b) = n
         /\ (b < p \/ b >= e)

(* A gathered block lies apart from the lists. *)
LEMMA GatheredParts ==
    ASSUME NEW h, NEW H, NEW N, NEW g, NEW p, NEW e, NEW x, Memory(h), Tiled(h, H),
           Gathered(h, H, N, g, p, e, x), NEW n \in N, n = Number(g, p)
    PROVE  GatheredPlace(h, H, N, g, p, e, n)
<1> DEFINE O == Outside(h, H, N, p, e)
<1>1. p \in H /\ e \in H /\ p < e /\ ~get_alloc(h, p)
  <2>1. p \in H /\ e \in H /\ p < e
    BY DEF Gathered, Region
  <2>2. p \in Nat
    BY <2>1, TiledParts
  <2> QED
    BY <2>1, <2>2 DEF Gathered, Region
<1>2. p \in Nat /\ e \in Nat /\ p >= 1 /\ p % 2 = 1 /\ e % 2 = 1 /\ e <= Brk(h) - 1 /\ Brk(h) \in Nat
  BY <1>1, TiledParts
<1>3. Brk(g) = Brk(h) /\ e < Brk(g) /\ Brk(g) \in Nat
  BY <1>2 DEF Gathered
<1>4. p + 2 <= e /\ (e - p) % 2 = 0
  BY <1>1, <1>2
<1>5. n # 0 <=> e - p >= 4
  <2>1. get_size(g, p) = e - p /\ e - p \in Nat
    BY <1>2, <1>4 DEF Gathered
  <2>2. n = 0 <=> e - p <= 2
    BY <2>1, ListNumber DEF Number, dsize
  <2>3. e - p <= 2 <=> ~(e - p >= 4)
    BY <1>2, <1>4
  <2> QED
    BY <2>2, <2>3
<1>6. Node(g, n, p)
  BY <1>2, <1>3, <1>4, <1>5 DEF Node
<1>7. ASSUME NEW m \in N
      PROVE  /\ p \notin O[m]
             /\ \A b \in O[m] : b \in H /\ ~get_alloc(h, b) /\ Number(h, b) = m /\ (b < p \/ b >= e)
  <2>1. O[m] = {b \in H : ~get_alloc(h, b) /\ (b < p \/ b >= e) /\ Number(h, b) = m}
    BY DEF Outside
  <2> HIDE DEF O
  <2> QED
    BY <1>1, <1>2, <2>1
<1>8. ASSUME NEW m \in N
      PROVE  e \notin LinkWords(m, O[m])
  <2> HIDE DEF O
  <2>1. ~LinkWord(h, H, e)
    BY <1>1, NotLink
  <2> QED
    BY <1>7, <2>1, LinksOfFree
<1>9. e \notin LinkWords(n, O[n] \cup {p})
  <2> HIDE DEF O
  <2>1. e # p + 1 /\ (n # 0 => e # p + 2)
    BY <1>2, <1>4, <1>5
  <2>2. e \notin LinkWords(n, O[n])
    BY <1>8
  <2> QED
    BY <2>1, <2>2 DEF LinkWords
<1> QED
  BY <1>2, <1>3, <1>4, <1>5, <1>6, <1>7, <1>8, <1>9 DEF GatheredPlace

(* Told after it is in its list. *)
LEMMA InsertThenMark ==
    ASSUME NEW h, NEW H, NEW N, NEW g, NEW p, NEW e, NEW x, Memory(h), Tiled(h, H),
           Gathered(h, H, N, g, p, e, x), NEW n \in N, n = Number(g, p),
           NEW r, Marks(insert_node(g, p), r, e, e - p)
    PROVE  Joined(g, r, p, e, N, n, Outside(h, H, N, p, e))
<1> DEFINE O == Outside(h, H, N, p, e)
           i == insert_node(g, p)
           S2 == [O EXCEPT ![n] = @ \cup {p}]
<1>0. GatheredPlace(h, H, N, g, p, e, n)
  BY GatheredParts
<1>1. /\ Node(g, n, p) /\ \A m \in N : p \notin O[m]
      /\ e \notin LinkWords(n, O[n] \cup {p})
      /\ \A m \in N : e \notin LinkWords(m, O[m])
  BY <1>0 DEF GatheredPlace
<1>2. Memory(g) /\ Linked(g, N, O)
  BY DEF Gathered
<1> HIDE DEF O
<1>3. Relinked(g, i, n, O[n] \cup {p}) /\ Linked(i, N, S2)
  BY <1>1, <1>2, Inserted DEF Number
<1> HIDE DEF i
<1>4. Wrote(i, r) /\ \A a : a # e => Word(r, a) = Word(i, a)
  BY DEF Marks, i
<1>5. /\ Memory(r) /\ Brk(r) = Brk(i) /\ r.heap_start = i.heap_start
      /\ r.root_list = i.root_list /\ r.strayed = i.strayed
  BY <1>4, Wrote2
<1>6. Word(i, e) = Word(g, e)
  BY <1>1, <1>3 DEF Relinked
<1>7. /\ get_size(r, e) = get_size(g, e) /\ (get_alloc(r, e) <=> get_alloc(g, e))
      /\ ~get_prev_alloc(r, e) /\ (get_prev_16B(r, e) <=> e - p = 2)
  BY <1>6 DEF Marks, i, get_size, get_alloc
<1>8. \A m \in N : S2[m] = IF m = n THEN O[n] \cup {p} ELSE O[m]
  <2>1. O = [m \in N |-> O[m]]
    BY DEF O, Outside
  <2> QED
    BY <2>1
<1> HIDE DEF S2
<1>9. \A m \in N : e \notin LinkWords(m, S2[m])
  BY <1>1, <1>8
<1>10. Linked(r, N, S2)
  <2>1. Memory(i) /\ Brk(i) \in Nat
    BY <1>3, MemoryParts DEF Relinked
  <2>2. \A m \in N : \A a \in LinkWords(m, S2[m]) : Word(r, a) = Word(i, a)
    BY <1>4, <1>9
  <2> QED
    BY <1>3, <1>5, <2>1, <2>2, LinkedStill
<1>11. \A a : a # e /\ a \notin LinkWords(n, O[n] \cup {p}) => Word(r, a) = Word(g, a)
  BY <1>3, <1>4 DEF Relinked
<1>12. \A m \in Lists : m # n => r.root_list[m] = g.root_list[m]
  BY <1>3, <1>5 DEF Relinked
<1>13. Brk(r) = Brk(g) /\ r.heap_start = g.heap_start /\ r.strayed = g.strayed
  BY <1>3, <1>5 DEF Relinked
<1> QED
  BY <1>5, <1>7, <1>10, <1>11, <1>12, <1>13 DEF Joined, S2, O

(* Told before. *)
LEMMA MarkThenInsert ==
    ASSUME NEW h, NEW H, NEW N, NEW g, NEW p, NEW e, NEW x, Memory(h), Tiled(h, H),
           Gathered(h, H, N, g, p, e, x), NEW n \in N, n = Number(g, p),
           NEW i, Marks(g, i, e, e - p)
    PROVE  Joined(g, insert_node(i, p), p, e, N, n, Outside(h, H, N, p, e))
<1> DEFINE O == Outside(h, H, N, p, e)
           r == insert_node(i, p)
           S2 == [O EXCEPT ![n] = @ \cup {p}]
<1>0. GatheredPlace(h, H, N, g, p, e, n)
  BY GatheredParts
<1>1. /\ Node(g, n, p) /\ \A m \in N : p \notin O[m]
      /\ e \notin LinkWords(n, O[n] \cup {p})
      /\ \A m \in N : e \notin LinkWords(m, O[m])
      /\ p \in Nat /\ p + 2 <= e
  BY <1>0 DEF GatheredPlace
<1>2. Memory(g) /\ Linked(g, N, O) /\ Brk(g) \in Nat
  BY MemoryParts DEF Gathered
<1> HIDE DEF O
<1>3. Wrote(g, i) /\ \A a : a # e => Word(i, a) = Word(g, a)
  BY DEF Marks
<1>4. /\ Memory(i) /\ Brk(i) = Brk(g) /\ i.heap_start = g.heap_start
      /\ i.root_list = g.root_list /\ i.strayed = g.strayed
  BY <1>3, Wrote2
<1>5. Linked(i, N, O)
  <2>2. \A m \in N : \A a \in LinkWords(m, O[m]) : Word(i, a) = Word(g, a)
    BY <1>1, <1>3
  <2> QED
    BY <1>2, <1>4, <2>2, LinkedStill
<1>6. Node(i, n, p) /\ n = find_listnumber(get_size(i, p))
  <2>1. Word(i, p) = Word(g, p)
    BY <1>1, <1>3
  <2> QED
    BY <1>1, <1>4, <2>1 DEF Node, Number, get_size
<1>7. Relinked(i, r, n, O[n] \cup {p}) /\ Linked(r, N, S2)
  BY <1>1, <1>4, <1>5, <1>6, Inserted
<1> HIDE DEF r, S2
<1>8. Word(r, e) = Word(i, e)
  BY <1>1, <1>7 DEF Relinked
<1>9. /\ get_size(r, e) = get_size(g, e) /\ (get_alloc(r, e) <=> get_alloc(g, e))
      /\ ~get_prev_alloc(r, e) /\ (get_prev_16B(r, e) <=> e - p = 2)
  BY <1>8 DEF Marks, get_size, get_alloc, get_prev_alloc, get_prev_16B
<1>11. \A a : a # e /\ a \notin LinkWords(n, O[n] \cup {p}) => Word(r, a) = Word(g, a)
  BY <1>3, <1>7 DEF Relinked
<1>12. \A m \in Lists : m # n => r.root_list[m] = g.root_list[m]
  BY <1>4, <1>7 DEF Relinked
<1>13. Memory(r) /\ Brk(r) = Brk(g) /\ r.heap_start = g.heap_start /\ r.strayed = g.strayed
  BY <1>4, <1>7 DEF Relinked
<1> QED
  BY <1>7, <1>9, <1>11, <1>12, <1>13 DEF Joined, r, S2, O

(* A function changed in one place. *)
LEMMA Adding ==
    ASSUME NEW N, NEW O, O = [m \in N |-> O[m]], NEW n \in N, NEW T
    PROVE  \A m \in N : [O EXCEPT ![n] = @ \cup T][m] = IF m = n THEN O[n] \cup T ELSE O[m]
OBVIOUS

(* Joining a gathered block makes the heap sound again. *)
LEMMA Settled ==
    ASSUME NEW h, NEW H, NEW N, NEW g, NEW p, NEW e, NEW x, NEW n \in N, NEW r,
           Memory(h), ~h.strayed, Tiled(h, H), Tagged(h, H, x), Preceded(h, H, N), Started(h, H, N),
           Gathered(h, H, N, g, p, e, x), n = Number(g, p),
           Joined(g, r, p, e, N, n, Outside(h, H, N, p, e)),
           \A b \in H : ~get_alloc(h, b) /\ (b < p \/ b >= e) => Number(h, b) \in N
    PROVE  /\ Sound(r, Recast(H, p, e, {p}), N, NULL)
           /\ Keeps(h, H, r, Recast(H, p, e, {p}), NULL)
           /\ get_size(r, p) = e - p /\ ~get_alloc(r, p) /\ Brk(r) = Brk(h)
<1> DEFINE O == Outside(h, H, N, p, e)
           S2 == [O EXCEPT ![n] = @ \cup {p}]
<1>0. GatheredPlace(h, H, N, g, p, e, n)
  BY GatheredParts
<1>1. /\ p \in Nat /\ e \in Nat /\ p >= 1 /\ p + 2 <= e /\ e < Brk(g)
      /\ p % 2 = 1 /\ (e - p) % 2 = 0 /\ Brk(g) \in Nat
      /\ n # 0 <=> e - p >= 4
      /\ \A m \in N : p \notin O[m]
      /\ \A b \in O[n] : b \in H /\ ~get_alloc(h, b) /\ Number(h, b) = n /\ (b < p \/ b >= e)
  BY <1>0 DEF GatheredPlace
<1>2. Region(h, H, p, e, x) /\ p \in H /\ e \in H /\ get_alloc(h, e)
  BY DEF Gathered, Region
<1>3. /\ Memory(r) /\ Brk(r) = Brk(g) /\ r.heap_start = g.heap_start /\ r.strayed = g.strayed
      /\ \A m \in Lists : m # n => r.root_list[m] = g.root_list[m]
      /\ \A a : a # e /\ a \notin LinkWords(n, O[n] \cup {p}) => Word(r, a) = Word(g, a)
      /\ get_size(r, e) = get_size(g, e) /\ (get_alloc(r, e) <=> get_alloc(g, e))
      /\ ~get_prev_alloc(r, e)
      /\ get_prev_16B(r, e) <=> e - p = 2
  BY DEF Joined
<1>4. Linked(r, N, S2)
  BY DEF Joined
<1> HIDE DEF O
<1>5. \A m \in N : S2[m] = IF m = n THEN O[n] \cup {p} ELSE O[m]
  <2>1. O = [m \in N |-> O[m]]
    BY DEF O, Outside
  <2> QED
    BY <2>1, Adding
<1> HIDE DEF S2
<1>6. \A b \in H : b \in Nat
  BY TiledParts
<1>7. \A a : a \in LinkWords(n, O[n]) => LinkWord(h, H, a)
  BY <1>1, LinksOfFree
<1>8. \A a : a \in LinkWords(n, O[n] \cup {p}) =>
             a \in LinkWords(n, O[n]) \/ a = p + 1 \/ (n # 0 /\ a = p + 2)
  BY DEF LinkWords
<1>9. Word(r, p) = Word(g, p)
  <2>1. ~LinkWord(h, H, p)
    BY <1>2, NotLink
  <2>2. p # p + 1 /\ p # p + 2 /\ p # e
    BY <1>1
  <2>3. p \notin LinkWords(n, O[n] \cup {p})
    BY <1>7, <1>8, <2>1, <2>2
  <2> QED
    BY <1>3, <2>2, <2>3
<1>10. e - p >= 4 => Word(r, e - 1) = Word(g, e - 1)
  <2> SUFFICES ASSUME e - p >= 4
               PROVE  e - 1 \notin LinkWords(n, O[n] \cup {p}) /\ e - 1 # e
    BY <1>3
  <2>1. ASSUME NEW b \in O[n]
        PROVE  b + 1 # e - 1 /\ b + 2 # e - 1
    <3>1. b \in H /\ b \in Nat /\ (b < p \/ b >= e)
      BY <1>1, <1>6
    <3>2. b < p => b + 2 <= p
      BY <1>2, <3>1, BlocksApart
    <3> QED
      BY <1>1, <3>1, <3>2
  <2>2. e - 1 \notin LinkWords(n, O[n])
    BY <2>1 DEF LinkWords
  <2>3. e - 1 # p + 1 /\ e - 1 # p + 2 /\ e - 1 # e
    BY <1>1
  <2> QED
    BY <1>8, <2>2, <2>3
<1>11. get_size(r, p) = e - p /\ ~get_alloc(r, p) /\ get_prev_alloc(r, p) /\ get_prev_alloc(h, p)
       /\ (get_prev_16B(r, p) <=> get_prev_16B(h, p))
  BY <1>9 DEF Gathered, get_size, get_alloc, get_prev_alloc, get_prev_16B
<1>12. e - p >= 4 => Word(r, e - 1) = Word(r, p)
  BY <1>9, <1>10 DEF Gathered
<1>13. get_size(r, e) = get_size(h, e) /\ get_alloc(r, e)
  <2>1. ~LinkWord(h, H, e)
    BY <1>2, NotLink
  <2>2. Word(g, e) = Word(h, e)
    BY <1>1, <2>1 DEF Gathered
  <2> QED
    BY <1>2, <1>3, <2>2 DEF get_size, get_alloc
<1>14. p + get_size(r, p) = e
  BY <1>1, <1>11
<1>15. Told(r, p, NULL)
  <2>1. get_size(r, p) >= 4 => Word(r, e - 1) = Word(r, p)
    BY <1>11, <1>12
  <2>2. get_size(r, p) = 2 <=> e - p = 2
    BY <1>11
  <2> QED
    BY <1>3, <1>11, <1>13, <1>14, <2>1, <2>2 DEF Told
<1>16. NewBlocks(h, r, p, e, {p}, NULL)
  <2>1. p \in p .. e - 1 /\ e - p # 0 /\ p >= p
    BY <1>1
  <2>2. get_size(r, p) # 0 /\ get_size(r, p) % 2 = 0
    BY <1>1, <1>11, <2>1
  <2> QED
    BY <1>1, <1>11, <1>14, <1>15, <2>1, <2>2 DEF NewBlocks
<1>17. Brk(g) = Brk(h) /\ g.heap_start = h.heap_start /\ g.strayed = h.strayed
  BY DEF Gathered
<1>18. ASSUME NEW a \in Int, a < p \/ a > e
       PROVE  Word(r, a) = Word(h, a) \/ LinkWord(h, H, a)
  <2>1. a # e /\ (a < p \/ a >= e)
    BY <1>1, <1>18
  <2>2. a # p + 1 /\ (n # 0 => a # p + 2)
    BY <1>1, <1>18
  <2>3. CASE a \in LinkWords(n, O[n])
    BY <1>7, <2>3
  <2>4. CASE a \notin LinkWords(n, O[n])
    <3>1. Word(r, a) = Word(g, a)
      BY <1>3, <1>8, <2>1, <2>2, <2>4
    <3>2. Word(g, a) = Word(h, a) \/ LinkWord(h, H, a)
      BY <2>1 DEF Gathered
    <3> QED
      BY <3>1, <3>2
  <2> QED
    BY <2>3, <2>4
<1>19. Elsewhere(h, H, r, p, e)
  BY <1>3, <1>13, <1>17, <1>18 DEF Elsewhere
<1>20. SIZE - 1 \notin N => r.root_list[SIZE - 1] = h.root_list[SIZE - 1]
  <2>1. SIZE - 1 \in Lists
    BY HeapAssumption DEF Lists, SIZE
  <2>2. SIZE - 1 \notin N => g.root_list[SIZE - 1] = h.root_list[SIZE - 1]
    BY DEF Gathered
  <2> QED
    BY <1>3, <2>1, <2>2
<1>21. Number(r, p) = n
  BY <1>9 DEF Number, get_size
<1>22. \A b \in {p} : ~get_alloc(r, b) => Number(r, b) \in N
  BY <1>21
<1>23. \A m \in N : S2[m] = Outside(h, H, N, p, e)[m] \cup FreeAmong(r, {p}, m)
  BY <1>5, <1>11, <1>21 DEF O, FreeAmong
<1>24. /\ Sound(r, Recast(H, p, e, {p}), N, NULL)
       /\ Keeps(h, H, r, Recast(H, p, e, {p}), NULL)
  <2> DEFINE New == {p}
  <2>1. /\ NewBlocks(h, r, p, e, New, NULL)
        /\ \A b \in New : ~get_alloc(r, b) => Number(r, b) \in N
        /\ \A m \in N : S2[m] = Outside(h, H, N, p, e)[m] \cup FreeAmong(r, New, m)
    BY <1>16, <1>22, <1>23
  <2> HIDE DEF New
  <2>2. /\ Sound(r, Recast(H, p, e, New), N, NULL)
        /\ Keeps(h, H, r, Recast(H, p, e, New), NULL)
    BY <1>2, <1>4, <1>19, <1>20, <2>1, Recasted
  <2> QED
    BY <2>2 DEF New
<1> QED
  BY <1>3, <1>11, <1>17, <1>24

(* A free block that is in a list has allocated neighbours, but for x. *)
LEMMA FreeAlone ==
    ASSUME NEW h, NEW H, NEW N, NEW x, Memory(h), Tiled(h, H), Tagged(h, H, x), Preceded(h, H, N),
           NEW b \in H, ~get_alloc(h, b), b # x, NextHeader(h, b) # x
    PROVE  /\ get_alloc(h, b + get_size(h, b)) /\ ~get_prev_alloc(h, b + get_size(h, b))
           /\ (\A c \in H : c < b => c # x) => get_prev_alloc(h, b)
<1>1. b \in Nat /\ get_size(h, b) \in Nat /\ get_size(h, b) # 0 /\ b # Brk(h) - 1
  BY TiledParts
<1>2. Told(h, b, x) /\ NextHeader(h, b) = b + get_size(h, b)
  BY <1>1 DEF Tagged, NextHeader
<1>3. get_alloc(h, b + get_size(h, b)) /\ ~get_prev_alloc(h, b + get_size(h, b))
  BY <1>2 DEF Told
<1>4. ASSUME \A c \in H : c < b => c # x, ~get_prev_alloc(h, b)
      PROVE  FALSE
  <2>1. PICK c \in H : get_size(h, c) # 0 /\ c + get_size(h, c) = b
    BY <1>1, <1>4 DEF Preceded, Follows
  <2>2. c < b /\ c # x
    <3>1. c \in Nat /\ get_size(h, c) \in Nat
      BY TiledParts
    <3>2. c < b
      BY <1>1, <2>1, <3>1
    <3> QED
      BY <1>4, <3>2
  <2>3. Told(h, c, x)
    BY <2>1 DEF Tagged
  <2> QED
    BY <1>4, <2>1, <2>2, <2>3 DEF Told
<1> QED
  BY <1>3, <1>4

(* The block before one that says there is a free one is found. *)
LEMMA BeforeIs ==
    ASSUME NEW h, NEW H, NEW N, NEW b \in H, Memory(h), Tiled(h, H), Tagged(h, H, b),
           Preceded(h, H, N), b # Brk(h) - 1, ~get_prev_alloc(h, b)
    PROVE  /\ Before(h, b) \in H /\ ~get_alloc(h, Before(h, b)) /\ Before(h, b) < b
           /\ get_size(h, Before(h, b)) # 0 /\ Before(h, b) + get_size(h, Before(h, b)) = b
<1>1. PICK c \in H : get_size(h, c) # 0 /\ c + get_size(h, c) = b
  BY DEF Preceded, Follows
<1>2. c \in Nat /\ get_size(h, c) \in Nat /\ get_size(h, c) >= 2 /\ b \in Nat /\ c < b
      /\ get_size(h, c) % 2 = 0
  <2>1. c \in Nat /\ get_size(h, c) \in Nat /\ get_size(h, c) >= 2 /\ b \in Nat
        /\ get_size(h, c) % 2 = 0
    BY <1>1, TiledParts
  <2> QED
    BY <1>1, <2>1
<1>3. Told(h, c, b)
  BY <1>1 DEF Tagged
<1>4. ~get_alloc(h, c) /\ (get_prev_16B(h, b) <=> get_size(h, c) = 2)
  BY <1>1, <1>2, <1>3 DEF Told
<1>5. Before(h, b) = c
  <2>1. CASE get_size(h, c) = 2
    BY <1>1, <1>2, <1>4, <2>1 DEF Before, dsize
  <2>2. CASE get_size(h, c) # 2
    <3>1. get_size(h, c) >= 4
      BY <1>2, <2>2
    <3>2. Word(h, b - 1) = Word(h, c)
      BY <1>1, <1>3, <1>4, <3>1 DEF Told
    <3>3. find_prev(h, b) = b - get_size(h, c)
      BY <3>2 DEF find_prev, wsize, get_size
    <3>4. b - get_size(h, c) = c
      BY <1>1, <1>2
    <3> QED
      BY <1>4, <2>2, <3>3, <3>4 DEF Before
  <2> QED
    BY <2>1, <2>2
<1> QED
  BY <1>1, <1>2, <1>4, <1>5

(* d is h with some free blocks out of their lists; S is what is left.     *)
Loose(h, H, N, d, S) ==
    /\ Memory(d) /\ Brk(d) = Brk(h) /\ d.heap_start = h.heap_start /\ d.strayed = h.strayed
    /\ SIZE - 1 \notin N => d.root_list[SIZE - 1] = h.root_list[SIZE - 1]
    /\ \A a \in Int : Word(d, a) = Word(h, a) \/ LinkWord(h, H, a)
    /\ Linked(d, N, S)
    /\ \A m \in N : \A b \in S[m] : b \in H /\ ~get_alloc(h, b) /\ Number(h, b) = m

(* No block is out of its list to begin with. *)
LEMMA LooseStart ==
    ASSUME NEW h, NEW H, NEW N, NEW x, Memory(h), Filed(h, H, N, x)
    PROVE  Loose(h, H, N, h, Members(h, H, N, x))
<1> DEFINE S == Members(h, H, N, x)
<1>1. Linked(h, N, S)
  BY DEF Filed
<1>2. \A m \in N : \A b \in S[m] : b \in H /\ ~get_alloc(h, b) /\ Number(h, b) = m
  BY DEF Members
<1> HIDE DEF S
<1> QED
  BY <1>1, <1>2 DEF Loose, S

(* Headers stay when blocks leave their lists. *)
LEMMA LooseHeaders ==
    ASSUME NEW h, NEW H, NEW N, NEW d, NEW S, Memory(h), Tiled(h, H), Loose(h, H, N, d, S),
           NEW b \in H
    PROVE  Word(d, b) = Word(h, b)
<1>1. ~LinkWord(h, H, b) /\ b \in Int
  BY NotLink, TiledParts
<1> QED
  BY <1>1 DEF Loose

(* delete_node takes one more block out. *)
LEMMA LooseLess ==
    ASSUME NEW h, NEW H, NEW N, NEW d, NEW S, Memory(h), Tiled(h, H), Loose(h, H, N, d, S),
           NEW n \in N, NEW node \in S[n]
    PROVE  Loose(h, H, N, delete_node(d, node), [S EXCEPT ![n] = @ \ {node}])
<1> DEFINE r == delete_node(d, node)
           S2 == [S EXCEPT ![n] = @ \ {node}]
<1>1. node \in H /\ Number(h, node) = n /\ Memory(d) /\ Linked(d, N, S)
      /\ \A m \in N : \A b \in S[m] : b \in H /\ ~get_alloc(h, b) /\ Number(h, b) = m
  BY DEF Loose
<1>2. n = find_listnumber(get_size(d, node))
  BY <1>1, LooseHeaders DEF Number, get_size
<1>3. Relinked(d, r, n, S[n] \ {node}) /\ Linked(r, N, S2)
  BY <1>1, <1>2, Deleted
<1>4. S \in [N -> SUBSET Nat] /\ N \subseteq Lists
  BY <1>1 DEF Linked
<1>5. \A m \in N : S2[m] = IF m = n THEN S[n] \ {node} ELSE S[m]
  BY <1>4
<1> HIDE DEF r, S2
<1>6. \A m \in N : \A b \in S2[m] : b \in H /\ ~get_alloc(h, b) /\ Number(h, b) = m
  BY <1>1, <1>5
<1>7. \A a : a \in LinkWords(n, S[n] \ {node}) => LinkWord(h, H, a)
  <2> DEFINE T == S[n] \ {node}
  <2>1. \A b \in T : b \in H /\ ~get_alloc(h, b) /\ Number(h, b) = n
    BY <1>1
  <2> HIDE DEF T
  <2>2. \A a \in LinkWords(n, T) : LinkWord(h, H, a)
    BY <2>1, LinksOfFree
  <2> QED
    BY <2>2 DEF T
<1>8. \A a \in Int : Word(r, a) = Word(h, a) \/ LinkWord(h, H, a)
  BY <1>3, <1>7 DEF Relinked, Loose
<1>9. SIZE - 1 \notin N => r.root_list[SIZE - 1] = h.root_list[SIZE - 1]
  <2>1. SIZE - 1 \in Lists
    BY HeapAssumption DEF Lists, SIZE
  <2> QED
    BY <1>3, <2>1 DEF Relinked, Loose
<1>10. Memory(r) /\ Brk(r) = Brk(h) /\ r.heap_start = h.heap_start /\ r.strayed = h.strayed
  BY <1>3 DEF Relinked, Loose
<1> QED
  BY <1>3, <1>6, <1>8, <1>9, <1>10 DEF Loose, r, S2

(* The blocks up to e, out of their lists, become one. *)
LEMMA MergedIs ==
    ASSUME NEW h, NEW H, NEW N, NEW d, NEW p, NEW e, NEW x, Memory(h), Tiled(h, H),
           Region(h, H, p, e, x), Loose(h, H, N, d, Outside(h, H, N, p, e)),
           e - p >= 4, get_prev_alloc(h, p), NEW size, size = e - p
    PROVE  Gathered(h, H, N, Merged(d, p, size), p, e, x)
<1> DEFINE O == Outside(h, H, N, p, e)
<1>0. PICK t, q \in BOOLEAN : t = TRUE /\ q = get_prev_16B(d, p)
  BY DEF get_prev_16B, Bit
<1> DEFINE g == WriteFree(d, p, size, t, q)
<1>1. p \in H /\ e \in H
  BY DEF Region
<1>2. p \in Nat /\ e \in Nat /\ e <= Brk(h) - 1 /\ Brk(h) \in Nat
  BY <1>1, TiledParts
<1>3. size \in Nat /\ size >= 2 /\ p + size <= Brk(h) /\ p + size = e
  BY <1>2
<1>4. /\ Memory(d) /\ Brk(d) = Brk(h) /\ d.heap_start = h.heap_start /\ d.strayed = h.strayed
      /\ SIZE - 1 \notin N => d.root_list[SIZE - 1] = h.root_list[SIZE - 1]
      /\ \A a \in Int : Word(d, a) = Word(h, a) \/ LinkWord(h, H, a)
      /\ Linked(d, N, O)
      /\ \A m \in N : \A b \in O[m] : b \in H /\ ~get_alloc(h, b) /\ Number(h, b) = m
  BY DEF Loose
<1>5. \A m \in N : \A b \in O[m] : b < p \/ b >= e
  BY DEF Outside
<1> HIDE DEF O
<1>6. Word(d, p) = Word(h, p)
  BY <1>1, LooseHeaders
<1>7. q <=> get_prev_16B(h, p)
  BY <1>0, <1>6 DEF get_prev_16B
<1>9. /\ Wrote(d, g)
      /\ FreeAt(g, p, size, t, q)
      /\ \A a : a # p /\ a # p + size - 1 => Word(g, a) = Word(d, a)
  BY <1>2, <1>3, <1>4, WroteFree
<1> HIDE DEF g
<1>10. /\ Memory(g) /\ Brk(g) = Brk(h) /\ g.heap_start = h.heap_start /\ g.strayed = h.strayed
       /\ g.root_list = d.root_list
  BY <1>4, <1>9, Wrote2
<1>11. p + size - 1 = e - 1
  <2>1. p + size - 1 = (p + size) - 1
    BY <1>2, <1>3
  <2> QED
    BY <1>3, <2>1
<1>12. /\ get_size(g, p) = size /\ ~get_alloc(g, p) /\ get_prev_alloc(g, p)
       /\ get_prev_16B(g, p) <=> q
       /\ Word(g, e - 1) = Word(g, p)
  BY <1>0, <1>9, <1>11 DEF FreeAt
<1>13. \A a : a # p /\ a # e - 1 => Word(g, a) = Word(d, a)
  BY <1>9, <1>11
<1>14. ASSUME NEW a \in Int, a < p \/ a >= e
       PROVE  Word(g, a) = Word(h, a) \/ LinkWord(h, H, a)
  <2>1. a # p /\ a # e - 1
    BY <1>2, <1>14
  <2> QED
    BY <1>4, <1>13, <2>1
<1>15. ASSUME NEW m \in N, NEW a \in LinkWords(m, O[m])
       PROVE  a # p /\ a # e - 1
  <2>1. LinkWord(h, H, a)
    BY <1>4, LinksOfFree
  <2>2. a # p
    BY <1>1, <2>1, NotLink
  <2>3. PICK b \in O[m] : a = b + 1 \/ a = b + 2
    BY <1>15 DEF LinkWords
  <2>4. b \in H /\ b \in Nat /\ (b < p \/ b >= e)
    BY <1>4, <1>5, TiledParts
  <2>5. b < p => b + 2 <= p
    BY <1>1, <2>4, BlocksApart
  <2>6. a # e - 1
    BY <1>2, <2>3, <2>4, <2>5
  <2> QED
    BY <2>2, <2>6
<1>16. Linked(g, N, O)
  <2>1. \A m \in N : \A a \in LinkWords(m, O[m]) : Word(g, a) = Word(d, a)
    BY <1>13, <1>15
  <2>2. Brk(g) >= Brk(d)
    BY <1>2, <1>4, <1>10
  <2> QED
    BY <1>4, <1>10, <2>1, <2>2, LinkedStill
<1>17. Gathered(h, H, N, g, p, e, x)
  BY <1>4, <1>7, <1>10, <1>12, <1>14, <1>16 DEF Gathered, O
<1> QED
  BY <1>0, <1>17 DEF Merged, g

(* What the recast of the words from p up to e starts from. *)
Ready(h, H, N, p, e, x) ==
    /\ Memory(h) /\ ~h.strayed
    /\ Tiled(h, H) /\ Tagged(h, H, x) /\ Preceded(h, H, N) /\ Started(h, H, N)
    /\ \A b \in H : ~get_alloc(h, b) /\ (b < p \/ b >= e) => Number(h, b) \in N

(* A heap that has been written to past its end keeps to the type only.    *)
Stray(h, r) ==
    /\ Memory(r) /\ r.strayed /\ Brk(r) = Brk(h) /\ r.heap_start = h.heap_start
    /\ \A m \in Lists : r.root_list[m] < Brk(h)

(* p is a free block up to e, and the heap is sound; or the block belongs  *)
(* in the list that the epilogue is in.                                    *)
Settles(h, H, N, r, p, e) ==
    \/ /\ Sound(r, Recast(H, p, e, {p}), N, NULL)
       /\ Keeps(h, H, r, Recast(H, p, e, {p}), NULL)
       /\ get_size(r, p) = e - p /\ ~get_alloc(r, p) /\ Brk(r) = Brk(h)
    \/ N # Lists /\ Stray(h, r)

Rerooted(h, r, n, a) ==
    /\ Memory(r) /\ Brk(r) = Brk(h) /\ r.heap_start = h.heap_start
    /\ r.strayed = h.strayed /\ r.root_list[n] = a
    /\ \A m \in Lists : m # n => r.root_list[m] = h.root_list[m]

(* A root that is changed by itself, as a relation. *)
LEMMA Rerooting ==
    ASSUME NEW h, Memory(h), NEW n \in Lists, NEW a \in Nat,
           NEW r, r = [h EXCEPT !.root_list[n] = a]
    PROVE  Rerooted(h, r, n, a)
<1> DEFINE s == [h EXCEPT !.root_list[n] = a]
<1>1. /\ Memory(s) /\ Brk(s) = Brk(h) /\ s.heap_start = h.heap_start
      /\ s.strayed = h.strayed /\ s.root_list[n] = a
      /\ \A m \in Lists : m # n => s.root_list[m] = h.root_list[m]
      /\ \A x : Word(s, x) = Word(h, x)
  BY Reroot
<1>2. r = s
  OBVIOUS
<1> HIDE DEF s
<1> QED
  BY <1>1, <1>2 DEF Rerooted

(* Inserting into the epilogue's list writes past the end of the heap. *)
LEMMA StrayInsert ==
    ASSUME NEW g, Memory(g), NEW p \in Nat, NEW n \in Lists, n = Number(g, p), n # 0,
           g.root_list[n] = Brk(g) - 1, p # Brk(g) - 1, NEW B \in Nat, B = Brk(g), p < B,
           B >= 2,
           \A m \in Lists : g.root_list[m] < B
    PROVE  Stray(g, insert_node(g, p))
<1> DEFINE old == B - 1
           h1 == put(g, p + 1, Pointer(old))
           h2 == put(h1, old + 2, Pointer(p))
           h3 == put(h2, p + 2, Pointer(NULL))
           r  == [h3 EXCEPT !.root_list[n] = p]
<1>1. old \in Nat /\ old # NULL /\ old # p
  BY DEF NULL
<1>2. insert_node(g, p) = r
  <2>1. find_listnumber(get_size(g, p)) = n
    BY DEF Number
  <2> DEFINE back == n # 0 /\ old # NULL
  <2>2. insert_node(g, p) = PutFirst(g, p, n, old, back)
    BY <1>1, <2>1 DEF insert_node
  <2>3. back
    BY <1>1
  <2> DEFINE f2 == PutIf(back, h1, old + 2, Pointer(p))
             z == n # 0
             f3 == PutIf(z, f2, p + 2, Pointer(NULL))
  <2>4. PutFirst(g, p, n, old, back) = [f3 EXCEPT !.root_list[n] = p]
    BY DEF PutFirst, prev_linknode, next_linknode, wsize
  <2>5. f2 = h2
    <3> HIDE DEF back
    <3> QED
      BY <2>3 DEF PutIf
  <2>6. f3 = h3
    <3>1. z
      OBVIOUS
    <3> HIDE DEF z, f2
    <3> QED
      BY <2>5, <3>1 DEF PutIf
  <2> HIDE DEF old, back, f3, h3
  <2> QED
    BY <2>2, <2>4, <2>6
<1> HIDE DEF h1, h2, h3, r
<1>3. Pointer(old) \in WordValues /\ Pointer(p) \in WordValues /\ Pointer(NULL) \in WordValues
  BY <1>1, Pointed DEF NULL
<1>4. Rewritten(g, h1) /\ Memory(h1)
  BY <1>3, PutIs DEF h1, Rewritten
<1>5. Rewritten(h1, h2) /\ Memory(h2) /\ h2.strayed
  <2>1. old + 2 \notin 0 .. Brk(h1) - 1
    BY <1>4 DEF Rewritten
  <2> QED
    BY <1>3, <1>4, <2>1, PutIs DEF h2, Rewritten
<1>6. Rewritten(h2, h3) /\ Memory(h3) /\ h3.strayed
  BY <1>3, <1>5, PutIs DEF h3, Rewritten
<1>7. /\ Memory(r) /\ Brk(r) = Brk(h3) /\ r.heap_start = h3.heap_start
      /\ r.strayed = h3.strayed /\ r.root_list[n] = p
      /\ \A m \in Lists : m # n => r.root_list[m] = h3.root_list[m]
  <2>1. r = [h3 EXCEPT !.root_list[n] = p]
    BY DEF r
  <2>2. Rerooted(h3, r, n, p)
    BY <1>6, <2>1, Rerooting
  <2> QED
    BY <2>2 DEF Rerooted
<1>8. /\ Brk(h3) = Brk(g) /\ h3.heap_start = g.heap_start /\ h3.root_list = g.root_list
  BY <1>4, <1>5, <1>6 DEF Rewritten
<1>9. Stray(g, r)
  BY <1>6, <1>7, <1>8 DEF Stray
<1> QED
  BY <1>2, <1>9

(* Two cases: the block's list is one of N, or it is the epilogue's. *)
LEMMA NoList ==
    ASSUME NEW h, NEW H, NEW N, NEW g, NEW p, NEW e, NEW x, Ready(h, H, N, p, e, x),
           Gathered(h, H, N, g, p, e, x), Number(g, p) \notin N, NEW i, Memory(i),
           Brk(i) = Brk(g), i.heap_start = g.heap_start, i.root_list = g.root_list,
           get_size(i, p) = get_size(g, p)
    PROVE  N # Lists /\ Stray(h, insert_node(i, p))
<1> DEFINE n == Number(g, p)
<1>1. n \in Lists
  BY MemoryParts, ListNumber DEF Number, Gathered
<1>2. N = Lists \ {SIZE - 1} /\ h.root_list[SIZE - 1] = Brk(h) - 1
  BY <1>1 DEF Ready, Started
<1>3. n = SIZE - 1 /\ N # Lists /\ n # 0 /\ n \notin N
  <2>1. SIZE - 1 # 0
    BY HeapAssumption DEF SIZE
  <2> QED
    BY <1>1, <1>2, <2>1
<1>4. g.root_list[n] = Brk(g) - 1 /\ Brk(g) = Brk(h) /\ g.heap_start = h.heap_start
      /\ Memory(g)
  BY <1>2, <1>3 DEF Gathered
<1> DEFINE B == Brk(g)
<1>5. p \in Nat /\ e \in Nat /\ p < e /\ e <= B - 1 /\ B \in Nat /\ B >= 2
  <2>1. p \in H /\ e \in H /\ p < e
    BY DEF Gathered, Region
  <2> QED
    BY <1>4, <2>1, TiledParts DEF Ready
<1>6. ASSUME NEW m \in Lists
      PROVE  g.root_list[m] < B
  <2>1. CASE m = n
    BY <1>4, <1>5, <2>1
  <2>2. CASE m # n
    <3>1. m \in N
      BY <1>2, <1>3, <2>2
    <3> DEFINE O == Outside(h, H, N, p, e)
    <3>2. Holds(g, m, O[m])
      BY <3>1 DEF Gathered, Linked
    <3>3. \A b \in O[m] : b \in H
      BY <3>1 DEF Outside
    <3> HIDE DEF O
    <3>4. PICK k, s : Chain(g, m, O[m], k, s)
      BY <3>2 DEF Holds
    <3>5. k \in Nat /\ s \in [1 .. k -> O[m]] /\ g.root_list[m] = IF k = 0 THEN NULL ELSE s[1]
      BY <3>4 DEF Chain
    <3>6. CASE k = 0
      BY <1>5, <3>5, <3>6 DEF NULL
    <3>7. CASE k # 0
      <4>1. 1 \in 1 .. k
        BY <3>5, <3>7
      <4>2. s[1] \in H
        BY <3>3, <3>5, <4>1
      <4>3. s[1] \in Nat /\ s[1] <= B - 1
        BY <1>4, <4>2, TiledParts DEF Ready
      <4> QED
        BY <1>5, <3>5, <3>7, <4>3
    <3> QED
      BY <3>6, <3>7
  <2> QED
    BY <2>1, <2>2
<1>7. n = Number(i, p)
  BY DEF Number
<1> HIDE DEF n
<1>8. Stray(i, insert_node(i, p))
  <2>1. \A m \in Lists : i.root_list[m] < Brk(i)
    BY <1>6
  <2>2. i.root_list[n] = Brk(i) - 1 /\ p # Brk(i) - 1 /\ Brk(i) \in Nat /\ p < Brk(i) /\ Brk(i) >= 2
    BY <1>4, <1>5
  <2> HIDE DEF B
  <2> QED
    BY <1>1, <1>3, <1>5, <1>7, <2>1, <2>2, StrayInsert
<1>9. Stray(h, insert_node(i, p))
  BY <1>4, <1>8 DEF Stray
<1> QED
  BY <1>3, <1>9

(* Inserting the gathered block does not touch what is at its end. *)
LEMMA InsertedAt ==
    ASSUME NEW h, NEW H, NEW N, NEW g, NEW p, NEW e, NEW x, Memory(h), Tiled(h, H),
           Gathered(h, H, N, g, p, e, x), Number(g, p) \in N
    PROVE  /\ Memory(insert_node(g, p)) /\ Brk(insert_node(g, p)) = Brk(g)
           /\ Word(insert_node(g, p), e) = Word(g, e) /\ e \in Within(g)
<1> DEFINE O == Outside(h, H, N, p, e)
           n == Number(g, p)
<1>0. GatheredPlace(h, H, N, g, p, e, n)
  BY GatheredParts
<1>1. /\ Node(g, n, p) /\ \A m \in N : p \notin O[m]
      /\ e \notin LinkWords(n, O[n] \cup {p})
      /\ e \in Nat /\ e < Brk(g) /\ Brk(g) \in Nat
  BY <1>0 DEF GatheredPlace
<1>2. Memory(g) /\ Linked(g, N, O)
  BY DEF Gathered
<1>3. n = find_listnumber(get_size(g, p)) /\ n \in N
  BY DEF Number
<1> HIDE DEF O, n
<1>4. Relinked(g, insert_node(g, p), n, O[n] \cup {p})
  BY <1>1, <1>2, <1>3, Inserted
<1>5. e \in Within(g)
  BY <1>1 DEF Within
<1> QED
  BY <1>1, <1>4, <1>5 DEF Relinked

(* Settled, when the block after is told last. *)
LEMMA SettleMarked ==
    ASSUME NEW h, NEW H, NEW N, NEW g, NEW p, NEW e, NEW x, NEW r, Ready(h, H, N, p, e, x),
           Gathered(h, H, N, g, p, e, x), Number(g, p) \in N,
           Marks(insert_node(g, p), r, e, e - p)
    PROVE  Settles(h, H, N, r, p, e)
<1> DEFINE n == Number(g, p)
<1>1. n \in N /\ n = Number(g, p)
  OBVIOUS
<1> HIDE DEF n
<1>2. Joined(g, r, p, e, N, n, Outside(h, H, N, p, e))
  BY <1>1, InsertThenMark DEF Ready
<1>3. /\ Sound(r, Recast(H, p, e, {p}), N, NULL)
      /\ Keeps(h, H, r, Recast(H, p, e, {p}), NULL)
      /\ get_size(r, p) = e - p /\ ~get_alloc(r, p) /\ Brk(r) = Brk(h)
  BY <1>1, <1>2, Settled DEF Ready
<1> QED
  BY <1>3 DEF Settles

(* What strays stays. *)
LEMMA StrayPut ==
    ASSUME NEW h, NEW i, Stray(h, i), NEW a, NEW w \in WordValues
    PROVE  Stray(h, put(i, a, w))
<1>1. Rewritten(i, put(i, a, w)) /\ put(i, a, w).strayed
  BY PutIs DEF Stray
<1> QED
  BY <1>1 DEF Stray, Rewritten

(* The block after was told of an allocated one of that size. *)
LEMMA JoinAlone ==
    ASSUME NEW h, NEW H, NEW N, NEW g, NEW p, NEW e, NEW x, Ready(h, H, N, p, e, x),
           Gathered(h, H, N, g, p, e, x), get_prev_16B(g, e) <=> e - p = 2
    PROVE  Settles(h, H, N, set_prev_alloc(insert_node(g, p), e, FALSE), p, e)
<1> DEFINE i == insert_node(g, p)
<1>0. PICK f \in BOOLEAN : f = FALSE
  OBVIOUS
<1> DEFINE r == set_prev_alloc(i, e, f)
<1>1. CASE Number(g, p) \in N
  <2>1. Memory(i) /\ Word(i, e) = Word(g, e) /\ e \in Within(i)
    BY <1>1, InsertedAt DEF Ready, Within
  <2> HIDE DEF i
  <2>2. /\ Wrote(i, r)
        /\ \A a : a # e => Word(r, a) = Word(i, a)
        /\ get_size(r, e) = get_size(i, e)
        /\ get_alloc(r, e) <=> get_alloc(i, e)
        /\ get_prev_alloc(r, e) <=> f
        /\ get_prev_16B(r, e) <=> get_prev_16B(i, e)
    BY <2>1, SetPrevAlloc
  <2>3. get_prev_16B(i, e) <=> e - p = 2
    BY <2>1 DEF get_prev_16B
  <2> HIDE DEF r
  <2>4. Marks(i, r, e, e - p)
    BY <1>0, <2>2, <2>3 DEF Marks
  <2>5. Settles(h, H, N, r, p, e)
    BY <1>1, <2>4, SettleMarked DEF i
  <2> QED
    BY <1>0, <2>5 DEF r, i
<1>2. CASE Number(g, p) \notin N
  <2>1. N # Lists /\ Stray(h, i)
    BY <1>2, NoList DEF Gathered
  <2> HIDE DEF i
  <2>2. PICK a, q \in BOOLEAN : a = get_alloc(i, e) /\ q = get_prev_16B(i, e)
    BY DEF get_alloc, get_prev_16B, Bit
  <2>3. get_size(i, e) \in Nat
    BY <2>1, MemoryParts DEF Stray
  <2>4. pack(get_size(i, e), a, f, q) \in WordValues
    BY <2>2, <2>3, Packed
  <2>5. Stray(h, put(i, e, pack(get_size(i, e), a, f, q)))
    BY <2>1, <2>4, StrayPut
  <2>6. Stray(h, r)
    BY <2>2, <2>5 DEF set_prev_alloc
  <2> HIDE DEF r
  <2>7. Settles(h, H, N, r, p, e)
    BY <2>1, <2>6 DEF Settles
  <2> QED
    BY <1>0, <2>7 DEF r, i
<1> QED
  BY <1>1, <1>2

(* The block after was told of a free one, of another size. *)
LEMMA JoinNext ==
    ASSUME NEW h, NEW H, NEW N, NEW g, NEW p, NEW e, NEW x, Ready(h, H, N, p, e, x),
           Gathered(h, H, N, g, p, e, x), ~get_prev_alloc(g, e), e - p # 2
    PROVE  Settles(h, H, N, set_prev_16B(insert_node(g, p), e, FALSE), p, e)
<1> DEFINE i == insert_node(g, p)
<1>0. PICK f \in BOOLEAN : f = FALSE
  OBVIOUS
<1> DEFINE r == set_prev_16B(i, e, f)
<1>1. CASE Number(g, p) \in N
  <2>1. Memory(i) /\ Word(i, e) = Word(g, e) /\ e \in Within(i)
    BY <1>1, InsertedAt DEF Ready, Within
  <2> HIDE DEF i
  <2>2. /\ Wrote(i, r)
        /\ \A a : a # e => Word(r, a) = Word(i, a)
        /\ get_size(r, e) = get_size(i, e)
        /\ get_alloc(r, e) <=> get_alloc(i, e)
        /\ get_prev_alloc(r, e) <=> get_prev_alloc(i, e)
        /\ get_prev_16B(r, e) <=> f
    BY <2>1, SetPrev16B
  <2>3. ~get_prev_alloc(i, e)
    BY <2>1 DEF get_prev_alloc
  <2> HIDE DEF r
  <2>4. Marks(i, r, e, e - p)
    BY <1>0, <2>2, <2>3 DEF Marks
  <2>5. Settles(h, H, N, r, p, e)
    BY <1>1, <2>4, SettleMarked DEF i
  <2> QED
    BY <1>0, <2>5 DEF r, i
<1>2. CASE Number(g, p) \notin N
  <2>1. N # Lists /\ Stray(h, i)
    BY <1>2, NoList DEF Gathered
  <2> HIDE DEF i
  <2>2. PICK a, q \in BOOLEAN : a = get_alloc(i, e) /\ q = get_prev_alloc(i, e)
    BY DEF get_alloc, get_prev_alloc, Bit
  <2>3. get_size(i, e) \in Nat
    BY <2>1, MemoryParts DEF Stray
  <2>4. pack(get_size(i, e), a, q, f) \in WordValues
    BY <2>2, <2>3, Packed
  <2>5. Stray(h, put(i, e, pack(get_size(i, e), a, q, f)))
    BY <2>1, <2>4, StrayPut
  <2>6. Stray(h, r)
    BY <2>2, <2>5 DEF set_prev_16B
  <2> HIDE DEF r
  <2>7. Settles(h, H, N, r, p, e)
    BY <2>1, <2>6 DEF Settles
  <2> QED
    BY <1>0, <2>7 DEF r, i
<1> QED
  BY <1>1, <1>2

(* The block after is told first. *)
LEMMA JoinPrevious ==
    ASSUME NEW h, NEW H, NEW N, NEW g, NEW p, NEW e, NEW x, Ready(h, H, N, p, e, x),
           Gathered(h, H, N, g, p, e, x), e - p # 2
    PROVE  Settles(h, H, N, insert_node(set_prev_16B(set_prev_alloc(g, e, FALSE), e, FALSE), p), p, e)
<1>0. PICK f \in BOOLEAN : f = FALSE
  OBVIOUS
<1> DEFINE i1 == set_prev_alloc(g, e, f)
           i == set_prev_16B(i1, e, f)
<1>1. p \in H /\ e \in H /\ p < e /\ Memory(g) /\ Brk(g) = Brk(h)
  BY DEF Gathered, Region
<1>2. p \in Nat /\ e \in Within(g) /\ p # e
  <2>1. e \in Nat /\ e <= Brk(h) - 1 /\ Brk(h) \in Nat /\ p \in Nat
    BY <1>1, TiledParts DEF Ready
  <2> QED
    BY <1>1, <2>1 DEF Within
<1>3. /\ Wrote(g, i1)
      /\ \A a : a # e => Word(i1, a) = Word(g, a)
      /\ get_size(i1, e) = get_size(g, e)
      /\ get_alloc(i1, e) <=> get_alloc(g, e)
      /\ get_prev_alloc(i1, e) <=> f
      /\ get_prev_16B(i1, e) <=> get_prev_16B(g, e)
  BY <1>1, <1>2, SetPrevAlloc
<1> HIDE DEF i1
<1>4. Memory(i1) /\ e \in Within(i1)
  BY <1>2, <1>3, Wrote2
<1>5. /\ Wrote(i1, i)
      /\ \A a : a # e => Word(i, a) = Word(i1, a)
      /\ get_size(i, e) = get_size(i1, e)
      /\ get_alloc(i, e) <=> get_alloc(i1, e)
      /\ get_prev_alloc(i, e) <=> get_prev_alloc(i1, e)
      /\ get_prev_16B(i, e) <=> f
  BY <1>4, SetPrev16B
<1> HIDE DEF i
<1>6. Wrote(g, i)
  BY <1>3, <1>5, WroteTwice
<1>7. Marks(g, i, e, e - p)
  BY <1>0, <1>3, <1>5, <1>6 DEF Marks
<1>8. Settles(h, H, N, insert_node(i, p), p, e)
  <2>1. CASE Number(g, p) \in N
    <3> DEFINE n == Number(g, p)
               r == insert_node(i, p)
    <3>1. n \in N /\ n = Number(g, p)
      BY <2>1
    <3> HIDE DEF n
    <3>2. Joined(g, r, p, e, N, n, Outside(h, H, N, p, e))
      BY <1>7, <3>1, MarkThenInsert DEF Ready
    <3> HIDE DEF r
    <3>3. /\ Sound(r, Recast(H, p, e, {p}), N, NULL)
          /\ Keeps(h, H, r, Recast(H, p, e, {p}), NULL)
          /\ get_size(r, p) = e - p /\ ~get_alloc(r, p) /\ Brk(r) = Brk(h)
      BY <3>1, <3>2, Settled DEF Ready
    <3> QED
      BY <3>3 DEF Settles, r
  <2>2. CASE Number(g, p) \notin N
    <3>1. Memory(i) /\ Brk(i) = Brk(g) /\ i.heap_start = g.heap_start /\ i.root_list = g.root_list
      BY <1>6, Wrote2
    <3>2. Word(i, p) = Word(g, p)
      BY <1>2, <1>3, <1>5
    <3>3. get_size(i, p) = get_size(g, p)
      BY <3>2 DEF get_size
    <3>4. N # Lists /\ Stray(h, insert_node(i, p))
      BY <2>2, <3>1, <3>3, NoList
    <3> QED
      BY <3>4 DEF Settles
  <2> QED
    BY <2>1, <2>2
<1> QED
  BY <1>0, <1>8 DEF i, i1

(* A block b that has become free, with its free neighbours, reaches from  *)
(* p up to e.                                                              *)
Left(h, H, b, p) ==
    /\ p \in H /\ get_prev_alloc(h, p) /\ ~get_alloc(h, p)
    /\ p = b \/ (p < b /\ p + get_size(h, p) = b)

Right(h, H, b, a, e) ==
    /\ a = b + get_size(h, b) /\ a \in H
    /\ e \in H /\ get_alloc(h, e)
    /\ e = a \/ (~get_alloc(h, a) /\ a < e /\ a + get_size(h, a) = e /\ ~get_prev_alloc(h, e))

Spans(H, b, p, a, e) ==
    /\ p \in Nat /\ b \in Nat /\ a \in Nat /\ e \in Nat /\ p <= b /\ b + 2 <= a /\ a <= e
    /\ p % 2 = 1 /\ e % 2 = 1
    /\ \A f \in H : f < p \/ f >= e <=> f # p /\ f # b /\ (f # a \/ a = e)

(* The block and its free neighbours are such a region. *)
LEMMA RegionOf ==
    ASSUME NEW h, NEW H, NEW N, NEW b \in H, NEW p, NEW a, NEW e, Memory(h), Tiled(h, H),
           Started(h, H, N), ~get_alloc(h, b), Left(h, H, b, p), Right(h, H, b, a, e)
    PROVE  /\ Region(h, H, p, e, b)
           /\ Spans(H, b, p, a, e)
<1>1. p \in H /\ a \in H /\ e \in H /\ get_alloc(h, e) /\ ~get_alloc(h, p)
  BY DEF Left, Right
<1>2. /\ p \in Nat /\ b \in Nat /\ a \in Nat /\ e \in Nat /\ p % 2 = 1 /\ e % 2 = 1
      /\ get_size(h, p) \in Nat /\ get_size(h, b) \in Nat /\ get_size(h, a) \in Nat
      /\ get_size(h, b) >= 2 /\ get_size(h, p) >= 2
  BY <1>1, TiledParts
<1>3. p <= b /\ b + 2 <= a /\ a <= e
  BY <1>2 DEF Left, Right
<1>4. ASSUME NEW f \in H
      PROVE  /\ f \in Nat
             /\ f <= p \/ f >= b
             /\ f <= b \/ f >= a
             /\ f <= a \/ f >= e
  <2>1. f \in Nat
    BY TiledParts
  <2>2. f <= p \/ f >= b
    <3>1. p < f => p + get_size(h, p) <= f
      BY <1>1, BlocksApart
    <3> QED
      BY <1>2, <2>1, <3>1 DEF Left
  <2>3. f <= b \/ f >= a
    <3>1. b < f => b + get_size(h, b) <= f
      BY BlocksApart
    <3> QED
      BY <1>2, <2>1, <3>1 DEF Right
  <2>4. f <= a \/ f >= e
    <3>1. a < f => a + get_size(h, a) <= f
      BY <1>1, BlocksApart
    <3> QED
      BY <1>2, <2>1, <3>1 DEF Right
  <2> QED
    BY <2>1, <2>2, <2>3, <2>4
<1>5. ASSUME NEW f \in H
      PROVE  f < p \/ f >= e <=> f # p /\ f # b /\ (f # a \/ a = e)
  BY <1>2, <1>3, <1>4
<1>6. ASSUME NEW f \in H, p <= f, f < e
      PROVE  ~get_alloc(h, f)
  <2>1. f = p \/ f = b \/ (f = a /\ a # e)
    BY <1>2, <1>4, <1>5, <1>6
  <2> QED
    BY <1>1, <2>1 DEF Right
<1>7. h.heap_start <= p \/ h.heap_start > e
  <2>1. h.heap_start \in H /\ h.heap_start \in Nat /\ ~Follows(h, H, h.heap_start)
    BY TiledParts DEF Started
  <2>2. ASSUME NEW f \in H, p < f, f <= e
        PROVE  Follows(h, H, f)
    <3>1. f \in Nat /\ (f = b \/ f = a \/ f = e)
      BY <1>2, <1>3, <1>4, <2>2
    <3>2. f = b => p # b
      BY <1>2, <2>2
    <3>3. CASE f = b
      BY <1>1, <1>2, <3>2, <3>3 DEF Follows, Left
    <3>4. CASE f = a
      BY <1>2, <3>4 DEF Follows, Right
    <3>5. CASE f = e /\ e # a
      <4>1. a + get_size(h, a) = e /\ get_size(h, a) # 0
        BY <1>2, <3>5 DEF Right
      <4> QED
        BY <1>1, <3>5, <4>1 DEF Follows
    <3> QED
      BY <3>1, <3>3, <3>4, <3>5
  <2> QED
    BY <1>2, <2>1, <2>2
<1>8. p < e /\ p <= b /\ b < e
  BY <1>2, <1>3
<1>9. Region(h, H, p, e, b)
  BY <1>1, <1>6, <1>7, <1>8 DEF Region
<1> QED
  BY <1>2, <1>3, <1>5, <1>9 DEF Spans

(* What is left in the lists is what is outside. *)
LEMMA OutsideIs ==
    ASSUME NEW h, NEW H, NEW N, NEW p, NEW e, NEW d, NEW S, Linked(d, N, S),
           \A m \in N : \A f : f \in S[m] <=>
              f \in H /\ ~get_alloc(h, f) /\ (f < p \/ f >= e) /\ Number(h, f) = m
    PROVE  S = Outside(h, H, N, p, e)
<1>1. S = [m \in N |-> S[m]]
  BY DEF Linked
<1>2. Outside(h, H, N, p, e) = [m \in N |-> Outside(h, H, N, p, e)[m]]
  BY DEF Outside
<1>3. \A m \in N : \A f : f \in Outside(h, H, N, p, e)[m] <=>
              f \in H /\ ~get_alloc(h, f) /\ (f < p \/ f >= e) /\ Number(h, f) = m
  BY DEF Outside
<1>4. ASSUME NEW m \in N
      PROVE  S[m] = Outside(h, H, N, p, e)[m]
  <2>1. \A f : f \in S[m] <=> f \in Outside(h, H, N, p, e)[m]
    BY <1>3
  <2> QED
    BY <2>1
<1> QED
  BY <1>1, <1>2, <1>4

(* The free block b goes to its list with its neighbours, from p up to e.  *)
Coalesces(h, H, N, b, c) ==
    \E p, e \in H :
        /\ c.block = p /\ p <= b /\ b + get_size(h, b) <= e
        /\ get_prev_alloc(h, b) => p = b
        /\ Settles(h, H, N, c.heap, p, e)

Limbo(h, H, N, b) == Sound(h, H, N, b) /\ b \in H /\ ~get_alloc(h, b)

(* What Settled needs of a block that is in no list. *)
LEMMA LimboParts ==
    ASSUME NEW h, NEW H, NEW N, NEW b, Limbo(h, H, N, b),
           NEW p, NEW a, NEW e, Left(h, H, b, p), Right(h, H, b, a, e)
    PROVE  /\ Ready(h, H, N, p, e, b) /\ Region(h, H, p, e, b)
           /\ Spans(H, b, p, a, e)
<1>1. Memory(h) /\ Tiled(h, H) /\ Started(h, H, N) /\ b \in H /\ ~get_alloc(h, b)
  BY DEF Limbo, Sound
<1>2. /\ Region(h, H, p, e, b)
      /\ Spans(H, b, p, a, e)
  BY <1>1, RegionOf
<1>3. \A f \in H : ~get_alloc(h, f) /\ (f < p \/ f >= e) => Number(h, f) \in N
  BY <1>2 DEF Limbo, Sound, Filed, Spans
<1>4. Ready(h, H, N, p, e, b)
  BY <1>3 DEF Limbo, Sound, Ready
<1> QED
  BY <1>2, <1>4

(* Both neighbours are allocated. *)
LEMMA CoalesceAlone ==
    ASSUME NEW h, NEW H, NEW N, NEW b, Limbo(h, H, N, b), NEW a,
           Left(h, H, b, b), Right(h, H, b, a, a)
    PROVE  Settles(h, H, N, set_prev_alloc(insert_node(h, b), a, FALSE), b, a)
<1>0. /\ Ready(h, H, N, b, a, b) /\ Region(h, H, b, a, b)
      /\ Spans(H, b, b, a, a)
  BY LimboParts
<1>1. /\ Ready(h, H, N, b, a, b) /\ Region(h, H, b, a, b)
      /\ b \in Nat /\ a \in Nat /\ b + 2 <= a
      /\ \A f \in H : f < b \/ f >= a <=> f # b
  BY <1>0 DEF Spans
<1>2. Memory(h) /\ Filed(h, H, N, b) /\ Tagged(h, H, b) /\ Tiled(h, H) /\ b \in H /\ ~get_alloc(h, b)
  BY DEF Limbo, Sound
<1>3. Loose(h, H, N, h, Members(h, H, N, b))
  BY <1>2, LooseStart
<1>4. Members(h, H, N, b) = Outside(h, H, N, b, a)
  <2> DEFINE S == Members(h, H, N, b)
  <2>1. \A m \in N : \A f : f \in S[m] <=>
              f \in H /\ ~get_alloc(h, f) /\ f # b /\ Number(h, f) = m
    BY DEF Members
  <2> HIDE DEF S
  <2>2. \A m \in N : \A f : f \in S[m] <=>
              f \in H /\ ~get_alloc(h, f) /\ (f < b \/ f >= a) /\ Number(h, f) = m
    BY <1>1, <2>1
  <2>3. Linked(h, N, S)
    BY <1>3 DEF Loose, S
  <2> QED
    BY <2>2, <2>3, OutsideIs DEF S
<1>5. get_size(h, b) = a - b /\ get_size(h, b) # 0 /\ a = b + get_size(h, b)
  <2>1. get_size(h, b) \in Nat /\ a = b + get_size(h, b) /\ get_size(h, b) # 0
    BY <1>2, TiledParts DEF Right
  <2> QED
    BY <1>1, <2>1
<1>6. Told(h, b, b)
  BY <1>2, <1>5 DEF Tagged
<1>7. get_prev_16B(h, a) <=> a - b = 2
  BY <1>5, <1>6 DEF Told
<1>8. a - b >= 4 => Word(h, a - 1) = Word(h, b)
  BY <1>2, <1>5, <1>6 DEF Told
<1>9. get_prev_alloc(h, b)
  BY DEF Left
<1>10. Gathered(h, H, N, h, b, a, b)
  <2>1. Linked(h, N, Outside(h, H, N, b, a))
    BY <1>3, <1>4 DEF Loose
  <2> QED
    BY <1>1, <1>2, <1>5, <1>8, <1>9, <2>1 DEF Gathered
<1> QED
  BY <1>1, <1>7, <1>10, JoinAlone

(* The lists without the free neighbours, and the merged block. *)
LEMMA LooseOne ==
    ASSUME NEW h, NEW H, NEW N, NEW b, Limbo(h, H, N, b), NEW c \in H, ~get_alloc(h, c), c # b,
           NEW p, NEW e, \A f \in H : f < p \/ f >= e <=> f # c /\ f # b
    PROVE  Loose(h, H, N, delete_node(h, c), Outside(h, H, N, p, e))
<1> DEFINE S == Members(h, H, N, b)
           n == Number(h, c)
           S2 == [S EXCEPT ![n] = @ \ {c}]
           d == delete_node(h, c)
<1>1. Memory(h) /\ Filed(h, H, N, b) /\ Tiled(h, H)
  BY DEF Limbo, Sound
<1>2. Loose(h, H, N, h, S)
  BY <1>1, LooseStart
<1>3. n \in N /\ \A m \in N : \A f : f \in S[m] <=>
              f \in H /\ ~get_alloc(h, f) /\ f # b /\ Number(h, f) = m
  BY <1>1 DEF Members, Filed
<1>4. c \in S[n] /\ \A m \in N : m # n => c \notin S[m]
  BY <1>3
<1>5. S = [m \in N |-> S[m]]
  BY DEF Members
<1> HIDE DEF S, n
<1>6. Loose(h, H, N, d, S2)
  BY <1>1, <1>2, <1>3, <1>4, LooseLess
<1>7. \A m \in N : S2[m] = IF m = n THEN S[n] \ {c} ELSE S[m]
  BY <1>5
<1> HIDE DEF d, S2
<1>8. \A m \in N : \A f : f \in S2[m] <=>
              f \in H /\ ~get_alloc(h, f) /\ (f < p \/ f >= e) /\ Number(h, f) = m
  BY <1>3, <1>4, <1>7
<1>9. S2 = Outside(h, H, N, p, e)
  BY <1>6, <1>8, OutsideIs DEF Loose
<1> QED
  BY <1>6, <1>9 DEF d

(* The lists without both neighbours. *)
LEMMA LooseTwo ==
    ASSUME NEW h, NEW H, NEW N, NEW b, Limbo(h, H, N, b), NEW c \in H, ~get_alloc(h, c), c # b,
           NEW a \in H, ~get_alloc(h, a), a # b, a # c,
           NEW p, NEW e, \A f \in H : f < p \/ f >= e <=> f # c /\ f # b /\ f # a
    PROVE  Loose(h, H, N, delete_node(delete_node(h, c), a), Outside(h, H, N, p, e))
<1> DEFINE S == Members(h, H, N, b)
           n == Number(h, c)
           S2 == [S EXCEPT ![n] = @ \ {c}]
           d == delete_node(h, c)
           n2 == Number(h, a)
           S3 == [S2 EXCEPT ![n2] = @ \ {a}]
           d2 == delete_node(d, a)
<1>1. Memory(h) /\ Filed(h, H, N, b) /\ Tiled(h, H)
  BY DEF Limbo, Sound
<1>2. Loose(h, H, N, h, S)
  BY <1>1, LooseStart
<1>3. n \in N /\ n2 \in N /\ \A m \in N : \A f : f \in S[m] <=>
              f \in H /\ ~get_alloc(h, f) /\ f # b /\ Number(h, f) = m
  BY <1>1 DEF Members, Filed
<1>4. /\ c \in S[n] /\ \A m \in N : m # n => c \notin S[m]
      /\ a \in S[n2] /\ \A m \in N : m # n2 => a \notin S[m]
  BY <1>3
<1>5. S = [m \in N |-> S[m]]
  BY DEF Members
<1> HIDE DEF S, n, n2
<1>6. Loose(h, H, N, d, S2)
  BY <1>1, <1>2, <1>3, <1>4, LooseLess
<1>7. \A m \in N : S2[m] = IF m = n THEN S[n] \ {c} ELSE S[m]
  BY <1>5
<1>8. S2 = [m \in N |-> S2[m]]
  BY <1>5
<1> HIDE DEF d, S2
<1>9. a \in S2[n2] /\ \A m \in N : m # n2 => a \notin S2[m]
  BY <1>3, <1>4, <1>7
<1>10. Loose(h, H, N, d2, S3)
  BY <1>1, <1>3, <1>6, <1>9, LooseLess
<1>11. \A m \in N : S3[m] = IF m = n2 THEN S2[n2] \ {a} ELSE S2[m]
  BY <1>8
<1> HIDE DEF d2, S3
<1>12. \A m \in N : \A f : f \in S3[m] <=> f \in S[m] /\ f # c /\ f # a
  BY <1>3, <1>4, <1>7, <1>9, <1>11
<1>13. \A m \in N : \A f : f \in S3[m] <=>
              f \in H /\ ~get_alloc(h, f) /\ (f < p \/ f >= e) /\ Number(h, f) = m
  BY <1>3, <1>12
<1>14. S3 = Outside(h, H, N, p, e)
  BY <1>10, <1>13, OutsideIs DEF Loose
<1> QED
  BY <1>10, <1>14 DEF d2, d

(* The end of a gathered block is as it was. *)
LEMMA GatheredEnd ==
    ASSUME NEW h, NEW H, NEW N, NEW g, NEW p, NEW e, NEW x, Memory(h), Tiled(h, H),
           Gathered(h, H, N, g, p, e, x)
    PROVE  Word(g, e) = Word(h, e)
<1>1. e \in H
  BY DEF Gathered, Region
<1>2. e \in Nat /\ ~LinkWord(h, H, e)
  BY <1>1, TiledParts, NotLink
<1>3. e >= e
  BY <1>2
<1> QED
  BY <1>2, <1>3 DEF Gathered

(* Only the block after is free. *)
LEMMA CoalesceNext ==
    ASSUME NEW h, NEW H, NEW N, NEW b, Limbo(h, H, N, b), NEW a, NEW e,
           Left(h, H, b, b), Right(h, H, b, a, e), a # e, NEW size, size = e - b
    PROVE  Settles(h, H, N, set_prev_16B(insert_node(Merged(delete_node(h, a), b, size), b),
                                         e, FALSE), b, e)
<1> DEFINE d == delete_node(h, a)
           g == Merged(d, b, size)
<1>0. /\ Ready(h, H, N, b, e, b) /\ Region(h, H, b, e, b) /\ Spans(H, b, b, a, e)
  BY LimboParts
<1>1. /\ b \in Nat /\ a \in Nat /\ e \in Nat /\ b + 2 <= a /\ a <= e /\ b % 2 = 1 /\ e % 2 = 1
      /\ \A f \in H : f < b \/ f >= e <=> f # a /\ f # b
  BY <1>0 DEF Spans
<1>2. Memory(h) /\ Tiled(h, H) /\ b \in H /\ a \in H /\ ~get_alloc(h, a)
      /\ ~get_prev_alloc(h, e) /\ get_prev_alloc(h, b)
  BY DEF Limbo, Sound, Left, Right
<1>3. a # b
  BY <1>1
<1>4. Loose(h, H, N, d, Outside(h, H, N, b, e))
  BY <1>1, <1>2, <1>3, LooseOne
<1>5. e - b >= 4 /\ e - b # 2
  <2>1. a % 2 = 1
    BY <1>2, TiledParts
  <2> QED
    BY <1>1, <2>1
<1> HIDE DEF d
<1>6. Gathered(h, H, N, g, b, e, b)
  BY <1>0, <1>2, <1>4, <1>5, MergedIs
<1> HIDE DEF g
<1>7. ~get_prev_alloc(g, e)
  BY <1>2, <1>6, GatheredEnd DEF get_prev_alloc
<1>8. Settles(h, H, N, set_prev_16B(insert_node(g, b), e, FALSE), b, e)
  BY <1>0, <1>5, <1>6, <1>7, JoinNext
<1> QED
  BY <1>8 DEF g, d

(* Only the block before is free. *)
LEMMA CoalescePrevious ==
    ASSUME NEW h, NEW H, NEW N, NEW b, Limbo(h, H, N, b), NEW p, NEW a, p # b,
           Left(h, H, b, p), Right(h, H, b, a, a), NEW size, size = a - p
    PROVE  Settles(h, H, N, insert_node(set_prev_16B(set_prev_alloc(
                                Merged(delete_node(h, p), p, size), a, FALSE), a, FALSE), p), p, a)
<1> DEFINE d == delete_node(h, p)
           g == Merged(d, p, size)
<1>0. /\ Ready(h, H, N, p, a, b) /\ Region(h, H, p, a, b) /\ Spans(H, b, p, a, a)
  BY LimboParts
<1>1. /\ p \in Nat /\ b \in Nat /\ a \in Nat /\ p <= b /\ b + 2 <= a /\ p % 2 = 1 /\ a % 2 = 1
      /\ \A f \in H : f < p \/ f >= a <=> f # p /\ f # b
  BY <1>0 DEF Spans
<1>2. Memory(h) /\ Tiled(h, H) /\ b \in H /\ p \in H /\ ~get_alloc(h, p) /\ get_prev_alloc(h, p)
  BY DEF Limbo, Sound, Left
<1>4. Loose(h, H, N, d, Outside(h, H, N, p, a))
  BY <1>1, <1>2, LooseOne
<1>5. a - p >= 4 /\ a - p # 2
  <2>1. b % 2 = 1
    BY <1>2, TiledParts
  <2> QED
    BY <1>1, <2>1
<1> HIDE DEF d
<1>6. Gathered(h, H, N, g, p, a, b)
  BY <1>0, <1>2, <1>4, <1>5, MergedIs
<1> HIDE DEF g
<1>8. Settles(h, H, N, insert_node(set_prev_16B(set_prev_alloc(g, a, FALSE), a, FALSE), p), p, a)
  BY <1>0, <1>5, <1>6, JoinPrevious
<1> QED
  BY <1>8 DEF g, d

(* Both neighbours are free. *)
LEMMA CoalesceBoth ==
    ASSUME NEW h, NEW H, NEW N, NEW b, Limbo(h, H, N, b), NEW p, NEW a, NEW e, p # b, a # e,
           Left(h, H, b, p), Right(h, H, b, a, e), NEW size, size = e - p
    PROVE  Settles(h, H, N, set_prev_16B(insert_node(Merged(
                                delete_node(delete_node(h, p), a), p, size), p), e, FALSE), p, e)
<1> DEFINE d == delete_node(delete_node(h, p), a)
           g == Merged(d, p, size)
<1>0. /\ Ready(h, H, N, p, e, b) /\ Region(h, H, p, e, b) /\ Spans(H, b, p, a, e)
  BY LimboParts
<1>1. /\ p \in Nat /\ b \in Nat /\ a \in Nat /\ e \in Nat /\ p <= b /\ b + 2 <= a /\ a <= e
      /\ p % 2 = 1 /\ e % 2 = 1
      /\ \A f \in H : f < p \/ f >= e <=> f # p /\ f # b /\ f # a
  BY <1>0 DEF Spans
<1>2. Memory(h) /\ Tiled(h, H) /\ b \in H /\ p \in H /\ ~get_alloc(h, p) /\ get_prev_alloc(h, p)
      /\ a \in H /\ ~get_alloc(h, a) /\ ~get_prev_alloc(h, e)
  BY DEF Limbo, Sound, Left, Right
<1>3. a # b /\ a # p
  BY <1>1
<1>4. Loose(h, H, N, d, Outside(h, H, N, p, e))
  BY <1>1, <1>2, <1>3, LooseTwo
<1>5. e - p >= 4 /\ e - p # 2
  <2>1. b % 2 = 1 /\ a % 2 = 1
    BY <1>2, TiledParts
  <2> QED
    BY <1>1, <2>1
<1> HIDE DEF d
<1>6. Gathered(h, H, N, g, p, e, b)
  BY <1>0, <1>2, <1>4, <1>5, MergedIs
<1> HIDE DEF g
<1>7. ~get_prev_alloc(g, e)
  BY <1>2, <1>6, GatheredEnd DEF get_prev_alloc
<1>8. Settles(h, H, N, set_prev_16B(insert_node(g, p), e, FALSE), p, e)
  BY <1>0, <1>5, <1>6, <1>7, JoinNext
<1> QED
  BY <1>8 DEF g, d

(* coalesce_block. *)
LEMMA Coalescing ==
    ASSUME NEW h, NEW H, NEW N, NEW b, Limbo(h, H, N, b)
    PROVE  Coalesces(h, H, N, b, coalesce_block(h, b))
<1> DEFINE a == find_next(h, b)
           c == Before(h, b)
           r == coalesce_block(h, b)
<1>1. /\ Memory(h) /\ Tiled(h, H) /\ Tagged(h, H, b) /\ Preceded(h, H, N)
      /\ b \in H /\ ~get_alloc(h, b)
  BY DEF Limbo, Sound
<1>2. /\ a = b + get_size(h, b) /\ a \in H /\ a # b /\ b \in Nat /\ a \in Nat /\ b < a
      /\ get_size(h, b) \in Nat
  <2>1. b \in Nat /\ get_size(h, b) \in Nat /\ get_size(h, b) # 0
    BY <1>1, TiledParts
  <2>2. b + get_size(h, b) \in H
    BY <1>1, <2>1, NextBlock
  <2> QED
    BY <2>1, <2>2 DEF find_next
<1>3. b # Brk(h) - 1
  BY <1>1, TiledParts
<1>4. coalesce_block(h, b) = Coalesced(h, c, b, a)
  BY DEF coalesce_block
<1> HIDE DEF a
<1>5. ASSUME get_prev_alloc(h, b) PROVE Left(h, H, b, b)
  BY <1>1, <1>5 DEF Left
<1>6. ASSUME ~get_prev_alloc(h, b)
      PROVE  /\ Left(h, H, b, c) /\ c # b /\ c \in H /\ c \in Nat /\ c < b
             /\ get_size(h, c) \in Nat /\ c + get_size(h, c) = b
  <2>1. /\ c \in H /\ ~get_alloc(h, c) /\ c < b
        /\ get_size(h, c) # 0 /\ c + get_size(h, c) = b
    BY <1>1, <1>3, <1>6, BeforeIs
  <2> HIDE DEF c
  <2>2. /\ c \in Nat /\ get_size(h, c) \in Nat
        /\ \A f \in H : f \in Nat /\ (f < c => f + 2 <= c)
    BY <1>1, <2>1, TiledParts, BlocksApart
  <2>3. NextHeader(h, c) = b
    BY <2>1 DEF NextHeader
  <2>4. get_prev_alloc(h, c)
    <3> SUFFICES ASSUME ~get_prev_alloc(h, c)
                 PROVE  FALSE
      OBVIOUS
    <3>1. c # Brk(h) - 1
      BY <1>1, <2>1, TiledParts
    <3>2. PICK f \in H : get_size(h, f) # 0 /\ f + get_size(h, f) = c
      BY <1>1, <2>1, <3>1 DEF Preceded, Follows
    <3>3. f \in Nat /\ get_size(h, f) \in Nat /\ f < c
      <4>1. f \in Nat /\ get_size(h, f) \in Nat
        BY <1>1, TiledParts
      <4> QED
        BY <2>2, <3>2, <4>1
    <3>4. f # b /\ c # b
      BY <1>2, <2>1, <2>2, <3>3
    <3>5. Told(h, f, b)
      BY <1>1, <3>2 DEF Tagged
    <3> QED
      BY <2>1, <3>2, <3>4, <3>5 DEF Told
  <2> QED
    BY <1>2, <2>1, <2>2, <2>4 DEF Left
<1> HIDE DEF c
<1>7. ASSUME get_alloc(h, a) PROVE Right(h, H, b, a, a)
  BY <1>2, <1>7 DEF Right
<1> DEFINE e == find_next(h, a)
<1>8. ASSUME ~get_alloc(h, a)
      PROVE  /\ Right(h, H, b, a, e) /\ a # e /\ e \in H /\ e \in Nat /\ a < e
             /\ get_size(h, a) \in Nat /\ e = a + get_size(h, a)
  <2>1. get_size(h, a) \in Nat /\ get_size(h, a) # 0
    BY <1>1, <1>2, <1>8, TiledParts
  <2>2. e = a + get_size(h, a) /\ e \in H
    BY <1>1, <1>2, <2>1, NextBlock DEF find_next
  <2> HIDE DEF e
  <2>3. e \in Nat /\ a < e
    BY <1>2, <2>1, <2>2
  <2>4. Told(h, a, b)
    BY <1>1, <1>2, <2>1 DEF Tagged
  <2>5. get_alloc(h, e) /\ ~get_prev_alloc(h, e)
    BY <1>2, <1>8, <2>2, <2>3, <2>4 DEF Told
  <2> QED
    BY <1>2, <1>8, <2>1, <2>2, <2>3, <2>5 DEF Right
<1> HIDE DEF e
<1>9. CASE get_prev_alloc(h, b) /\ get_alloc(h, a)
  <2> DEFINE r2 == set_prev_alloc(insert_node(h, b), a, FALSE)
  <2>1. r = [block |-> b, heap |-> r2]
    BY <1>4, <1>9 DEF Coalesced
  <2>3. Settles(h, H, N, r2, b, a)
    BY <1>5, <1>7, <1>9, CoalesceAlone
  <2> HIDE DEF r, r2
  <2>4. b <= b /\ b + get_size(h, b) <= a
    BY <1>2
  <2> QED
    BY <1>1, <1>2, <2>1, <2>3, <2>4 DEF Coalesces, r
<1>10. CASE get_prev_alloc(h, b) /\ ~get_alloc(h, a)
  <2> DEFINE size == get_size(h, b) + get_size(h, a)
             r2 == set_prev_16B(insert_node(Merged(delete_node(h, a), b, size), b), e, FALSE)
  <2>1. r = [block |-> b, heap |-> r2]
    BY <1>4, <1>10 DEF Coalesced, e
  <2>2. size = e - b
    BY <1>2, <1>8, <1>10
  <2> HIDE DEF size
  <2>3. Settles(h, H, N, r2, b, e)
    BY <1>5, <1>8, <1>10, <2>2, CoalesceNext
  <2> HIDE DEF r, r2
  <2>4. b <= b /\ b + get_size(h, b) <= e
    BY <1>2, <1>8, <1>10
  <2> QED
    BY <1>1, <1>8, <1>10, <2>1, <2>3, <2>4 DEF Coalesces, r
<1>11. CASE ~get_prev_alloc(h, b) /\ get_alloc(h, a)
  <2> DEFINE size == get_size(h, b) + get_size(h, c)
             r2 == insert_node(set_prev_16B(set_prev_alloc(
                       Merged(delete_node(h, c), c, size), a, FALSE), a, FALSE), c)
  <2>1. r = [block |-> c, heap |-> r2]
    BY <1>4, <1>11 DEF Coalesced
  <2>2. size = a - c
    BY <1>2, <1>6, <1>11
  <2> HIDE DEF size
  <2>3. Settles(h, H, N, r2, c, a)
    BY <1>6, <1>7, <1>11, <2>2, CoalescePrevious
  <2> HIDE DEF r, r2
  <2>4. c <= b /\ b + get_size(h, b) <= a
    BY <1>2, <1>6, <1>11
  <2> QED
    BY <1>2, <1>6, <1>11, <2>1, <2>3, <2>4 DEF Coalesces, r
<1>12. CASE ~get_prev_alloc(h, b) /\ ~get_alloc(h, a)
  <2> DEFINE size == get_size(h, b) + get_size(h, a) + get_size(h, c)
             r2 == set_prev_16B(insert_node(Merged(
                       delete_node(delete_node(h, c), a), c, size), c), e, FALSE)
  <2>1. r = [block |-> c, heap |-> r2]
    BY <1>4, <1>12 DEF Coalesced, e
  <2>2. size = e - c
    BY <1>2, <1>6, <1>8, <1>12
  <2> HIDE DEF size
  <2>3. Settles(h, H, N, r2, c, e)
    BY <1>6, <1>8, <1>12, <2>2, CoalesceBoth
  <2> HIDE DEF r, r2
  <2>4. c <= b /\ b + get_size(h, b) <= e
    BY <1>2, <1>6, <1>8, <1>12
  <2>5. c \in H /\ e \in H /\ r.block = c /\ r.heap = r2
    BY <1>6, <1>8, <1>12, <2>1
  <2> QED
    BY <1>12, <2>3, <2>4, <2>5 DEF Coalesces, r
<1> QED
  BY <1>9, <1>10, <1>11, <1>12

-----------------------------------------------------------------------------
(* free and clients write within a block. *)

(* h2 differs from h within the allocated block b, which may have become   *)
(* free; then it is x.                                                     *)
Touched(h, h2, b, x) ==
    /\ Memory(h2) /\ Brk(h2) = Brk(h) /\ h2.heap_start = h.heap_start
    /\ h2.strayed = h.strayed /\ h2.root_list = h.root_list
    /\ \A a \in Int : a < b \/ a >= b + get_size(h, b) => Word(h2, a) = Word(h, a)
    /\ get_size(h2, b) = get_size(h, b)
    /\ get_prev_alloc(h2, b) <=> get_prev_alloc(h, b)
    /\ get_prev_16B(h2, b) <=> get_prev_16B(h, b)
    /\ \/ x = NULL /\ get_alloc(h2, b)
       \/ /\ x = b /\ ~get_alloc(h2, b)
          /\ get_size(h, b) >= 4 => Word(h2, b + get_size(h, b) - 1) = Word(h2, b)

(* Headers say what they said, but for whether b is allocated. *)
Same(h, H, h2, b) ==
    \A f \in H :
        /\ get_size(h2, f) = get_size(h, f)
        /\ f # b => (get_alloc(h2, f) <=> get_alloc(h, f)) /\ Word(h2, f) = Word(h, f)
        /\ get_prev_alloc(h2, f) <=> get_prev_alloc(h, f)
        /\ get_prev_16B(h2, f) <=> get_prev_16B(h, f)

(* The other blocks stay as they were. *)
LEMMA TouchedSame ==
    ASSUME NEW h, NEW H, NEW h2, NEW b \in H, NEW x, Memory(h), Tiled(h, H), get_size(h, b) # 0,
           Touched(h, h2, b, x)
    PROVE  /\ Same(h, H, h2, b)
           /\ \A f \in H : f # b => \A a \in f + 1 .. f + get_size(h, f) - 1 :
                                        Word(h2, a) = Word(h, a)
<1>1. \A f \in H : f \in Nat /\ get_size(h, f) \in Nat
  BY TiledParts
<1>2. ASSUME NEW f \in H, f # b
      PROVE  /\ f < b => f + get_size(h, f) <= b
             /\ f < b \/ f >= b + get_size(h, b)
  <2>1. f \in Nat /\ b \in Nat
    BY <1>1
  <2>2. f < b => f + get_size(h, f) <= b
    BY BlocksApart
  <2>3. b < f => b + get_size(h, b) <= f
    BY BlocksApart
  <2> QED
    BY <1>1, <1>2, <2>1, <2>2, <2>3
<1>3. ASSUME NEW f \in H, f # b
      PROVE  Word(h2, f) = Word(h, f)
  <2>1. f \in Int /\ (f < b \/ f >= b + get_size(h, b))
    BY <1>1, <1>2, <1>3
  <2> QED
    BY <2>1 DEF Touched
<1>4. Same(h, H, h2, b)
  <2> SUFFICES ASSUME NEW f \in H
               PROVE  /\ get_size(h2, f) = get_size(h, f)
                      /\ f # b => (get_alloc(h2, f) <=> get_alloc(h, f)) /\ Word(h2, f) = Word(h, f)
                      /\ get_prev_alloc(h2, f) <=> get_prev_alloc(h, f)
                      /\ get_prev_16B(h2, f) <=> get_prev_16B(h, f)
    BY DEF Same
  <2>1. CASE f = b
    BY <2>1 DEF Touched
  <2>2. CASE f # b
    <3>1. Word(h2, f) = Word(h, f)
      BY <1>3, <2>2
    <3> QED
      BY <3>1 DEF get_size, get_alloc, get_prev_alloc, get_prev_16B
  <2> QED
    BY <2>1, <2>2
<1>5. ASSUME NEW f \in H, f # b, NEW a \in f + 1 .. f + get_size(h, f) - 1
      PROVE  Word(h2, a) = Word(h, a)
  <2>0. f \in Nat /\ b \in Nat /\ get_size(h, f) \in Nat /\ get_size(h, b) \in Nat
    BY <1>1
  <2>1. a \in Int /\ (a < b \/ a >= b + get_size(h, b))
    BY <1>2, <1>5, <2>0
  <2> QED
    BY <2>1 DEF Touched
<1> QED
  BY <1>4, <1>5

(* What blocks have told one another is still true. *)
LEMMA TouchedTold ==
    ASSUME NEW h, NEW H, NEW h2, NEW b \in H, NEW x, Memory(h), Tiled(h, H), get_size(h, b) # 0,
           get_alloc(h, b), Tagged(h, H, NULL), Touched(h, h2, b, x), Same(h, H, h2, b),
           NEW f \in H, get_size(h2, f) # 0
    PROVE  Told(h2, f, x)
<1> DEFINE c == f + get_size(h, f)
<1>1. get_size(h2, f) = get_size(h, f) /\ get_size(h, f) # 0
  BY DEF Same
<1>2. Told(h, f, NULL) /\ c \in H
  BY <1>1, NextBlock DEF Tagged
<1>3. f \in Nat /\ b \in Nat /\ get_size(h, f) \in Nat /\ get_size(h, b) \in Nat /\ f # NULL
      /\ c # NULL /\ c \in Nat
  BY <1>2, TiledParts DEF NULL
<1>4. /\ get_prev_alloc(h2, c) <=> get_prev_alloc(h, c)
      /\ get_prev_16B(h2, c) <=> get_prev_16B(h, c)
      /\ c # b => (get_alloc(h2, c) <=> get_alloc(h, c))
      /\ f # b => (get_alloc(h2, f) <=> get_alloc(h, f)) /\ Word(h2, f) = Word(h, f)
  BY <1>2 DEF Same
<1>5. /\ get_prev_alloc(h, c) <=> get_alloc(h, f)
      /\ get_prev_16B(h, c) <=> get_size(h, f) = 2
      /\ ~get_alloc(h, f) /\ get_size(h, f) >= 4 => Word(h, c - 1) = Word(h, f)
      /\ ~get_alloc(h, f) => get_alloc(h, c)
  BY <1>2, <1>3 DEF Told
<1>6. ASSUME f # b
      PROVE  Word(h2, c - 1) = Word(h, c - 1)
  <2>1. f < b => f + get_size(h, f) <= b
    BY BlocksApart
  <2>2. b < f => b + get_size(h, b) <= f
    BY BlocksApart
  <2>3. c - 1 \in Int /\ (c - 1 < b \/ c - 1 >= b + get_size(h, b))
    BY <1>1, <1>3, <1>6, <2>1, <2>2
  <2> QED
    BY <2>3 DEF Touched
<1>7. CASE f # b
  <2>1. ~get_alloc(h2, f) /\ f # x /\ c # x => get_alloc(h2, c)
    <3>1. CASE c # b
      BY <1>4, <1>5, <1>7, <3>1
    <3>2. CASE c = b
      BY <3>2 DEF Touched
    <3> QED
      BY <3>1, <3>2
  <2>2. ~get_alloc(h2, f) /\ get_size(h, f) >= 4 => Word(h2, c - 1) = Word(h2, f)
    BY <1>4, <1>5, <1>6, <1>7
  <2>3. get_prev_alloc(h2, c) <=> get_alloc(h2, f)
    BY <1>4, <1>5, <1>7
  <2>4. get_prev_16B(h2, c) <=> get_size(h2, f) = 2
    BY <1>1, <1>4, <1>5
  <2> QED
    BY <1>1, <2>1, <2>2, <2>3, <2>4 DEF Told
<1>8. CASE f = b
  <2>1. get_prev_16B(h2, c) <=> get_size(h2, f) = 2
    BY <1>1, <1>4, <1>5
  <2>2. f # x => get_alloc(h2, f) /\ get_prev_alloc(h2, c)
    BY <1>4, <1>5, <1>8 DEF Touched
  <2>3. ~get_alloc(h2, f) => f = x
    BY <1>8 DEF Touched
  <2>4. ~get_alloc(h2, f) /\ get_size(h2, f) >= 4 => Word(h2, c - 1) = Word(h2, f)
    <3>1. c - 1 = b + get_size(h, b) - 1
      BY <1>3, <1>8
    <3> QED
      BY <1>1, <1>8, <3>1 DEF Touched
  <2> QED
    BY <1>1, <2>1, <2>2, <2>3, <2>4 DEF Told
<1> QED
  BY <1>7, <1>8

(* So the heap stays sound. *)
LEMMA TouchedSound ==
    ASSUME NEW h, NEW H, NEW N, NEW h2, NEW b \in H, NEW x, Sound(h, H, N, NULL),
           get_size(h, b) # 0, get_alloc(h, b), Touched(h, h2, b, x)
    PROVE  Sound(h2, H, N, x)
<1>1. /\ Memory(h) /\ ~h.strayed /\ Tiled(h, H) /\ Tagged(h, H, NULL) /\ Preceded(h, H, N)
      /\ Started(h, H, N) /\ Filed(h, H, N, NULL)
  BY DEF Sound
<1>2. Same(h, H, h2, b)
  BY <1>1, TouchedSame
<1>3. /\ Memory(h2) /\ Brk(h2) = Brk(h) /\ h2.heap_start = h.heap_start
      /\ h2.strayed = h.strayed /\ h2.root_list = h.root_list
  BY DEF Touched
<1>4. \A f \in H : /\ get_size(h2, f) = get_size(h, f)
                   /\ NextHeader(h2, f) = NextHeader(h, f)
                   /\ get_size(h2, f) = 0 => (get_alloc(h2, f) <=> get_alloc(h, f))
                   /\ get_prev_alloc(h2, f) <=> get_prev_alloc(h, f)
  BY <1>2 DEF Same, NextHeader
<1>5. Tiled(h2, H)
  <2>1. Brk(h) - 1 \in H
    BY <1>1 DEF Tiled
  <2> QED
    BY <1>1, <1>3, <1>4, <2>1 DEF Tiled
<1>6. Tagged(h2, H, x)
  BY <1>1, <1>2, TouchedTold DEF Tagged
<1>7. \A f : Follows(h2, H, f) <=> Follows(h, H, f)
  BY <1>4 DEF Follows
<1>8. Preceded(h2, H, N)
  BY <1>1, <1>3, <1>4, <1>7 DEF Preceded
<1>9. Started(h2, H, N)
  BY <1>1, <1>3, <1>4, <1>7 DEF Started, CanGrow
<1>10. ASSUME NEW f \in H
       PROVE  /\ ~get_alloc(h2, f) /\ f # x <=> ~get_alloc(h, f) /\ f # NULL
              /\ Number(h2, f) = Number(h, f)
  <2>1. f # NULL
    BY <1>1, TiledParts DEF NULL
  <2>2. CASE f = b
    BY <2>1, <2>2, <1>4 DEF Number, Touched
  <2>3. CASE f # b
    BY <1>2, <2>1, <2>3 DEF Number, Touched, Same
  <2> QED
    BY <2>2, <2>3
<1>11. Members(h2, H, N, x) = Members(h, H, N, NULL)
  <2>1. ASSUME NEW n \in N
        PROVE  Members(h2, H, N, x)[n] = Members(h, H, N, NULL)[n]
    BY <1>10 DEF Members
  <2> QED
    BY <2>1 DEF Members
<1> DEFINE S == Members(h, H, N, NULL)
<1>12. \A n \in N : \A a \in LinkWords(n, S[n]) : Word(h2, a) = Word(h, a)
  <2> TAKE n \in N
  <2> DEFINE T == S[n]
  <2>1. \A f \in T : f \in H /\ ~get_alloc(h, f) /\ Number(h, f) = n
    BY DEF Members
  <2> SUFFICES ASSUME NEW a \in LinkWords(n, T)
               PROVE  Word(h2, a) = Word(h, a)
    OBVIOUS
  <2> HIDE DEF S, T
  <2>2. LinkWord(h, H, a)
    BY <1>1, <2>1, LinksOfFree
  <2>3. a # b /\ a \notin b + 1 .. b + get_size(h, b) - 1
    BY <1>1, <2>2, NotLink
  <2>4. b \in Nat /\ get_size(h, b) \in Nat
    BY <1>1, TiledParts
  <2>5. a \in Int
    <3>1. PICK f \in H : a = f + 1 \/ a = f + 2
      BY <2>2 DEF LinkWord
    <3>2. f \in Nat
      BY <1>1, TiledParts
    <3> QED
      BY <3>1, <3>2
  <2>6. a < b \/ a >= b + get_size(h, b)
    BY <2>3, <2>4, <2>5
  <2> QED
    BY <2>5, <2>6 DEF Touched, T
<1>13. Linked(h2, N, S)
  <2>1. Linked(h, N, S)
    BY <1>1 DEF Filed
  <2>2. Brk(h2) >= Brk(h)
    BY <1>1, <1>3, MemoryParts
  <2> HIDE DEF S
  <2> QED
    BY <1>1, <1>3, <1>12, <2>1, <2>2, LinkedStill
<1>14. Filed(h2, H, N, x)
  <2>1. \A f \in H : ~get_alloc(h2, f) /\ f # x => Number(h2, f) \in N
    BY <1>1, <1>10 DEF Filed
  <2> QED
    BY <1>11, <1>13, <2>1 DEF Filed
<1> QED
  BY <1>1, <1>3, <1>5, <1>6, <1>8, <1>9, <1>14 DEF Sound

(* free marks a block before it coalesces it. *)
LEMMA MarkedIs ==
    ASSUME NEW h, NEW H, NEW b \in H, Memory(h), Tiled(h, H), get_size(h, b) # 0,
           NEW size, size = get_size(h, b)
    PROVE  Touched(h, Marked(h, b, size), b, b)
<1>0. PICK z, p, q \in BOOLEAN : z = FALSE /\ p = get_prev_alloc(h, b) /\ q = get_prev_16B(h, b)
  BY DEF get_prev_alloc, get_prev_16B, Bit
<1> DEFINE w == pack(size, z, p, q)
           big == size >= min_block_size
           h1 == put(h, b, w)
           f == b + size - 1
           h2 == IF big THEN put(h1, f, w) ELSE h1
           h3 == IF big THEN put(h2, b + 2, Pointer(NULL)) ELSE h1
           h4 == put(h3, b + 1, Pointer(NULL))
<1>1. /\ b \in Nat /\ size \in Nat /\ size >= 2 /\ size % 2 = 0 /\ Brk(h) \in Nat
      /\ b + size <= Brk(h) /\ (big <=> size >= 4)
  <2>1. b \in Nat /\ size \in Nat /\ size >= 2 /\ size % 2 = 0 /\ Brk(h) \in Nat
    BY TiledParts
  <2>2. b + get_size(h, b) \in H
    BY NextBlock
  <2>3. b + size <= Brk(h) - 1
    BY <2>2, TiledParts
  <2> QED
    BY <2>1, <2>3 DEF min_block_size
<1>2. /\ b \in Within(h) /\ b + 1 \in Within(h) /\ f \in Within(h) /\ (big => b + 2 \in Within(h))
  BY <1>1 DEF Within
<1>3. w \in WordValues /\ Pointer(NULL) \in WordValues /\ extract_size(w) = size /\ ~Bit(w, "alloc")
      /\ (Bit(w, "prev") <=> p) /\ (Bit(w, "prev_16B") <=> q)
  <2>1. /\ w \in WordValues /\ extract_size(w) = size /\ (Bit(w, "alloc") <=> z)
        /\ (Bit(w, "prev") <=> p) /\ (Bit(w, "prev_16B") <=> q)
    BY <1>1, Packed
  <2>2. Pointer(NULL) \in WordValues
    BY Pointed DEF NULL
  <2> QED
    BY <1>0, <2>1, <2>2
<1>4. Marked(h, b, size) = h4
  <2>1. pack(size, FALSE, get_prev_alloc(h, b), get_prev_16B(h, b)) = w
    BY <1>0
  <2>2. b + (size - wsize) = f
    BY <1>1 DEF wsize
  <2> HIDE DEF w, f
  <2> DEFINE k2 == PutIf(big, h1, f, w)
             k3 == PutIf(big, k2, b + 2, Pointer(NULL))
  <2>5. Marked(h, b, size) = put(k3, b + 1, Pointer(NULL))
    <3>1. prev_linknode(b) = b + 2 /\ next_linknode(b) = b + 1
      BY DEF prev_linknode, next_linknode, wsize
    <3>2. Marked(h, b, size) =
              put(PutIf(size >= min_block_size,
                        PutIf(size >= min_block_size,
                              put(h, b, pack(size, FALSE, get_prev_alloc(h, b), get_prev_16B(h, b))),
                              b + (size - wsize),
                              pack(size, FALSE, get_prev_alloc(h, b), get_prev_16B(h, b))),
                        prev_linknode(b), Pointer(NULL)),
                  next_linknode(b), Pointer(NULL))
      BY DEF Marked
    <3>3. Marked(h, b, size) =
              put(PutIf(size >= min_block_size,
                        PutIf(size >= min_block_size, put(h, b, w), f, w),
                        b + 2, Pointer(NULL)),
                  b + 1, Pointer(NULL))
      BY <2>1, <2>2, <3>1, <3>2
    <3> QED
      BY <3>3
  <2> HIDE DEF big, h1
  <2>3. CASE big
    <3>1. k2 = h2
      BY <2>3 DEF PutIf
    <3> HIDE DEF k2, h2
    <3>2. k3 = h3
      BY <2>3, <3>1 DEF PutIf
    <3> QED
      BY <2>5, <3>2
  <2>4. CASE ~big
    <3>1. k2 = h1
      BY <2>4 DEF PutIf
    <3> HIDE DEF k2
    <3>2. k3 = h3
      BY <2>4, <3>1 DEF PutIf
    <3> QED
      BY <2>5, <3>2
  <2> QED
    BY <2>3, <2>4
<1> HIDE DEF w, big, f
<1>5. /\ Wrote(h, h1) /\ Word(h1, b) = w
      /\ \A x : x # b => Word(h1, x) = Word(h, x)
  BY <1>2, <1>3, PutWithin
<1> HIDE DEF h1
<1>6. Memory(h1) /\ Within(h1) = Within(h)
  BY <1>5, Wrote2
<1>7. /\ Wrote(h1, h2) /\ (big => Word(h2, f) = w)
      /\ \A x : x # f => Word(h2, x) = Word(h1, x)
  <2>1. CASE big
    <3>1. h2 = put(h1, f, w)
      BY <2>1
    <3> HIDE DEF h2
    <3> QED
      BY <1>2, <1>3, <1>6, <3>1, PutWithin
  <2>2. CASE ~big
    BY <1>6, <2>2 DEF Wrote, Rewritten
  <2> QED
    BY <2>1, <2>2
<1> HIDE DEF h2
<1>8. Memory(h2) /\ Within(h2) = Within(h) /\ Wrote(h, h2)
  BY <1>5, <1>6, <1>7, Wrote2, WroteTwice
<1>9. /\ Wrote(h, h3) /\ (big => Word(h3, f) = w)
      /\ \A x : x # f /\ x # b + 2 => Word(h3, x) = Word(h1, x)
      /\ ~big => \A x : Word(h3, x) = Word(h1, x)
  <2>1. CASE big
    <3>1. h3 = put(h2, b + 2, Pointer(NULL)) /\ b + 2 \in Within(h2)
      BY <1>2, <1>8, <2>1
    <3> HIDE DEF h3
    <3>2. /\ Wrote(h2, h3) /\ \A x : x # b + 2 => Word(h3, x) = Word(h2, x)
      BY <1>3, <1>8, <3>1, PutWithin
    <3>3. f # b + 2
      BY <1>1, <2>1 DEF f
    <3>4. Wrote(h, h3)
      BY <1>8, <3>2, WroteTwice
    <3> QED
      BY <1>7, <2>1, <3>2, <3>3, <3>4
  <2>2. CASE ~big
    BY <1>5, <2>2
  <2> QED
    BY <2>1, <2>2
<1> HIDE DEF h3
<1>10. Memory(h3) /\ Within(h3) = Within(h)
  BY <1>9, Wrote2
<1>11. /\ Wrote(h3, h4) /\ \A x : x # b + 1 => Word(h4, x) = Word(h3, x)
  BY <1>2, <1>3, <1>10, PutWithin
<1> HIDE DEF h4
<1>12. Wrote(h, h4)
  BY <1>9, <1>11, WroteTwice
<1>13. Word(h4, b) = w
  <2>1. b # b + 1 /\ b # b + 2 /\ b # f
    BY <1>1 DEF f
  <2> QED
    BY <1>5, <1>9, <1>11, <2>1
<1>14. size >= 4 => Word(h4, f) = w
  <2>1. size >= 4 => f # b + 1
    BY <1>1 DEF f
  <2> QED
    BY <1>1, <1>9, <1>11, <2>1
<1>15. ASSUME NEW a \in Int, a < b \/ a >= b + size
       PROVE  Word(h4, a) = Word(h, a)
  <2>1. a # b /\ a # b + 1 /\ a # f /\ (big => a # b + 2)
    BY <1>1, <1>15 DEF f
  <2>2. Word(h4, a) = Word(h3, a)
    BY <1>11, <2>1
  <2>3. Word(h3, a) = Word(h1, a)
    BY <1>9, <2>1
  <2> QED
    BY <1>5, <2>1, <2>2, <2>3
<1>16. get_size(h4, b) = size /\ ~get_alloc(h4, b)
       /\ (get_prev_alloc(h4, b) <=> get_prev_alloc(h, b))
       /\ (get_prev_16B(h4, b) <=> get_prev_16B(h, b))
  BY <1>0, <1>3, <1>13 DEF get_size, get_alloc, get_prev_alloc, get_prev_16B
<1>17. Touched(h, h4, b, b)
  <2>1. /\ Memory(h4) /\ Brk(h4) = Brk(h) /\ h4.heap_start = h.heap_start
        /\ h4.strayed = h.strayed /\ h4.root_list = h.root_list
    BY <1>12, Wrote2
  <2>2. size >= 4 => Word(h4, b + size - 1) = Word(h4, b)
    BY <1>13, <1>14 DEF f
  <2> QED
    BY <1>15, <1>16, <2>1, <2>2 DEF Touched
<1> QED
  BY <1>4, <1>17

(* The client writes its payload. *)
LEMMA FilledIs ==
    ASSUME NEW h, NEW H, NEW b \in H, Memory(h), Tiled(h, H), get_alloc(h, b),
           NEW size \in Nat, size < get_size(h, b)
    PROVE  /\ Touched(h, Filled(h, b + 1, size), b, NULL)
           /\ \A a \in b + 1 .. b + size : Word(Filled(h, b + 1, size), a) = Data
<1> DEFINE m2 == [i \in DOMAIN h.mem |-> IF i - 1 \in b + 1 .. b + 1 + size - 1
                                         THEN Data ELSE h.mem[i]]
           r == [mem |-> m2, heap_start |-> h.heap_start,
                 root_list |-> h.root_list, strayed |-> h.strayed]
           s == get_size(h, b)
<1>1. /\ b \in Nat /\ s \in Nat /\ s >= 2 /\ Brk(h) \in Nat /\ b + s <= Brk(h)
  <2>1. b \in Nat /\ s \in Nat /\ s # 0 /\ s >= 2 /\ Brk(h) \in Nat
    BY TiledParts
  <2>2. b + get_size(h, b) \in H
    BY <2>1, NextBlock
  <2>3. b + s <= Brk(h) - 1
    BY <2>2, TiledParts
  <2> QED
    BY <2>1, <2>3
<1>2. h = [mem |-> h.mem, heap_start |-> h.heap_start,
           root_list |-> h.root_list, strayed |-> h.strayed]
      /\ h.mem \in Seq(WordValues) /\ h.heap_start \in Nat
      /\ h.root_list \in [Lists -> Nat] /\ h.strayed \in BOOLEAN /\ Brk(h) = Len(h.mem)
  BY DEF Memory, Brk
<1>3. Filled(h, b + 1, size) = r
  <2>1. Filled(h, b + 1, size) = [h EXCEPT !.mem = m2]
    BY <1>2 DEF Filled
  <2> HIDE DEF m2
  <2>2. [h EXCEPT !.mem = m2] = r
    BY <1>2
  <2> QED
    BY <2>1, <2>2
<1>4. DOMAIN h.mem = 1 .. Len(h.mem) /\ \A i \in 1 .. Len(h.mem) : h.mem[i] \in WordValues
  BY <1>2
<1>5. /\ m2 \in Seq(WordValues) /\ Len(m2) = Len(h.mem)
      /\ \A i \in 1 .. Len(h.mem) : m2[i] = IF i - 1 \in b + 1 .. b + size THEN Data ELSE h.mem[i]
  <2>1. Data \in WordValues
    BY DEF WordValues
  <2>2. b + 1 + size - 1 = b + size
    BY <1>1
  <2>3. m2 \in [1 .. Len(h.mem) -> WordValues]
    BY <1>4, <2>1
  <2>4. Len(h.mem) \in Nat
    BY <1>2
  <2>5. \A i \in 1 .. Len(h.mem) : m2[i] = IF i - 1 \in b + 1 .. b + size THEN Data ELSE h.mem[i]
    BY <1>4, <2>2
  <2> HIDE DEF m2
  <2> QED
    BY <2>3, <2>4, <2>5
<1> HIDE DEF m2
<1>6. r \in [mem : Seq(WordValues), heap_start : Nat, root_list : [Lists -> Nat], strayed : BOOLEAN]
      /\ r.mem = m2 /\ r.heap_start = h.heap_start /\ r.root_list = h.root_list
      /\ r.strayed = h.strayed
  BY <1>2, <1>5
<1> HIDE DEF r
<1>7. Memory(r) /\ Brk(r) = Brk(h)
  BY <1>2, <1>5, <1>6 DEF Memory, Brk
<1>8. ASSUME NEW a \in Int
      PROVE  Word(r, a) = IF a \in b + 1 .. b + size THEN Data ELSE Word(h, a)
  <2>1. CASE a \in 0 .. Brk(h) - 1
    <3>1. Word(r, a) = m2[a + 1] /\ Word(h, a) = h.mem[a + 1]
      BY <1>6, <1>7, <2>1 DEF Word
    <3>2. a + 1 \in 1 .. Len(h.mem) /\ (a + 1) - 1 = a
      BY <1>2, <2>1
    <3> QED
      BY <1>5, <3>1, <3>2
  <2>2. CASE a \notin 0 .. Brk(h) - 1
    <3>1. a \notin b + 1 .. b + size
      BY <1>1, <2>2
    <3> QED
      BY <1>7, <2>2, <3>1 DEF Word
  <2> QED
    BY <2>1, <2>2
<1>9. \A a \in Int : a < b \/ a >= b + s => Word(r, a) = Word(h, a)
  <2> TAKE a \in Int
  <2>1. a < b \/ a >= b + s => a \notin b + 1 .. b + size
    BY <1>1
  <2> QED
    BY <1>8, <2>1
<1>10. Word(r, b) = Word(h, b)
  <2>1. b \in Int /\ b \notin b + 1 .. b + size
    BY <1>1
  <2> QED
    BY <1>8, <2>1
<1>11. Touched(h, r, b, NULL)
  <2>1. /\ get_size(r, b) = get_size(h, b) /\ get_alloc(r, b)
        /\ get_prev_alloc(r, b) <=> get_prev_alloc(h, b)
        /\ get_prev_16B(r, b) <=> get_prev_16B(h, b)
    BY <1>10 DEF get_size, get_alloc, get_prev_alloc, get_prev_16B
  <2> QED
    BY <1>6, <1>7, <1>9, <2>1 DEF Touched
<1>12. \A a \in b + 1 .. b + size : Word(r, a) = Data
  <2>1. \A a \in b + 1 .. b + size : a \in Int
    BY <1>1
  <2> QED
    BY <1>8, <2>1
<1> QED
  BY <1>3, <1>11, <1>12

-----------------------------------------------------------------------------
(* split_block: a free block is taken, whole or in part. *)

(* The links of blocks outside a region are outside it. *)
LEMMA OutsideLinks ==
    ASSUME NEW h, NEW H, NEW N, NEW p \in H, NEW e \in H, Memory(h), Tiled(h, H), NEW m \in N,
           NEW a \in LinkWords(m, Outside(h, H, N, p, e)[m])
    PROVE  a \in Int /\ (a < p \/ a > e) /\ LinkWord(h, H, a)
<1> DEFINE T == Outside(h, H, N, p, e)[m]
<1>1. \A b \in T : b \in H /\ ~get_alloc(h, b) /\ Number(h, b) = m
  BY DEF Outside
<1>2. \A b \in T : b < p \/ b >= e
  BY DEF Outside
<1>3. a \in LinkWords(m, T)
  OBVIOUS
<1> HIDE DEF T
<1>4. LinkWord(h, H, a)
  BY <1>1, <1>3, LinksOfFree
<1>5. a # p
  BY <1>4, NotLink
<1>6. PICK b \in T : a = b + 1 \/ a = b + 2
  BY <1>3 DEF LinkWords
<1>7. b \in H /\ b \in Nat /\ p \in Nat /\ e \in Nat /\ (b < p \/ b >= e)
  BY <1>1, <1>2, TiledParts
<1>8. b < p => b + 2 <= p
  BY <1>7, BlocksApart
<1>9. a \in Int /\ (a < p \/ a > e)
  BY <1>5, <1>6, <1>7, <1>8
<1> QED
  BY <1>4, <1>9

(* d is h with the free block b out of its list, its header apart.         *)
Taken(h, H, N, d, b, e) ==
    /\ Memory(d) /\ Brk(d) = Brk(h) /\ d.heap_start = h.heap_start /\ d.strayed = h.strayed
    /\ SIZE - 1 \notin N => d.root_list[SIZE - 1] = h.root_list[SIZE - 1]
    /\ \A a \in Int : a # b => Word(d, a) = Word(h, a) \/ LinkWord(h, H, a)
    /\ get_prev_16B(d, b) <=> get_prev_16B(h, b)
    /\ Linked(d, N, Outside(h, H, N, b, e))

(* A free block to take, and where it ends. *)
Takes(h, H, N, b, e) ==
    /\ Sound(h, H, N, NULL)
    /\ b \in H /\ ~get_alloc(h, b) /\ get_size(h, b) # 0
    /\ e = b + get_size(h, b) /\ e \in H /\ get_alloc(h, e) /\ ~get_prev_alloc(h, e)
    /\ get_prev_16B(h, e) <=> get_size(h, b) = 2
    /\ get_prev_alloc(h, b)
    /\ Region(h, H, b, e, NULL)
    /\ b \in Nat /\ e \in Nat /\ b + 2 <= e /\ b % 2 = 1 /\ e % 2 = 1 /\ e < Brk(h) /\ Brk(h) \in Nat
    /\ \A f \in H : f < b \/ f >= e <=> f # b

(* A free block of a sound heap can be taken. *)
LEMMA TakesIs ==
    ASSUME NEW h, NEW H, NEW N, NEW b \in H, Sound(h, H, N, NULL), ~get_alloc(h, b)
    PROVE  Takes(h, H, N, b, b + get_size(h, b))
<1> DEFINE e == b + get_size(h, b)
<1>1. /\ Memory(h) /\ Tiled(h, H) /\ Tagged(h, H, NULL) /\ Preceded(h, H, N)
      /\ Started(h, H, N)
  BY DEF Sound
<1>2. b \in Nat /\ get_size(h, b) \in Nat /\ get_size(h, b) # 0 /\ \A f \in H : f # NULL
  BY <1>1, TiledParts DEF NULL
<1>3. e \in H
  BY <1>1, <1>2, NextBlock
<1>4. NextHeader(h, b) = e
  BY <1>2 DEF NextHeader
<1>5. get_alloc(h, e) /\ ~get_prev_alloc(h, e) /\ get_prev_alloc(h, b)
  BY <1>1, <1>2, <1>3, <1>4, FreeAlone
<1>6. get_prev_16B(h, e) <=> get_size(h, b) = 2
  BY <1>1, <1>2 DEF Tagged, Told
<1> HIDE DEF e
<1>7. Left(h, H, b, b) /\ Right(h, H, b, e, e)
  BY <1>3, <1>5 DEF Left, Right, e
<1>8. Region(h, H, b, e, b) /\ Spans(H, b, b, e, e)
  BY <1>1, <1>7, RegionOf
<1>9. Region(h, H, b, e, NULL)
  BY <1>8 DEF Region
<1>10. /\ e \in Nat /\ b + 2 <= e /\ b % 2 = 1 /\ e % 2 = 1
       /\ \A f \in H : f < b \/ f >= e <=> f # b
  BY <1>8 DEF Spans
<1>11. e < Brk(h) /\ Brk(h) \in Nat
  BY <1>1, <1>3, <1>10, TiledParts
<1> QED
  BY <1>2, <1>3, <1>5, <1>6, <1>9, <1>10, <1>11 DEF Takes, e

(* delete_node takes it out of its list. *)
LEMMA TakenIs ==
    ASSUME NEW h, NEW H, NEW N, NEW b, NEW e, Takes(h, H, N, b, e),
           NEW h0, Wrote(h, h0), \A a : a # b => Word(h0, a) = Word(h, a),
           get_size(h0, b) = get_size(h, b), get_prev_16B(h0, b) <=> get_prev_16B(h, b)
    PROVE  Taken(h, H, N, delete_node(h0, b), b, e)
<1> DEFINE S == Members(h, H, N, NULL)
           n == Number(h, b)
           d == delete_node(h0, b)
           S2 == [S EXCEPT ![n] = @ \ {b}]
<1>1. /\ Memory(h) /\ Tiled(h, H) /\ Filed(h, H, N, NULL) /\ b \in H /\ ~get_alloc(h, b)
      /\ \A f \in H : f < b \/ f >= e <=> f # b
  BY DEF Takes, Sound
<1>2. Linked(h, N, S) /\ n \in N /\ \A f \in H : f # NULL
  BY <1>1, TiledParts DEF Filed, NULL
<1>3. \A m \in N : \A f : f \in S[m] <=> f \in H /\ ~get_alloc(h, f) /\ Number(h, f) = m
  BY <1>2 DEF Members
<1>4. S = [m \in N |-> S[m]]
  BY DEF Members
<1>5. n = find_listnumber(get_size(h0, b)) /\ b \in S[n]
  BY <1>1, <1>2, <1>3 DEF Number
<1> HIDE DEF S, n
<1>6. /\ Memory(h0) /\ Brk(h0) = Brk(h) /\ h0.heap_start = h.heap_start
      /\ h0.root_list = h.root_list /\ h0.strayed = h.strayed
  BY Wrote2
<1>7. ASSUME NEW m, NEW T, \A f \in T : f \in S[m], m \in N, NEW a \in LinkWords(m, T)
      PROVE  LinkWord(h, H, a) /\ a # b
  <2>1. \A f \in T : f \in H /\ ~get_alloc(h, f) /\ Number(h, f) = m
    BY <1>3, <1>7
  <2>2. LinkWord(h, H, a)
    BY <1>1, <1>7, <2>1, LinksOfFree
  <2> QED
    BY <1>1, <2>2, NotLink
<1>8. Linked(h0, N, S)
  <2>1. \A m \in N : \A a \in LinkWords(m, S[m]) : Word(h0, a) = Word(h, a)
    BY <1>7
  <2>2. Brk(h0) >= Brk(h)
    BY <1>1, <1>6, MemoryParts
  <2> QED
    BY <1>1, <1>2, <1>6, <2>1, <2>2, LinkedStill
<1>9. Relinked(h0, d, n, S[n] \ {b}) /\ Linked(d, N, S2)
  BY <1>2, <1>5, <1>6, <1>8, Deleted
<1>10. \A m \in N : S2[m] = IF m = n THEN S[n] \ {b} ELSE S[m]
  BY <1>4
<1> HIDE DEF d, S2
<1>11. \A m \in N : \A f : f \in S2[m] <=>
              f \in H /\ ~get_alloc(h, f) /\ (f < b \/ f >= e) /\ Number(h, f) = m
  <2>1. \A m \in N : \A f : f \in S2[m] <=> f \in S[m] /\ f # b
    BY <1>1, <1>2, <1>3, <1>5, <1>10 DEF n
  <2> QED
    BY <1>1, <1>3, <2>1
<1>12. S2 = Outside(h, H, N, b, e)
  BY <1>9, <1>11, OutsideIs
<1>13. \A a : a \in LinkWords(n, S[n] \ {b}) => LinkWord(h, H, a) /\ a # b
  <2> DEFINE T == S[n] \ {b}
  <2>1. \A f \in T : f \in S[n]
    OBVIOUS
  <2> HIDE DEF T
  <2>2. \A a \in LinkWords(n, T) : LinkWord(h, H, a) /\ a # b
    BY <1>2, <1>7, <2>1
  <2> QED
    BY <2>2 DEF T
<1>14. \A a : a # b => Word(d, a) = Word(h, a) \/ LinkWord(h, H, a)
  BY <1>9, <1>13 DEF Relinked
<1>15. get_prev_16B(d, b) <=> get_prev_16B(h, b)
  <2>1. Word(d, b) = Word(h0, b)
    BY <1>9, <1>13 DEF Relinked
  <2> QED
    BY <2>1 DEF get_prev_16B
<1>16. SIZE - 1 \notin N => d.root_list[SIZE - 1] = h.root_list[SIZE - 1]
  <2>1. SIZE - 1 \in Lists
    BY HeapAssumption DEF Lists, SIZE
  <2> QED
    BY <1>2, <1>6, <1>9, <2>1 DEF Relinked
<1>17. Memory(d) /\ Brk(d) = Brk(h) /\ d.heap_start = h.heap_start /\ d.strayed = h.strayed
  BY <1>6, <1>9 DEF Relinked
<1> QED
  BY <1>9, <1>12, <1>14, <1>15, <1>16, <1>17 DEF Taken, d

(* b is allocated, of at least that size, and new among the allocated.     *)
Allots(h, H, N, r, b, asize) ==
    \E H2 : /\ Sound(r, H2, N, NULL) /\ Keeps(h, H, r, H2, b)
            /\ b \in H2 /\ get_alloc(r, b) /\ get_size(r, b) >= asize /\ Brk(r) = Brk(h)

(* What Recasted needs of a heap in which b and what follows it are new.   *)
LEMMA TakenRecast ==
    ASSUME NEW h, NEW H, NEW N, NEW b, NEW e, Takes(h, H, N, b, e),
           NEW r, NEW New, NEW S2, NewBlocks(h, r, b, e, New, b), Elsewhere(h, H, r, b, e),
           SIZE - 1 \notin N => r.root_list[SIZE - 1] = h.root_list[SIZE - 1],
           \A f \in New : ~get_alloc(r, f) => Number(r, f) \in N,
           Linked(r, N, S2),
           \A n \in N : S2[n] = Outside(h, H, N, b, e)[n] \cup FreeAmong(r, New, n),
           NEW asize, get_size(r, b) >= asize, get_alloc(r, b)
    PROVE  Allots(h, H, N, r, b, asize)
<1>1. /\ Memory(h) /\ ~h.strayed /\ Tiled(h, H) /\ Tagged(h, H, NULL) /\ Preceded(h, H, N)
      /\ Started(h, H, N) /\ Filed(h, H, N, NULL) /\ Region(h, H, b, e, NULL)
  BY DEF Takes, Sound
<1>2. \A f \in H : ~get_alloc(h, f) /\ (f < b \/ f >= e) => Number(h, f) \in N
  <2>1. \A f \in H : f # NULL
    BY <1>1, TiledParts DEF NULL
  <2> QED
    BY <1>1, <2>1 DEF Filed
<1>3. /\ Sound(r, Recast(H, b, e, New), N, NULL)
      /\ Keeps(h, H, r, Recast(H, b, e, New), b)
  BY <1>1, <1>2, Recasted
<1>4. b \in Recast(H, b, e, New) /\ Brk(r) = Brk(h)
  BY DEF Recast, NewBlocks, Elsewhere
<1> QED
  BY <1>3, <1>4 DEF Allots

(* A block that is taken whole. *)
LEMMA TakeAllIs ==
    ASSUME NEW h, NEW H, NEW N, NEW b, NEW e, Takes(h, H, N, b, e),
           NEW d, Taken(h, H, N, d, b, e), NEW size, size = get_size(h, b),
           NEW asize \in Nat, size >= asize
    PROVE  Allots(h, H, N, TakeAll(d, b, size), b, asize)
<1>0. PICK t, q \in BOOLEAN : t = TRUE /\ q = get_prev_16B(d, b)
  BY DEF get_prev_16B, Bit
<1> DEFINE w == pack(size, t, t, q)
           d1 == put(d, b, w)
           r == set_prev_alloc(d1, e, t)
           O == Outside(h, H, N, b, e)
<1>1. /\ b \in H /\ e \in H /\ ~get_alloc(h, b) /\ get_size(h, b) # 0
      /\ e = b + size /\ get_alloc(h, e) /\ ~get_prev_alloc(h, e)
      /\ get_prev_16B(h, e) <=> size = 2
      /\ get_prev_alloc(h, b) /\ Memory(h) /\ Tiled(h, H) /\ ~h.strayed
      /\ b \in Nat /\ e \in Nat /\ b + 2 <= e /\ b % 2 = 1 /\ e < Brk(h) /\ Brk(h) \in Nat
      /\ size \in Nat /\ size % 2 = 0
  <2>1. b \in H /\ Memory(h) /\ Tiled(h, H)
    BY DEF Takes, Sound
  <2>2. get_size(h, b) \in Nat /\ get_size(h, b) % 2 = 0
    BY <2>1, TiledParts
  <2> QED
    BY <2>2 DEF Takes, Sound
<1>2. /\ Memory(d) /\ Brk(d) = Brk(h) /\ d.heap_start = h.heap_start /\ d.strayed = h.strayed
      /\ SIZE - 1 \notin N => d.root_list[SIZE - 1] = h.root_list[SIZE - 1]
      /\ \A a \in Int : a # b => Word(d, a) = Word(h, a) \/ LinkWord(h, H, a)
      /\ get_prev_16B(d, b) <=> get_prev_16B(h, b)
      /\ Linked(d, N, O)
  BY DEF Taken
<1>3. TakeAll(d, b, size) = r
  <2>1. write_header(d, b, size, TRUE, TRUE, get_prev_16B(d, b)) = d1
    BY <1>0 DEF write_header
  <2>2. b + size = e
    BY <1>1
  <2> HIDE DEF d1
  <2> QED
    BY <1>0, <2>1, <2>2 DEF TakeAll
<1>4. w \in WordValues /\ extract_size(w) = size /\ Bit(w, "alloc") /\ Bit(w, "prev")
      /\ (Bit(w, "prev_16B") <=> q)
  <2>1. /\ w \in WordValues /\ extract_size(w) = size /\ (Bit(w, "alloc") <=> t)
        /\ (Bit(w, "prev") <=> t) /\ (Bit(w, "prev_16B") <=> q)
    BY <1>1, Packed
  <2> QED
    BY <1>0, <2>1
<1> HIDE DEF w
<1>5. b \in Within(d) /\ e \in Within(d) /\ b # e
  BY <1>1, <1>2 DEF Within
<1>6. /\ Wrote(d, d1) /\ Word(d1, b) = w
      /\ \A x : x # b => Word(d1, x) = Word(d, x)
  BY <1>2, <1>4, <1>5, PutWithin
<1> HIDE DEF d1
<1>7. Memory(d1) /\ e \in Within(d1)
  BY <1>5, <1>6, Wrote2
<1>8. /\ Wrote(d1, r)
      /\ \A x : x # e => Word(r, x) = Word(d1, x)
      /\ get_size(r, e) = get_size(d1, e)
      /\ get_alloc(r, e) <=> get_alloc(d1, e)
      /\ get_prev_alloc(r, e) <=> t
      /\ get_prev_16B(r, e) <=> get_prev_16B(d1, e)
  BY <1>7, SetPrevAlloc
<1> HIDE DEF r, O
<1>9. Wrote(d, r)
  BY <1>6, <1>8, WroteTwice
<1>10. /\ Memory(r) /\ Brk(r) = Brk(h) /\ r.heap_start = h.heap_start /\ r.strayed = h.strayed
       /\ r.root_list = d.root_list
  BY <1>2, <1>9, Wrote2
<1>11. Word(d1, e) = Word(h, e)
  <2>1. ~LinkWord(h, H, e) /\ e \in Int
    BY <1>1, NotLink
  <2> QED
    BY <1>2, <1>5, <1>6, <2>1
<1>12. /\ get_size(r, e) = get_size(h, e) /\ get_alloc(r, e) /\ get_prev_alloc(r, e)
       /\ get_prev_16B(r, e) <=> size = 2
  BY <1>0, <1>1, <1>8, <1>11 DEF get_size, get_alloc, get_prev_16B
<1>13. Word(r, b) = w
  BY <1>5, <1>6, <1>8
<1>14. /\ get_size(r, b) = size /\ get_alloc(r, b) /\ get_prev_alloc(r, b)
       /\ get_prev_16B(r, b) <=> get_prev_16B(h, b)
  BY <1>0, <1>2, <1>4, <1>13 DEF get_size, get_alloc, get_prev_alloc, get_prev_16B
<1>15. Told(r, b, NULL)
  BY <1>1, <1>12, <1>14 DEF Told
<1>16. NewBlocks(h, r, b, e, {b}, b)
  <2>1. b \in b .. e - 1 /\ b >= b
    BY <1>1
  <2> QED
    BY <1>1, <1>14, <1>15, <2>1 DEF NewBlocks
<1>17. ASSUME NEW a \in Int, a < b \/ a > e
       PROVE  Word(r, a) = Word(h, a) \/ LinkWord(h, H, a)
  <2>1. a # b /\ a # e
    BY <1>1, <1>17
  <2> QED
    BY <1>2, <1>6, <1>8, <2>1
<1>18. Elsewhere(h, H, r, b, e)
  BY <1>10, <1>12, <1>17 DEF Elsewhere
<1>19. Linked(r, N, O)
  <2>1. ASSUME NEW m \in N, NEW a \in LinkWords(m, O[m])
        PROVE  Word(r, a) = Word(d, a)
    <3>1. a \in Int /\ (a < b \/ a > e)
      BY <1>1, <2>1, OutsideLinks DEF O
    <3>2. a # b /\ a # e
      BY <1>1, <3>1
    <3> QED
      BY <1>6, <1>8, <3>2
  <2>2. Brk(r) >= Brk(d)
    BY <1>1, <1>2, <1>10
  <2> QED
    BY <1>2, <1>10, <2>1, <2>2, LinkedStill
<1>20. \A n \in N : O[n] = Outside(h, H, N, b, e)[n] \cup FreeAmong(r, {b}, n)
  BY <1>14 DEF O, FreeAmong
<1>21. Allots(h, H, N, r, b, asize)
  <2> DEFINE New == {b}
  <2>1. /\ NewBlocks(h, r, b, e, New, b)
        /\ \A f \in New : ~get_alloc(r, f) => Number(r, f) \in N
        /\ \A n \in N : O[n] = Outside(h, H, N, b, e)[n] \cup FreeAmong(r, New, n)
    BY <1>14, <1>16, <1>20
  <2> HIDE DEF New
  <2>2. get_size(r, b) >= asize /\ get_alloc(r, b)
    BY <1>14
  <2>3. SIZE - 1 \notin N => r.root_list[SIZE - 1] = h.root_list[SIZE - 1]
    BY <1>2, <1>10
  <2> QED
    BY <1>18, <1>19, <2>1, <2>2, <2>3, TakenRecast
<1> QED
  BY <1>3, <1>21

(* Tell16B changes at most one bit of a header. *)
LEMMA Tell16BIs ==
    ASSUME NEW h, Memory(h), NEW e \in Within(h), NEW size, NEW r, r = Tell16B(h, e, size)
    PROVE  /\ Wrote(h, r)
           /\ \A x : x # e => Word(r, x) = Word(h, x)
           /\ get_size(r, e) = get_size(h, e)
           /\ get_alloc(r, e) <=> get_alloc(h, e)
           /\ get_prev_alloc(r, e) <=> get_prev_alloc(h, e)
           /\ get_prev_16B(r, e) <=> get_prev_16B(h, e) \/ size = 2
<1>0. PICK t \in BOOLEAN : t = TRUE
  OBVIOUS
<1>1. CASE size = 2
  <2>1. r = set_prev_16B(h, e, t)
    BY <1>0, <1>1 DEF Tell16B, dsize
  <2> DEFINE r2 == set_prev_16B(h, e, t)
  <2>2. /\ Wrote(h, r2)
        /\ \A x : x # e => Word(r2, x) = Word(h, x)
        /\ get_size(r2, e) = get_size(h, e)
        /\ get_alloc(r2, e) <=> get_alloc(h, e)
        /\ get_prev_alloc(r2, e) <=> get_prev_alloc(h, e)
        /\ get_prev_16B(r2, e) <=> t
    BY SetPrev16B
  <2>3. r = r2
    BY <2>1
  <2> HIDE DEF r2
  <2> QED
    BY <1>0, <1>1, <2>2, <2>3
<1>2. CASE size # 2
  <2>1. r = h
    BY <1>2 DEF Tell16B, dsize
  <2> QED
    BY <1>2, <2>1 DEF Wrote, Rewritten
<1> QED
  BY <1>1, <1>2

(* WroteFree, of a heap with a name. *)
LEMMA FreeWritten ==
    ASSUME NEW h, Memory(h), NEW b \in Nat, NEW size \in Nat, size >= 2, b + size <= Brk(h),
           NEW p \in BOOLEAN, NEW q \in BOOLEAN, NEW r, r = WriteFree(h, b, size, p, q)
    PROVE  /\ Wrote(h, r)
           /\ FreeAt(r, b, size, p, q)
           /\ \A x : x # b /\ x # b + size - 1 => Word(r, x) = Word(h, x)
BY WroteFree

(* What TakePart has written before it inserts the rest.                   *)
Parted(h, H, N, d3, b, rest, e, asize, next_size) ==
    /\ Memory(d3) /\ Brk(d3) = Brk(h) /\ d3.heap_start = h.heap_start /\ d3.strayed = h.strayed
    /\ SIZE - 1 \notin N => d3.root_list[SIZE - 1] = h.root_list[SIZE - 1]
    /\ \A a \in Int : a < b \/ a > e => Word(d3, a) = Word(h, a) \/ LinkWord(h, H, a)
    /\ Linked(d3, N, Outside(h, H, N, b, e))
    /\ get_size(d3, b) = asize /\ get_alloc(d3, b) /\ get_prev_alloc(d3, b)
    /\ get_prev_16B(d3, b) <=> get_prev_16B(h, b)
    /\ get_size(d3, rest) = next_size /\ ~get_alloc(d3, rest) /\ get_prev_alloc(d3, rest)
    /\ get_prev_16B(d3, rest) <=> asize = 2
    /\ next_size >= 4 => Word(d3, e - 1) = Word(d3, rest)
    /\ get_size(d3, e) = get_size(h, e) /\ get_alloc(d3, e) /\ ~get_prev_alloc(d3, e)
    /\ get_prev_16B(d3, e) <=> next_size = 2

(* The part of a block to take, and the rest. *)
Parts(b, rest, e, size, asize, next_size) ==
    /\ b \in Nat /\ rest \in Nat /\ e \in Nat
    /\ size \in Nat /\ asize \in Nat /\ next_size \in Nat
    /\ rest = b + asize /\ e = rest + next_size /\ e = b + size
    /\ asize >= 2 /\ next_size >= 2 /\ asize % 2 = 0 /\ next_size % 2 = 0
    /\ b % 2 = 1 /\ rest % 2 = 1 /\ size % 2 = 0

(* t is TRUE, and q2 tells whether a block of that size has 16 bytes.      *)
Bits(t, q2, size) == t = TRUE /\ (q2 <=> size = 2)

(* TakePart writes that. *)
LEMMA PartedIs ==
    ASSUME NEW h, NEW H, NEW N, NEW b, NEW e, Takes(h, H, N, b, e),
           NEW d, Taken(h, H, N, d, b, e), NEW rest, NEW asize, NEW next_size,
           Parts(b, rest, e, get_size(h, b), asize, next_size),
           NEW t \in BOOLEAN, NEW q \in BOOLEAN, q <=> get_prev_16B(d, b),
           NEW q2 \in BOOLEAN, Bits(t, q2, asize)
    PROVE  Parted(h, H, N, Tell16B(WriteFree(put(d, b, pack(asize, t, t, q)),
                                             rest, next_size, t, q2),
                                   e, next_size),
                  b, rest, e, asize, next_size)
<1> DEFINE w == pack(asize, t, t, q)
           d1 == put(d, b, w)
           d2 == WriteFree(d1, rest, next_size, t, q2)
           d3 == Tell16B(d2, e, next_size)
           O == Outside(h, H, N, b, e)
           f == rest + next_size - 1
<1>1. /\ b \in H /\ e \in H /\ ~get_alloc(h, b)
      /\ get_alloc(h, e) /\ ~get_prev_alloc(h, e)
      /\ get_prev_16B(h, e) <=> get_size(h, b) = 2
      /\ Memory(h) /\ Tiled(h, H)
      /\ e < Brk(h) /\ Brk(h) \in Nat
  BY DEF Takes, Sound
<1>2. /\ b \in Nat /\ rest \in Nat /\ e \in Nat /\ asize \in Nat /\ next_size \in Nat
      /\ rest = b + asize /\ e = rest + next_size /\ e = b + get_size(h, b)
      /\ asize >= 2 /\ next_size >= 2 /\ asize % 2 = 0 /\ next_size % 2 = 0
      /\ get_size(h, b) \in Nat
  BY DEF Parts
<1>3. /\ Memory(d) /\ Brk(d) = Brk(h) /\ d.heap_start = h.heap_start /\ d.strayed = h.strayed
      /\ SIZE - 1 \notin N => d.root_list[SIZE - 1] = h.root_list[SIZE - 1]
      /\ \A a \in Int : a # b => Word(d, a) = Word(h, a) \/ LinkWord(h, H, a)
      /\ get_prev_16B(d, b) <=> get_prev_16B(h, b)
      /\ Linked(d, N, O)
  BY DEF Taken
<1>4. w \in WordValues /\ extract_size(w) = asize /\ Bit(w, "alloc") /\ Bit(w, "prev")
      /\ (Bit(w, "prev_16B") <=> q)
  <2>1. /\ w \in WordValues /\ extract_size(w) = asize /\ (Bit(w, "alloc") <=> t)
        /\ (Bit(w, "prev") <=> t) /\ (Bit(w, "prev_16B") <=> q)
    BY <1>2, Packed
  <2> QED
    BY <2>1 DEF Bits
<1> HIDE DEF w
<1>5. b \in Within(d) /\ e \in Within(d) /\ f = e - 1
  BY <1>1, <1>2, <1>3 DEF Within
<1> HIDE DEF O, f
<1>6. /\ Wrote(d, d1) /\ Word(d1, b) = w
      /\ \A x : x # b => Word(d1, x) = Word(d, x)
  BY <1>3, <1>4, <1>5, PutWithin
<1> HIDE DEF d1
<1>7. Memory(d1) /\ Brk(d1) = Brk(h)
  BY <1>3, <1>6, Wrote2
<1>8. /\ Wrote(d1, d2)
      /\ FreeAt(d2, rest, next_size, t, q2)
      /\ \A x : x # rest /\ x # rest + next_size - 1 => Word(d2, x) = Word(d1, x)
  <2> DEFINE s == d2
  <2>1. s = WriteFree(d1, rest, next_size, t, q2)
    OBVIOUS
  <2> HIDE DEF s
  <2>2. Memory(d1) /\ rest \in Nat /\ next_size \in Nat /\ next_size >= 2 /\ rest + next_size <= Brk(d1)
    BY <1>1, <1>2, <1>7
  <2>3. /\ Wrote(d1, s)
        /\ FreeAt(s, rest, next_size, t, q2)
        /\ \A x : x # rest /\ x # rest + next_size - 1 => Word(s, x) = Word(d1, x)
    BY <2>1, <2>2, FreeWritten
  <2> QED
    BY <2>3 DEF s
<1>9. \A x : x # rest /\ x # f => Word(d2, x) = Word(d1, x)
  BY <1>8 DEF f
<1> HIDE DEF d2
<1>10. Memory(d2) /\ e \in Within(d2)
  <2>1. Within(d2) = Within(d)
    BY <1>6, <1>8, Wrote2
  <2> QED
    BY <1>5, <1>8, <2>1, Wrote2
<1>11. /\ Wrote(d2, d3)
       /\ \A x : x # e => Word(d3, x) = Word(d2, x)
       /\ get_size(d3, e) = get_size(d2, e)
       /\ get_alloc(d3, e) <=> get_alloc(d2, e)
       /\ get_prev_alloc(d3, e) <=> get_prev_alloc(d2, e)
       /\ get_prev_16B(d3, e) <=> get_prev_16B(d2, e) \/ next_size = 2
  <2> DEFINE s == d3
  <2>1. s = Tell16B(d2, e, next_size)
    OBVIOUS
  <2> HIDE DEF s
  <2>2. /\ Wrote(d2, s)
        /\ \A x : x # e => Word(s, x) = Word(d2, x)
        /\ get_size(s, e) = get_size(d2, e)
        /\ get_alloc(s, e) <=> get_alloc(d2, e)
        /\ get_prev_alloc(s, e) <=> get_prev_alloc(d2, e)
        /\ get_prev_16B(s, e) <=> get_prev_16B(d2, e) \/ next_size = 2
    BY <1>10, <2>1, Tell16BIs
  <2> QED
    BY <2>2 DEF s
<1> HIDE DEF d3
<1>12. Wrote(d, d3)
  <2>1. Wrote(d, d2)
    BY <1>6, <1>8, WroteTwice
  <2> QED
    BY <1>11, <2>1, WroteTwice
<1>13. /\ Memory(d3) /\ Brk(d3) = Brk(h) /\ d3.heap_start = h.heap_start /\ d3.strayed = h.strayed
       /\ d3.root_list = d.root_list
  BY <1>3, <1>12, Wrote2
<1>14. b # rest /\ b # f /\ b # e /\ rest # e /\ f # e /\ f = e - 1
  BY <1>2, <1>5
<1>15. Word(d3, b) = w
  BY <1>6, <1>9, <1>11, <1>14
<1>16. /\ get_size(d3, b) = asize /\ get_alloc(d3, b) /\ get_prev_alloc(d3, b)
       /\ get_prev_16B(d3, b) <=> get_prev_16B(h, b)
  BY <1>3, <1>4, <1>15 DEF get_size, get_alloc, get_prev_alloc, get_prev_16B
<1>17. /\ get_size(d2, rest) = next_size /\ ~get_alloc(d2, rest) /\ get_prev_alloc(d2, rest)
       /\ get_prev_16B(d2, rest) <=> asize = 2
       /\ Word(d2, f) = Word(d2, rest)
  BY <1>8 DEF FreeAt, f, Bits
<1>18. Word(d3, rest) = Word(d2, rest) /\ Word(d3, f) = Word(d2, f)
  BY <1>11, <1>14
<1>19. /\ get_size(d3, rest) = next_size /\ ~get_alloc(d3, rest) /\ get_prev_alloc(d3, rest)
       /\ get_prev_16B(d3, rest) <=> asize = 2
       /\ Word(d3, e - 1) = Word(d3, rest)
  BY <1>14, <1>17, <1>18 DEF get_size, get_alloc, get_prev_alloc, get_prev_16B
<1>20. Word(d2, e) = Word(h, e)
  <2>1. ~LinkWord(h, H, e) /\ e \in Int
    BY <1>1, <1>2, NotLink
  <2> QED
    BY <1>3, <1>6, <1>9, <1>14, <2>1
<1>21. /\ get_size(d3, e) = get_size(h, e) /\ get_alloc(d3, e) /\ ~get_prev_alloc(d3, e)
       /\ get_prev_16B(d3, e) <=> next_size = 2
  <2>1. get_size(h, b) # 2
    BY <1>2
  <2> QED
    BY <1>1, <1>11, <1>20, <2>1 DEF get_size, get_alloc, get_prev_alloc, get_prev_16B
<1>22. \A x \in Int : x < b \/ x > e => Word(d3, x) = Word(d, x)
  <2> TAKE x \in Int
  <2> HAVE x < b \/ x > e
  <2>1. x # b /\ x # rest /\ x # f /\ x # e
    BY <1>2, <1>5
  <2> QED
    BY <1>6, <1>9, <1>11, <2>1
<1>23. \A a \in Int : a < b \/ a > e => Word(d3, a) = Word(h, a) \/ LinkWord(h, H, a)
  <2> TAKE a \in Int
  <2> HAVE a < b \/ a > e
  <2>1. a # b
    BY <1>2
  <2> QED
    BY <1>3, <1>22, <2>1
<1>24. Linked(d3, N, O)
  <2>1. ASSUME NEW m \in N, NEW a \in LinkWords(m, O[m])
        PROVE  Word(d3, a) = Word(d, a)
    <3>1. a \in Int /\ (a < b \/ a > e)
      BY <1>1, <2>1, OutsideLinks DEF O
    <3> QED
      BY <1>22, <3>1
  <2>2. Brk(d3) >= Brk(d)
    BY <1>1, <1>3, <1>13
  <2> QED
    BY <1>3, <1>13, <2>1, <2>2, LinkedStill
<1>25. SIZE - 1 \notin N => d3.root_list[SIZE - 1] = h.root_list[SIZE - 1]
  BY <1>3, <1>13
<1>26. Parted(h, H, N, d3, b, rest, e, asize, next_size)
  BY <1>13, <1>16, <1>19, <1>21, <1>23, <1>24, <1>25 DEF Parted, O
<1> QED
  BY <1>26 DEF d3, d2, d1, w

(* The rest after a part was taken goes to a list that holds blocks.       *)
LEMMA RestNumber ==
    ASSUME NEW h, NEW H, NEW N, NEW b, NEW e, Takes(h, H, N, b, e), NEW next_size \in Nat,
           next_size <= get_size(h, b)
    PROVE  find_listnumber(next_size) \in N
<1> DEFINE m == find_listnumber(next_size)
           n == find_listnumber(get_size(h, b))
<1>1. b \in H /\ ~get_alloc(h, b) /\ Tiled(h, H) /\ Memory(h)
      /\ Started(h, H, N) /\ Filed(h, H, N, NULL)
  BY DEF Takes, Sound
<1>2. get_size(h, b) \in Nat /\ b # NULL
  BY <1>1, TiledParts DEF NULL
<1>3. n \in N
  BY <1>1, <1>2 DEF Filed, Number
<1>4. m \in Lists /\ n \in Lists /\ m <= n
  BY <1>2, ListNumber
<1>5. SIZE \in Nat
  BY HeapAssumption DEF SIZE
<1> HIDE DEF m, n
<1>6. N = Lists \/ N = Lists \ {SIZE - 1}
  BY <1>1 DEF Started
<1>7. m \in N
  <2>1. CASE N = Lists
    BY <1>4, <2>1
  <2>2. CASE N = Lists \ {SIZE - 1}
    <3>1. n # SIZE - 1
      BY <1>3, <2>2
    <3>2. m # SIZE - 1
      BY <1>4, <1>5, <3>1 DEF Lists
    <3> QED
      BY <1>4, <2>2, <3>2
  <2> QED
    BY <1>6, <2>1, <2>2
<1> QED
  BY <1>7 DEF m

(* The rest enters its list, and the heap is sound. *)
LEMMA PartedRest ==
    ASSUME NEW h, NEW H, NEW N, NEW b, NEW e, Takes(h, H, N, b, e),
           NEW d3, NEW rest, NEW asize, NEW next_size,
           Parts(b, rest, e, get_size(h, b), asize, next_size),
           Parted(h, H, N, d3, b, rest, e, asize, next_size)
    PROVE  Allots(h, H, N, insert_node(d3, rest), b, asize)
<1> DEFINE O == Outside(h, H, N, b, e)
           n == find_listnumber(next_size)
           r == insert_node(d3, rest)
           S2 == [O EXCEPT ![n] = @ \cup {rest}]
           T == O[n] \cup {rest}
<1>1. /\ b \in H /\ e \in H /\ ~get_alloc(h, b) /\ get_alloc(h, e) /\ get_prev_alloc(h, b)
      /\ Memory(h) /\ Tiled(h, H) /\ Linked(d3, N, O)
      /\ e < Brk(h) /\ Brk(h) \in Nat
  BY DEF Takes, Sound, Parted
<1>2. /\ b \in Nat /\ rest \in Nat /\ e \in Nat /\ asize \in Nat /\ next_size \in Nat
      /\ rest = b + asize /\ e = rest + next_size /\ e = b + get_size(h, b)
      /\ asize >= 2 /\ next_size >= 2 /\ asize % 2 = 0 /\ next_size % 2 = 0
      /\ b % 2 = 1 /\ rest % 2 = 1 /\ get_size(h, b) \in Nat
  BY DEF Parts
<1>3. /\ Memory(d3) /\ Brk(d3) = Brk(h) /\ d3.heap_start = h.heap_start /\ d3.strayed = h.strayed
      /\ SIZE - 1 \notin N => d3.root_list[SIZE - 1] = h.root_list[SIZE - 1]
      /\ \A a \in Int : a < b \/ a > e => Word(d3, a) = Word(h, a) \/ LinkWord(h, H, a)
      /\ get_size(d3, b) = asize /\ get_alloc(d3, b) /\ get_prev_alloc(d3, b)
      /\ get_prev_16B(d3, b) <=> get_prev_16B(h, b)
      /\ get_size(d3, rest) = next_size /\ ~get_alloc(d3, rest) /\ get_prev_alloc(d3, rest)
      /\ get_prev_16B(d3, rest) <=> asize = 2
      /\ next_size >= 4 => Word(d3, e - 1) = Word(d3, rest)
      /\ get_size(d3, e) = get_size(h, e) /\ get_alloc(d3, e) /\ ~get_prev_alloc(d3, e)
      /\ get_prev_16B(d3, e) <=> next_size = 2
  BY DEF Parted
<1>4. n \in N
  <2>1. next_size <= get_size(h, b)
    BY <1>2
  <2> QED
    BY <1>2, <2>1, RestNumber
<1>5. n # 0 => next_size >= 4
  <2>1. n # 0 => ~(next_size <= 2)
    BY <1>2, ListNumber DEF dsize
  <2> QED
    BY <1>2, <2>1
<1>6. Node(d3, n, rest)
  <2>1. rest + 1 < Brk(h) /\ (next_size >= 4 => rest + 2 < Brk(h))
    BY <1>1, <1>2
  <2> QED
    BY <1>2, <1>3, <1>5, <2>1 DEF Node
<1>7. \A m \in N : rest \notin O[m]
  <2>1. ~(rest < b \/ rest >= e)
    BY <1>2
  <2> QED
    BY <2>1 DEF Outside
<1>8. O = [m \in N |-> O[m]]
  BY DEF Outside
<1>9. \A a \in LinkWords(n, O[n]) : a \in Int /\ (a < b \/ a > e) /\ LinkWord(h, H, a)
  BY <1>1, <1>4, OutsideLinks
<1>10. \A m \in N : O[m] = Outside(h, H, N, b, e)[m]
  OBVIOUS
<1> HIDE DEF O
<1>11. n = find_listnumber(get_size(d3, rest))
  BY <1>3
<1> HIDE DEF n
<1>12. Relinked(d3, r, n, T) /\ Linked(r, N, S2)
  BY <1>1, <1>3, <1>4, <1>6, <1>7, <1>11, Inserted
<1>13. \A m \in N : S2[m] = IF m = n THEN O[m] \cup {rest} ELSE O[m]
  BY <1>4, <1>8
<1> HIDE DEF r, S2
<1>14. \A a : a \in LinkWords(n, T) <=> a \in LinkWords(n, O[n]) \/ a = rest + 1 \/ (n # 0 /\ a = rest + 2)
  BY DEF LinkWords
<1>15. /\ Memory(r) /\ Brk(r) = Brk(h) /\ r.heap_start = h.heap_start /\ r.strayed = h.strayed
       /\ \A m \in Lists : m # n => r.root_list[m] = d3.root_list[m]
       /\ \A a : a \notin LinkWords(n, T) => Word(r, a) = Word(d3, a)
  BY <1>3, <1>12 DEF Relinked
<1> HIDE DEF T
<1>16. ASSUME NEW a \in Int, b <= a, a <= e, a # rest + 1, n # 0 => a # rest + 2
       PROVE  Word(r, a) = Word(d3, a)
  <2>1. ~(a < b \/ a > e)
    BY <1>2, <1>16
  <2>2. a \notin LinkWords(n, T)
    BY <1>9, <1>14, <1>16, <2>1
  <2> QED
    BY <1>15, <2>2
<1>17. /\ Word(r, b) = Word(d3, b) /\ Word(r, rest) = Word(d3, rest) /\ Word(r, e) = Word(d3, e)
       /\ next_size >= 4 => Word(r, e - 1) = Word(d3, e - 1)
  <2>1. b \in Int /\ b <= b /\ b <= e /\ b # rest + 1 /\ b # rest + 2
    BY <1>2
  <2>2. rest \in Int /\ b <= rest /\ rest <= e /\ rest # rest + 1 /\ rest # rest + 2
    BY <1>2
  <2>3. e \in Int /\ b <= e /\ e <= e /\ e # rest + 1 /\ (n # 0 => e # rest + 2)
    BY <1>2, <1>5
  <2>4. next_size >= 4 => e - 1 \in Int /\ b <= e - 1 /\ e - 1 <= e /\ e - 1 # rest + 1 /\ e - 1 # rest + 2
    BY <1>2
  <2> QED
    BY <1>16, <2>1, <2>2, <2>3, <2>4
<1>18. /\ get_size(r, b) = asize /\ get_alloc(r, b) /\ get_prev_alloc(r, b)
       /\ get_prev_16B(r, b) <=> get_prev_16B(h, b)
       /\ get_size(r, rest) = next_size /\ ~get_alloc(r, rest) /\ get_prev_alloc(r, rest)
       /\ get_prev_16B(r, rest) <=> asize = 2
       /\ next_size >= 4 => Word(r, e - 1) = Word(r, rest)
       /\ get_size(r, e) = get_size(h, e) /\ get_alloc(r, e) /\ ~get_prev_alloc(r, e)
       /\ get_prev_16B(r, e) <=> next_size = 2
  BY <1>3, <1>17 DEF get_size, get_alloc, get_prev_alloc, get_prev_16B
<1>19. Told(r, b, NULL) /\ Told(r, rest, NULL)
  BY <1>2, <1>18 DEF Told
<1> DEFINE New == {b, rest}
<1>20. NewBlocks(h, r, b, e, New, b)
  <2>1. /\ New \subseteq b .. e - 1 /\ b \in New
    BY <1>2
  <2>2. ASSUME NEW f \in New
        PROVE  /\ f % 2 = 1 /\ get_size(r, f) # 0 /\ get_size(r, f) % 2 = 0
               /\ f + get_size(r, f) \in New \cup {e}
               /\ \A c \in New : c <= f \/ c >= f + get_size(r, f)
               /\ Told(r, f, NULL)
               /\ get_alloc(r, f) => f = b
               /\ f # b => \E c \in New : c + get_size(r, c) = f
    <3>1. CASE f = b
      <4>1. \A c \in New : c <= b \/ c >= b + asize
        BY <1>2
      <4> QED
        BY <1>2, <1>18, <1>19, <3>1, <4>1
    <3>2. CASE f = rest
      <4>1. \A c \in New : c <= rest \/ c >= rest + next_size
        BY <1>2
      <4> QED
        BY <1>2, <1>18, <1>19, <3>2, <4>1
    <3> QED
      BY <3>1, <3>2
  <2>3. \E c \in New : c + get_size(r, c) = e
    BY <1>2, <1>18
  <2> HIDE DEF New
  <2> QED
    BY <1>1, <1>18, <2>1, <2>2, <2>3 DEF NewBlocks
<1>21. ASSUME NEW a \in Int, a < b \/ a > e
       PROVE  Word(r, a) = Word(h, a) \/ LinkWord(h, H, a)
  <2>1. (a # rest + 1 /\ a # rest + 2) \/ n = 0
    BY <1>2, <1>5, <1>21
  <2>2. a # rest + 1
    BY <1>2, <1>21
  <2>3. CASE a \in LinkWords(n, O[n])
    BY <1>9, <2>3
  <2>4. CASE a \notin LinkWords(n, O[n])
    <3>1. a \notin LinkWords(n, T)
      BY <1>14, <2>1, <2>2, <2>4
    <3> QED
      BY <1>3, <1>15, <1>21, <3>1
  <2> QED
    BY <2>3, <2>4
<1>22. Elsewhere(h, H, r, b, e)
  BY <1>15, <1>18, <1>21 DEF Elsewhere
<1>23. SIZE - 1 \notin N => r.root_list[SIZE - 1] = h.root_list[SIZE - 1]
  <2>1. SIZE - 1 \in Lists
    BY HeapAssumption DEF SIZE, Lists
  <2> QED
    BY <1>3, <1>4, <1>15, <2>1
<1>24. \A f \in New : ~get_alloc(r, f) => Number(r, f) \in N
  BY <1>4, <1>18 DEF Number, n
<1>25. \A m \in N : S2[m] = Outside(h, H, N, b, e)[m] \cup FreeAmong(r, New, m)
  <2> SUFFICES ASSUME NEW m \in N PROVE S2[m] = O[m] \cup FreeAmong(r, New, m)
    BY <1>10
  <2>1. \A f : f \in FreeAmong(r, New, m) <=> f = rest /\ m = n
    BY <1>18 DEF FreeAmong, Number, n
  <2> QED
    BY <1>13, <2>1
<1> HIDE DEF New
<1>26. get_size(r, b) >= asize /\ get_alloc(r, b)
  BY <1>2, <1>18
<1>27. Allots(h, H, N, r, b, asize)
  BY <1>12, <1>20, <1>22, <1>23, <1>24, <1>25, <1>26, TakenRecast
<1> QED
  BY <1>27 DEF r

(* A block that is taken in part. *)
LEMMA TakePartIs ==
    ASSUME NEW h, NEW H, NEW N, NEW b, NEW e, Takes(h, H, N, b, e),
           NEW d, Taken(h, H, N, d, b, e), NEW rest, NEW asize, NEW next_size,
           Parts(b, rest, e, get_size(h, b), asize, next_size)
    PROVE  Allots(h, H, N, TakePart(d, b, asize, next_size), b, asize)
<1>1. PICK t, q, q2 \in BOOLEAN : t = TRUE /\ q = get_prev_16B(d, b) /\ (q2 = (asize = 2))
  <2>1. get_prev_16B(d, b) \in BOOLEAN
    BY DEF get_prev_16B, Bit
  <2>2. (asize = 2) \in BOOLEAN
    OBVIOUS
  <2> DEFINE q0 == get_prev_16B(d, b)
             q1 == asize = 2
  <2> HIDE DEF q0, q1
  <2>3. q0 \in BOOLEAN /\ q1 \in BOOLEAN
    BY <2>1, <2>2 DEF q0, q1
  <2>4. \E t, q, q2 \in BOOLEAN : t = TRUE /\ q = q0 /\ q2 = q1
    BY <2>3
  <2> QED
    BY <2>4 DEF q0, q1
<1> DEFINE d1 == put(d, b, pack(asize, t, t, q))
           d2 == WriteFree(d1, rest, next_size, t, q2)
           d3 == Tell16B(d2, e, next_size)
<1>2. rest = b + asize /\ e = rest + next_size
  BY DEF Parts
<1>3. write_header(d, b, asize, TRUE, TRUE, get_prev_16B(d, b)) = d1
  BY <1>1 DEF write_header
<1>4. Parted(h, H, N, d3, b, rest, e, asize, next_size)
  <2>1. Bits(t, q2, asize) /\ (q <=> get_prev_16B(d, b))
    BY <1>1 DEF Bits
  <2> QED
    BY <2>1, PartedIs
<1> HIDE DEF d1
<1>5. WriteFree(d1, rest, next_size, TRUE, asize = dsize) = d2
  BY <1>1 DEF dsize
<1> HIDE DEF d2
<1>6. TakePart(d, b, asize, next_size) = insert_node(d3, rest)
  BY <1>2, <1>3, <1>5 DEF TakePart
<1> HIDE DEF d3
<1>7. Allots(h, H, N, insert_node(d3, rest), b, asize)
  BY <1>4, PartedRest
<1> QED
  BY <1>6, <1>7

(* malloc takes a free block, whole or in part.                            *)
LEMMA Allotted ==
    ASSUME NEW h, NEW H, NEW N, Sound(h, H, N, NULL), NEW b \in H, ~get_alloc(h, b),
           NEW asize \in Nat, asize >= 2, asize % 2 = 0, get_size(h, b) >= asize
    PROVE  Allots(h, H, N, Allocated(h, b, asize, get_size(h, b)), b, asize)
<1> DEFINE size == get_size(h, b)
           e == b + size
<1>0. PICK t, q \in BOOLEAN : t = TRUE /\ q = get_prev_16B(h, b)
  BY DEF get_prev_16B, Bit
<1> DEFINE w == pack(size, t, t, q)
           h0 == put(h, b, w)
           d == delete_node(h0, b)
<1>1. Takes(h, H, N, b, e)
  BY TakesIs
<1>2. /\ Memory(h) /\ Tiled(h, H) /\ b \in Nat /\ e \in Nat /\ e = b + size
      /\ b + 2 <= e /\ b % 2 = 1 /\ e < Brk(h) /\ Brk(h) \in Nat
      /\ size \in Nat /\ size % 2 = 0
  <2>1. Memory(h) /\ Tiled(h, H)
    BY DEF Sound
  <2>2. get_size(h, b) \in Nat /\ get_size(h, b) % 2 = 0
    BY <2>1, TiledParts
  <2> QED
    BY <1>1, <2>1, <2>2 DEF Takes
<1>3. write_header(h, b, size, TRUE, TRUE, get_prev_16B(h, b)) = h0
  BY <1>0 DEF write_header
<1>4. w \in WordValues /\ extract_size(w) = size /\ (Bit(w, "prev_16B") <=> q)
  BY <1>2, Packed
<1> HIDE DEF w
<1>5. b \in Within(h)
  BY <1>2 DEF Within
<1>6. /\ Wrote(h, h0) /\ Word(h0, b) = w
      /\ \A a : a # b => Word(h0, a) = Word(h, a)
  BY <1>2, <1>4, <1>5, PutWithin
<1> HIDE DEF h0
<1>7. get_size(h0, b) = size /\ (get_prev_16B(h0, b) <=> get_prev_16B(h, b))
  BY <1>0, <1>4, <1>6 DEF get_size, get_prev_16B
<1>8. size = get_size(h, b)
  OBVIOUS
<1> HIDE DEF size, e
<1>9. Taken(h, H, N, d, b, e)
  BY <1>1, <1>6, <1>7, <1>8, TakenIs
<1> HIDE DEF d
<1>10. Allocated(h, b, asize, size) = split_block(h0, b, asize, size)
  BY <1>3 DEF Allocated
<1>11. CASE size - asize >= 2
  <2> DEFINE next_size == size - asize
             rest == b + asize
  <2>1. Parts(b, rest, e, size, asize, next_size)
    BY <1>2, <1>11 DEF Parts
  <2>2. split_block(h0, b, asize, size) = TakePart(d, b, asize, next_size)
    BY <1>11 DEF split_block, dsize, d
  <2> HIDE DEF next_size, rest
  <2>3. Allots(h, H, N, TakePart(d, b, asize, next_size), b, asize)
    BY <1>1, <1>8, <1>9, <2>1, TakePartIs
  <2> QED
    BY <1>8, <1>10, <2>2, <2>3
<1>12. CASE ~(size - asize >= 2)
  <2>1. split_block(h0, b, asize, size) = TakeAll(d, b, size)
    BY <1>12 DEF split_block, dsize, d
  <2>2. Allots(h, H, N, TakeAll(d, b, size), b, asize)
    BY <1>1, <1>2, <1>8, <1>9, TakeAllIs
  <2> QED
    BY <1>8, <1>10, <2>1, <2>2
<1> QED
  BY <1>11, <1>12

-----------------------------------------------------------------------------
(* extend_heap and mm_init. *)

(* The words that mem_sbrk adds read as those beyond the break do.         *)
LEMMA Sbrk ==
    ASSUME NEW h, Memory(h), NEW n \in Nat, NEW g, g = mem_sbrk(h, n)
    PROVE  /\ Memory(g) /\ Brk(g) = Brk(h) + n /\ g.heap_start = h.heap_start
           /\ g.root_list = h.root_list /\ g.strayed = h.strayed
           /\ \A a : Word(g, a) = Word(h, a)
<1> DEFINE z == [i \in 1 .. n |-> Pointer(NULL)]
           m2 == h.mem \o z
<1>1. h = [mem |-> h.mem, heap_start |-> h.heap_start,
           root_list |-> h.root_list, strayed |-> h.strayed]
      /\ h.mem \in Seq(WordValues) /\ h.heap_start \in Nat
      /\ h.root_list \in [Lists -> Nat] /\ h.strayed \in BOOLEAN
  BY DEF Memory
<1>2. g = [mem |-> m2, heap_start |-> h.heap_start,
           root_list |-> h.root_list, strayed |-> h.strayed]
  <2>1. g = [h EXCEPT !.mem = m2]
    BY DEF mem_sbrk
  <2> HIDE DEF m2
  <2> QED
    BY <1>1, <2>1
<1>3. z \in Seq(WordValues) /\ Len(z) = n /\ \A i \in 1 .. n : z[i] = Pointer(NULL)
  <2>1. Pointer(NULL) \in WordValues
    BY Pointed DEF NULL
  <2>2. z \in [1 .. n -> WordValues]
    BY <2>1
  <2> QED
    BY <2>2
<1> HIDE DEF z
<1>4. /\ m2 \in Seq(WordValues) /\ Len(m2) = Len(h.mem) + n /\ Len(h.mem) \in Nat
      /\ \A i \in 1 .. Len(h.mem) : m2[i] = h.mem[i]
      /\ \A i \in Len(h.mem) + 1 .. Len(h.mem) + n : m2[i] = z[i - Len(h.mem)]
  <2> DEFINE m == h.mem
  <2>1. m \in Seq(WordValues) /\ z \in Seq(WordValues) /\ Len(z) = n
    BY <1>1, <1>3
  <2> HIDE DEF m
  <2>2. m \o z \in Seq(WordValues) /\ Len(m \o z) = Len(m) + n /\ Len(m) \in Nat
    BY <2>1
  <2>3. \A i \in 1 .. Len(m) : (m \o z)[i] = m[i]
    BY <2>1
  <2>4. \A i \in Len(m) + 1 .. Len(m) + n : (m \o z)[i] = z[i - Len(m)]
    BY <2>1
  <2> QED
    BY <2>2, <2>3, <2>4 DEF m
<1>5. \A i \in Len(h.mem) + 1 .. Len(h.mem) + n : m2[i] = Pointer(NULL)
  <2> TAKE i \in Len(h.mem) + 1 .. Len(h.mem) + n
  <2>1. i - Len(h.mem) \in 1 .. n
    BY <1>4
  <2> QED
    BY <1>3, <1>4, <2>1
<1> HIDE DEF m2
<1>6. g.mem = m2 /\ g.heap_start = h.heap_start /\ g.root_list = h.root_list
      /\ g.strayed = h.strayed
  BY <1>2
<1>7. Memory(g)
  BY <1>1, <1>2, <1>4 DEF Memory
<1>8. Brk(g) = Brk(h) + n /\ Brk(h) = Len(h.mem)
  BY <1>4, <1>6 DEF Brk
<1>9. ASSUME NEW a
      PROVE  Word(g, a) = Word(h, a)
  <2>1. CASE a \in 0 .. Brk(h) - 1
    <3>1. a + 1 \in 1 .. Len(h.mem) /\ a \in 0 .. Brk(g) - 1
      BY <1>4, <1>8, <2>1
    <3> QED
      BY <1>4, <1>6, <2>1, <3>1 DEF Word
  <2>2. CASE a \notin 0 .. Brk(h) - 1
    <3>1. CASE a \in 0 .. Brk(g) - 1
      <4>1. a + 1 \in Len(h.mem) + 1 .. Len(h.mem) + n
        BY <1>4, <1>8, <2>2, <3>1
      <4> QED
        BY <1>5, <1>6, <2>2, <3>1, <4>1 DEF Word
    <3>2. CASE a \notin 0 .. Brk(g) - 1
      BY <2>2, <3>2 DEF Word
    <3> QED
      BY <3>1, <3>2
  <2> QED
    BY <2>1, <2>2
<1> QED
  BY <1>6, <1>7, <1>8, <1>9

Epilogue == pack(0, TRUE, FALSE, FALSE)

(* The block that extend_heap adds has none before it.                     *)
First(h, b) == ~get_prev_16B(h, b) /\ extract_size(Word(h, b - 1)) = 0

(* The heap that extend_heap gives to coalesce_block.                      *)
Extended(h, b, n) ==
    LET freed == WriteFree(mem_sbrk(h, n), b, n, First(h, b) \/ get_prev_alloc(h, b),
                           ~First(h, b) /\ get_prev_16B(h, b))
        unlinked == put(put(freed, b + 2, Pointer(NULL)), b + 1, Pointer(NULL))
    IN put(unlinked, b + n, pack(0, TRUE, FALSE, FALSE))

(* n words from the old epilogue b are a free block with no neighbours in  *)
(* a list, and a new epilogue follows.                                     *)
GrownBy(h, g, b, n) ==
    /\ Memory(g) /\ Brk(g) = Brk(h) + n /\ g.heap_start = h.heap_start
    /\ g.root_list = h.root_list /\ g.strayed = h.strayed
    /\ \A a \in Int : a < b => Word(g, a) = Word(h, a)
    /\ get_size(g, b) = n /\ ~get_alloc(g, b)
    /\ get_prev_alloc(g, b) <=> First(h, b) \/ get_prev_alloc(h, b)
    /\ get_prev_16B(g, b) <=> ~First(h, b) /\ get_prev_16B(h, b)
    /\ Word(g, (b + n) - 1) = Word(g, b)
    /\ get(g, b + 1) = NULL /\ get(g, b + 2) = NULL
    /\ get_size(g, b + n) = 0 /\ get_alloc(g, b + n)
    /\ ~get_prev_alloc(g, b + n) /\ ~get_prev_16B(g, b + n)
    /\ Word(g, b + n) = Epilogue

(* extend_heap in those terms. *)
LEMMA ExtendIs ==
    ASSUME NEW h, NEW size, NEW n, n = round_up(size, dsize), NEW b, b = Brk(h) - 1
    PROVE  extend_heap(h, size) = IF ~CanGrow(h, n) THEN [block |-> NULL, heap |-> h]
                                  ELSE coalesce_block(Extended(h, b, n), b)
BY DEF extend_heap, Extended, First, payload_to_header, wsize, prev_linknode, next_linknode,
       write_header

(* extend_heap writes that. *)
LEMMA ExtendedIs ==
    ASSUME NEW h, Memory(h), NEW b \in Nat, b = Brk(h) - 1, NEW n \in Nat, n >= 4
    PROVE  GrownBy(h, Extended(h, b, n), b, n)
<1>0. PICK p, q, t \in BOOLEAN : p = (First(h, b) \/ get_prev_alloc(h, b))
                                 /\ q = (~First(h, b) /\ get_prev_16B(h, b)) /\ t = TRUE
  <2> DEFINE p0 == First(h, b) \/ get_prev_alloc(h, b)
             q0 == ~First(h, b) /\ get_prev_16B(h, b)
  <2>1. p0 \in BOOLEAN /\ q0 \in BOOLEAN
    OBVIOUS
  <2> HIDE DEF p0, q0
  <2>2. \E p, q, t \in BOOLEAN : p = p0 /\ q = q0 /\ t = TRUE
    BY <2>1
  <2> QED
    BY <2>2 DEF p0, q0
<1> DEFINE f == FALSE
           g0 == mem_sbrk(h, n)
           g1 == WriteFree(g0, b, n, p, q)
           v == Pointer(NULL)
           w == pack(0, t, f, f)
           u1 == put(g1, b + 2, v)
           u2 == put(u1, b + 1, v)
           g == put(u2, b + n, w)
<1>1. Extended(h, b, n) = g
  <2>1. WriteFree(g0, b, n, First(h, b) \/ get_prev_alloc(h, b),
                  ~First(h, b) /\ get_prev_16B(h, b)) = g1
    BY <1>0
  <2> HIDE DEF g1
  <2>2. Extended(h, b, n) = put(put(put(g1, b + 2, Pointer(NULL)), b + 1, Pointer(NULL)),
                                b + n, pack(0, TRUE, FALSE, FALSE))
    BY <2>1 DEF Extended
  <2>3. pack(0, TRUE, FALSE, FALSE) = w
    BY <1>0
  <2> HIDE DEF w
  <2> QED
    BY <2>2, <2>3
<1>2. Brk(h) \in Nat /\ Brk(h) = b + 1
  BY MemoryParts
<1>3. /\ Memory(g0) /\ Brk(g0) = Brk(h) + n /\ g0.heap_start = h.heap_start
      /\ g0.root_list = h.root_list /\ g0.strayed = h.strayed
      /\ \A a : Word(g0, a) = Word(h, a)
  BY Sbrk
<1> HIDE DEF g0
<1>4. /\ Wrote(g0, g1) /\ FreeAt(g1, b, n, p, q)
      /\ \A x : x # b /\ x # (b + n) - 1 => Word(g1, x) = Word(g0, x)
  <2> DEFINE r == g1
  <2>1. r = WriteFree(g0, b, n, p, q)
    OBVIOUS
  <2> HIDE DEF r
  <2>2. n >= 2 /\ b + n <= Brk(g0)
    BY <1>2, <1>3
  <2>3. /\ Wrote(g0, r) /\ FreeAt(r, b, n, p, q)
        /\ \A x : x # b /\ x # b + n - 1 => Word(r, x) = Word(g0, x)
    BY <1>3, <2>1, <2>2, FreeWritten
  <2>4. (b + n) - 1 = b + n - 1
    OBVIOUS
  <2> QED
    BY <2>3, <2>4 DEF r
<1>5. /\ get_size(g1, b) = n /\ ~get_alloc(g1, b) /\ (get_prev_alloc(g1, b) <=> p)
      /\ (get_prev_16B(g1, b) <=> q)
      /\ Word(g1, (b + n) - 1) = Word(g1, b)
  <2>1. (b + n) - 1 = b + n - 1
    OBVIOUS
  <2> QED
    BY <1>4, <2>1 DEF FreeAt
<1> HIDE DEF g1
<1>6. /\ v \in WordValues /\ AsPointer(v) = NULL
      /\ w \in WordValues /\ extract_size(w) = 0 /\ Bit(w, "alloc") /\ ~Bit(w, "prev") /\ ~Bit(w, "prev_16B")
  <2>1. v \in WordValues /\ AsPointer(v) = NULL
    BY Pointed DEF NULL
  <2>2. /\ w \in WordValues /\ extract_size(w) = 0 /\ (Bit(w, "alloc") <=> t) /\ (Bit(w, "prev") <=> f)
        /\ (Bit(w, "prev_16B") <=> f)
    <3>1. f \in BOOLEAN /\ 0 \in Nat
      OBVIOUS
    <3> HIDE DEF f
    <3> QED
      BY <3>1, Packed
  <2>3. /\ w \in WordValues /\ extract_size(w) = 0 /\ Bit(w, "alloc") /\ ~Bit(w, "prev")
        /\ ~Bit(w, "prev_16B")
    <3> HIDE DEF w
    <3> QED
      BY <1>0, <2>2
  <2> QED
    BY <2>1, <2>3
<1> HIDE DEF v, w
<1>7. Memory(g1) /\ b + 2 \in Within(g1) /\ b + 1 \in Within(g1) /\ b + n \in Within(g1)
      /\ Within(g0) = Within(g1)
  <2>1. Memory(g1) /\ Within(g1) = Within(g0)
    BY <1>4, Wrote2
  <2>2. Within(g0) = 0 .. b + n
    <3>1. Brk(g0) - 1 = b + n
      BY <1>2, <1>3
    <3> QED
      BY <3>1 DEF Within
  <2>3. b + 2 \in 0 .. b + n /\ b + 1 \in 0 .. b + n /\ b + n \in 0 .. b + n
    OBVIOUS
  <2> QED
    BY <2>1, <2>2, <2>3
<1>8. /\ Wrote(g1, u1) /\ Word(u1, b + 2) = v /\ \A x : x # b + 2 => Word(u1, x) = Word(g1, x)
  BY <1>6, <1>7, PutWithin
<1> HIDE DEF u1
<1>9. Memory(u1) /\ Within(u1) = Within(g1)
  BY <1>8, Wrote2
<1>10. /\ Wrote(u1, u2) /\ Word(u2, b + 1) = v /\ \A x : x # b + 1 => Word(u2, x) = Word(u1, x)
  BY <1>6, <1>7, <1>9, PutWithin
<1> HIDE DEF u2
<1>11. Memory(u2) /\ Within(u2) = Within(g1)
  BY <1>9, <1>10, Wrote2
<1>12. /\ Wrote(u2, g) /\ Word(g, b + n) = w /\ \A x : x # b + n => Word(g, x) = Word(u2, x)
  BY <1>6, <1>7, <1>11, PutWithin
<1> HIDE DEF g
<1>13. Wrote(g0, g)
  <2>1. Wrote(g0, u1)
    BY <1>4, <1>8, WroteTwice
  <2>2. Wrote(g0, u2)
    BY <2>1, <1>10, WroteTwice
  <2> QED
    BY <2>2, <1>12, WroteTwice
<1>14. \A x : x # b + n /\ x # b + 1 /\ x # b + 2 => Word(g, x) = Word(g1, x)
  BY <1>8, <1>10, <1>12
<1>15. /\ b # b + n /\ b # b + 1 /\ b # b + 2
       /\ (b + n) - 1 # b + n /\ (b + n) - 1 # b + 1 /\ (b + n) - 1 # b + 2
       /\ b + 1 # b + n /\ b + 2 # b + n /\ b + 2 # b + 1
  OBVIOUS
<1>16. /\ Word(g, b) = Word(g1, b) /\ Word(g, (b + n) - 1) = Word(g1, (b + n) - 1)
       /\ Word(g, b + 1) = v /\ Word(g, b + 2) = v
  BY <1>8, <1>10, <1>12, <1>14, <1>15
<1>17. \A a \in Int : a < b => Word(g, a) = Word(h, a)
  <2> TAKE a \in Int
  <2> HAVE a < b
  <2>1. a # b /\ a # b + n /\ a # b + 1 /\ a # b + 2 /\ a # (b + n) - 1
    OBVIOUS
  <2> QED
    BY <1>3, <1>4, <1>14, <2>1
<1>18. /\ get_size(g, b) = n /\ ~get_alloc(g, b) /\ (get_prev_alloc(g, b) <=> p)
       /\ (get_prev_16B(g, b) <=> q) /\ Word(g, (b + n) - 1) = Word(g, b)
  BY <1>5, <1>16 DEF get_size, get_alloc, get_prev_alloc, get_prev_16B
<1>19. get(g, b + 1) = NULL /\ get(g, b + 2) = NULL
  BY <1>6, <1>16 DEF get
<1>20. /\ get_size(g, b + n) = 0 /\ get_alloc(g, b + n)
       /\ ~get_prev_alloc(g, b + n) /\ ~get_prev_16B(g, b + n)
  BY <1>6, <1>12 DEF get_size, get_alloc, get_prev_alloc, get_prev_16B
<1>21. /\ Memory(g) /\ Brk(g) = Brk(h) + n /\ g.heap_start = h.heap_start
       /\ g.root_list = h.root_list /\ g.strayed = h.strayed
  BY <1>3, <1>13, Wrote2
<1>22. Word(g, b + n) = Epilogue
  <2>1. w = pack(0, TRUE, FALSE, FALSE)
    BY <1>0 DEF w
  <2> QED
    BY <1>12, <2>1 DEF Epilogue
<1>23. GrownBy(h, g, b, n)
  BY <1>0, <1>17, <1>18, <1>19, <1>20, <1>21, <1>22 DEF GrownBy
<1> QED
  BY <1>1, <1>23

(* Blocks up to an epilogue b that a new block can take the place of.      *)
Ground(h, H, b) ==
    /\ Memory(h) /\ Tiled(h, H) /\ Tagged(h, H, NULL)
    /\ b \in Nat /\ b = Brk(h) - 1
    /\ \A c \in H : get_prev_alloc(h, c) \/ Follows(h, H, c) \/ c = b
    /\ First(h, b) \/ get_prev_alloc(h, b) \/ Follows(h, H, b)

(* The blocks once it has, and that of those before nothing has changed.   *)
Raised(h, H, g, b, n) ==
    /\ Tiled(g, H \cup {b + n}) /\ Tagged(g, H \cup {b + n}, b)
    /\ Preceded(g, H \cup {b + n}, Lists) /\ Keeps(h, H, g, H \cup {b + n}, NULL)
    /\ \A c \in H : c # b => /\ c < b
                             /\ get_size(g, c) = get_size(h, c)
                             /\ get_alloc(g, c) <=> get_alloc(h, c)
    /\ \A c \in H : Follows(g, H \cup {b + n}, c) <=> Follows(h, H, c)

(* The new block joins the others. *)
LEMMA RaisedIs ==
    ASSUME NEW h, NEW H, NEW g, NEW b, Ground(h, H, b), NEW n \in Nat, n >= 4, n % 2 = 0,
           CanGrow(h, n), GrownBy(h, g, b, n)
    PROVE  Raised(h, H, g, b, n)
<1> DEFINE e == b + n
           H1 == H \cup {e}
<1>1. /\ Memory(h) /\ Tiled(h, H) /\ Tagged(h, H, NULL) /\ b \in Nat /\ b = Brk(h) - 1
      /\ \A c \in H : get_prev_alloc(h, c) \/ Follows(h, H, c) \/ c = b
      /\ First(h, b) \/ get_prev_alloc(h, b) \/ Follows(h, H, b)
  BY DEF Ground
<1>2. /\ Memory(g) /\ Brk(g) = Brk(h) + n
      /\ \A a \in Int : a < b => Word(g, a) = Word(h, a)
      /\ get_size(g, b) = n /\ ~get_alloc(g, b)
      /\ get_prev_alloc(g, b) <=> First(h, b) \/ get_prev_alloc(h, b)
      /\ get_prev_16B(g, b) <=> ~First(h, b) /\ get_prev_16B(h, b)
      /\ Word(g, (b + n) - 1) = Word(g, b)
      /\ get_size(g, e) = 0 /\ get_alloc(g, e)
      /\ ~get_prev_alloc(g, e) /\ ~get_prev_16B(g, e)
  BY DEF GrownBy
<1>3. /\ Brk(h) \in Nat /\ b \in H /\ get_size(h, b) = 0 /\ get_alloc(h, b) /\ b % 2 = 1
      /\ \A c \in H : /\ c \in Nat /\ c >= 1 /\ c <= b /\ c % 2 = 1
                      /\ get_size(h, c) \in Nat /\ get_size(h, c) % 2 = 0
                      /\ get_size(h, c) # 0 => c # b /\ get_size(h, c) >= 2
  BY <1>1, TiledParts DEF Tiled
<1>4. e \in Nat /\ e > b /\ e = Brk(g) - 1 /\ e % 2 = 1 /\ Brk(g) <= MaxHeap
  <2>1. e % 2 = 1
    BY <1>3
  <2>2. Brk(g) <= MaxHeap
    BY <1>2 DEF CanGrow
  <2> QED
    BY <1>1, <1>2, <1>3, <2>1, <2>2
<1>5. ASSUME NEW c \in H, c # b
      PROVE  /\ c < b /\ get_size(g, c) = get_size(h, c)
             /\ get_alloc(g, c) <=> get_alloc(h, c)
             /\ get_prev_alloc(g, c) <=> get_prev_alloc(h, c)
             /\ get_prev_16B(g, c) <=> get_prev_16B(h, c)
             /\ Word(g, c) = Word(h, c)
  <2>1. c \in Int /\ c < b
    BY <1>3, <1>5
  <2>2. Word(g, c) = Word(h, c)
    BY <1>2, <2>1
  <2> QED
    BY <2>1, <2>2 DEF get_size, get_alloc, get_prev_alloc, get_prev_16B
<1>6. \A c \in H1 : c \in H \/ c = e
  OBVIOUS
<1>7. \A c \in H : c \in H1
  OBVIOUS
<1>8. e \in H1 /\ e \notin H
  BY <1>3, <1>4
<1>9. e = b + n
  OBVIOUS
<1> HIDE DEF H1, e
<1>10. \A c \in H : Follows(g, H1, c) <=> Follows(h, H, c)
  <2> TAKE c \in H
  <2>1. ASSUME Follows(g, H1, c)
        PROVE  Follows(h, H, c)
    <3>1. PICK d \in H1 : get_size(g, d) # 0 /\ d + get_size(g, d) = c
      BY <2>1 DEF Follows
    <3>2. d # e
      BY <1>2, <3>1
    <3>3. d # b
      BY <1>2, <1>3, <1>4, <1>9, <3>1
    <3>4. d \in H /\ get_size(g, d) = get_size(h, d)
      BY <1>5, <1>6, <3>2, <3>3
    <3> QED
      BY <3>1, <3>4 DEF Follows
  <2>2. ASSUME Follows(h, H, c)
        PROVE  Follows(g, H1, c)
    <3>1. PICK d \in H : get_size(h, d) # 0 /\ d + get_size(h, d) = c
      BY <2>2 DEF Follows
    <3>2. d # b
      BY <1>3, <3>1
    <3>3. d \in H1 /\ get_size(g, d) = get_size(h, d)
      BY <1>5, <1>7, <3>2
    <3> QED
      BY <3>1, <3>3 DEF Follows
  <2> QED
    BY <2>1, <2>2
<1>11. Tiled(g, H1)
  <2>1. H1 \subseteq 1 .. Brk(g) - 1 /\ 1 \in H1 /\ Brk(g) - 1 \in H1 /\ get_size(g, Brk(g) - 1) = 0
    <3>1. 1 \in H
      BY <1>1 DEF Tiled
    <3>2. \A c \in H : c \in 1 .. e
      BY <1>3, <1>4
    <3>3. e \in 1 .. e
      BY <1>3, <1>4
    <3> QED
      BY <1>2, <1>4, <1>6, <1>7, <1>8, <3>1, <3>2, <3>3
  <2>2. \A c \in H1 : /\ c % 2 = 1 /\ get_size(g, c) % 2 = 0
                      /\ get_size(g, c) = 0 => get_alloc(g, c)
    <3> TAKE c \in H1
    <3>1. CASE c = e
      BY <1>2, <1>4, <3>1
    <3>2. CASE c = b
      BY <1>2, <1>3, <1>4, <3>2
    <3>3. CASE c # e /\ c # b
      <4>1. c \in H
        BY <1>6, <3>3
      <4>2. get_size(h, c) = 0 => get_alloc(h, c)
        BY <1>1, <4>1 DEF Tiled
      <4> QED
        BY <1>3, <1>5, <3>3, <4>1, <4>2
    <3> QED
      BY <3>1, <3>2, <3>3
  <2>3. ASSUME NEW c \in H1, c # Brk(g) - 1
        PROVE  NextHeader(g, c) \in H1 /\ \A x \in H1 : x <= c \/ x >= NextHeader(g, c)
    <3>1. CASE c = b
      <4>1. NextHeader(g, c) = e
        BY <1>2, <1>9, <3>1 DEF NextHeader
      <4>2. \A x \in H1 : x <= b \/ x >= e
        BY <1>3, <1>4, <1>6
      <4> QED
        BY <1>8, <3>1, <4>1, <4>2
    <3>2. CASE c # b
      <4>1. c \in H /\ c # Brk(h) - 1
        BY <1>1, <1>4, <1>6, <2>3, <3>2
      <4>2. NextHeader(g, c) = NextHeader(h, c)
        BY <1>5, <3>2, <4>1 DEF NextHeader
      <4>3. NextHeader(h, c) \in H /\ \A x \in H : x <= c \/ x >= NextHeader(h, c)
        BY <1>1, <4>1 DEF Tiled
      <4>4. e >= NextHeader(h, c)
        BY <1>3, <1>4, <4>3
      <4> QED
        BY <1>6, <1>7, <4>2, <4>3, <4>4
    <3> QED
      BY <3>1, <3>2
  <2> QED
    BY <1>4, <2>1, <2>2, <2>3 DEF Tiled
<1>12. Tagged(g, H1, b)
  <2> SUFFICES ASSUME NEW c \in H1, get_size(g, c) # 0
               PROVE  Told(g, c, b)
    BY DEF Tagged
  <2>1. CASE c = b
    <3>1. n # 2
      OBVIOUS
    <3>2. c + get_size(g, c) = e
      BY <1>2, <1>9, <2>1
    <3>3. Word(g, e - 1) = Word(g, c)
      BY <1>2, <1>9, <2>1
    <3> QED
      BY <1>2, <2>1, <3>1, <3>2, <3>3 DEF Told
  <2>2. CASE c # b
    <3>1. c \in H
      BY <1>2, <1>6
    <3> DEFINE s == get_size(h, c)
               d == c + s
    <3>2. get_size(g, c) = s /\ (get_alloc(g, c) <=> get_alloc(h, c)) /\ Word(g, c) = Word(h, c)
          /\ s # 0 /\ s \in Nat /\ s >= 2
      BY <1>3, <1>5, <2>2, <3>1
    <3>3. d \in H
      BY <1>1, <3>1, <3>2, NextBlock
    <3>4. Told(h, c, NULL)
      BY <1>1, <3>1, <3>2 DEF Tagged
    <3>5. c # NULL /\ d # NULL /\ c \in Nat /\ d \in Nat /\ d <= b
      BY <1>3, <3>1, <3>3 DEF NULL
    <3>6. /\ get_prev_alloc(h, d) <=> get_alloc(h, c)
          /\ get_prev_16B(h, d) <=> s = 2
          /\ ~get_alloc(h, c) /\ s >= 4 => Word(h, d - 1) = Word(h, c)
          /\ ~get_alloc(h, c) => get_alloc(h, d)
      BY <3>4, <3>5 DEF Told
    <3>7. Word(g, d - 1) = Word(h, d - 1)
      <4>1. d - 1 \in Int /\ d - 1 < b
        BY <1>1, <3>5
      <4> QED
        BY <1>2, <4>1
    <3>8. s = get_size(h, c)
      OBVIOUS
    <3>9. c + get_size(g, c) = d
      BY <3>2
    <3>10. CASE d = b
      <4>1. ~get_alloc(h, c) => ~First(h, b)
        <5>1. ASSUME ~get_alloc(h, c), s # 2
              PROVE  Word(h, b - 1) = Word(h, c)
          <6>1. s >= 4
            BY <1>3, <3>1, <3>2, <5>1
          <6> QED
            BY <3>6, <3>10, <5>1, <6>1
        <5>2. extract_size(Word(h, c)) # 0
          BY <3>2 DEF get_size
        <5> QED
          BY <3>6, <3>10, <5>1, <5>2 DEF First
      <4>2. get_prev_alloc(g, b) <=> get_alloc(h, c)
        BY <1>2, <3>6, <3>10, <4>1
      <4>3. get_prev_16B(g, b) <=> s = 2
        BY <1>2, <3>6, <3>10 DEF First
      <4> HIDE DEF s, d
      <4> QED
        BY <3>2, <3>6, <3>7, <3>9, <3>10, <4>2, <4>3 DEF Told
    <3>11. CASE d # b
      <4>1. /\ get_alloc(g, d) <=> get_alloc(h, d)
            /\ get_prev_alloc(g, d) <=> get_prev_alloc(h, d)
            /\ get_prev_16B(g, d) <=> get_prev_16B(h, d)
        BY <1>5, <3>3, <3>11
      <4> HIDE DEF s, d
      <4> QED
        BY <3>2, <3>6, <3>7, <3>9, <4>1 DEF Told
    <3> QED
      BY <3>10, <3>11
  <2> QED
    BY <2>1, <2>2
<1>13. Preceded(g, H1, Lists)
  <2> SUFFICES ASSUME NEW c \in H1
               PROVE  get_prev_alloc(g, c) \/ Follows(g, H1, c)
    BY DEF Preceded
  <2>1. CASE c = e
    <3>1. b \in H1 /\ get_size(g, b) # 0 /\ b + get_size(g, b) = e
      BY <1>2, <1>3, <1>7, <1>9
    <3> QED
      BY <2>1, <3>1 DEF Follows
  <2>2. CASE c = b
    BY <1>1, <1>2, <1>3, <1>10, <2>2
  <2>3. CASE c # b /\ c # e
    <3>1. c \in H
      BY <1>6, <2>3
    <3> QED
      BY <1>1, <1>5, <1>10, <2>3, <3>1
  <2> QED
    BY <2>1, <2>2, <2>3
<1>14. Keeps(h, H, g, H1, NULL)
  <2>1. ASSUME NEW c \in H, get_alloc(h, c), get_size(h, c) # 0
        PROVE  /\ c \in H1 /\ get_alloc(g, c) /\ get_size(g, c) = get_size(h, c)
               /\ \A a \in c + 1 .. c + get_size(h, c) - 1 : Word(g, a) = Word(h, a)
    <3>1. c # b /\ c \in Nat /\ get_size(h, c) \in Nat /\ c + get_size(h, c) <= b
      <4>1. c # b /\ c < b /\ c \in Nat /\ get_size(h, c) \in Nat
        BY <1>3, <1>5, <2>1
      <4>2. c + get_size(h, c) <= b
        BY <1>1, <1>3, <4>1, BlocksApart
      <4> QED
        BY <4>1, <4>2
    <3>2. ASSUME NEW a \in c + 1 .. c + get_size(h, c) - 1
          PROVE  Word(g, a) = Word(h, a)
      <4>1. a \in Int /\ a < b
        BY <1>1, <3>1
      <4> QED
        BY <1>2, <4>1
    <3> QED
      BY <1>5, <1>7, <2>1, <3>1, <3>2
  <2>2. ASSUME NEW c \in H1, get_alloc(g, c), get_size(g, c) # 0
        PROVE  c \in H /\ get_alloc(h, c) /\ get_size(h, c) # 0
    <3>1. c # e /\ c # b
      BY <1>2, <2>2
    <3>2. c \in H
      BY <1>6, <3>1
    <3> QED
      BY <1>5, <2>2, <3>1, <3>2
  <2> QED
    BY <2>1, <2>2 DEF Keeps
<1>15. H \cup {b + n} = H1
  BY DEF H1, e
<1> QED
  BY <1>5, <1>10, <1>11, <1>12, <1>13, <1>14, <1>15 DEF Raised

(* Payloads that stay twice stay. *)
LEMMA KeepsTwice ==
    ASSUME NEW h, NEW H, NEW h1, NEW H1, NEW h2, NEW H2, NEW y,
           Keeps(h, H, h1, H1, NULL), Keeps(h1, H1, h2, H2, y), NULL \notin H1
    PROVE  Keeps(h, H, h2, H2, y)
<1>1. ASSUME NEW c \in H, get_alloc(h, c), get_size(h, c) # 0
      PROVE  /\ c \in H2 /\ get_alloc(h2, c) /\ get_size(h2, c) = get_size(h, c)
             /\ \A a \in c + 1 .. c + get_size(h, c) - 1 : Word(h2, a) = Word(h, a)
  <2>1. /\ c \in H1 /\ get_alloc(h1, c) /\ get_size(h1, c) = get_size(h, c)
        /\ \A a \in c + 1 .. c + get_size(h, c) - 1 : Word(h1, a) = Word(h, a)
    BY <1>1 DEF Keeps
  <2>2. /\ c \in H2 /\ get_alloc(h2, c) /\ get_size(h2, c) = get_size(h1, c)
        /\ \A a \in c + 1 .. c + get_size(h1, c) - 1 : Word(h2, a) = Word(h1, a)
    BY <1>1, <2>1 DEF Keeps
  <2> QED
    BY <2>1, <2>2
<1>2. ASSUME NEW c \in H2, get_alloc(h2, c), get_size(h2, c) # 0, c # y
      PROVE  c \in H /\ get_alloc(h, c) /\ get_size(h, c) # 0
  <2>1. c \in H1 /\ get_alloc(h1, c) /\ get_size(h1, c) # 0
    BY <1>2 DEF Keeps
  <2>2. c # NULL
    BY <2>1
  <2> QED
    BY <2>1, <2>2 DEF Keeps
<1> QED
  BY <1>1, <1>2 DEF Keeps

(* Links are in the blocks before the last epilogue. *)
LEMMA LinkBelow ==
    ASSUME NEW h, NEW H, Memory(h), Tiled(h, H), NEW a, LinkWord(h, H, a)
    PROVE  a \in Int /\ a < Brk(h) - 1
<1>1. PICK c \in H : ~get_alloc(h, c) /\ (a = c + 1 \/ (a = c + 2 /\ get_size(h, c) >= 4))
  BY DEF LinkWord
<1>2. /\ c \in Nat /\ get_size(h, c) \in Nat /\ get_size(h, c) # 0 /\ c # Brk(h) - 1
      /\ c <= Brk(h) - 1 /\ Brk(h) \in Nat /\ Brk(h) - 1 \in H /\ get_size(h, c) >= 2
  BY <1>1, TiledParts DEF Tiled
<1>3. c + get_size(h, c) <= Brk(h) - 1
  <2>1. c < Brk(h) - 1
    BY <1>2
  <2> QED
    BY <1>2, <2>1, BlocksApart
<1> QED
  BY <1>1, <1>2, <1>3

(* The new block of a sound heap waits to be coalesced. *)
LEMMA ExtendedLimbo ==
    ASSUME NEW h, NEW H, Sound(h, H, Lists, NULL), NEW n \in Nat, n >= 4, n % 2 = 0,
           CanGrow(h, n), NEW b, b = Brk(h) - 1, NEW g, g = Extended(h, b, n)
    PROVE  /\ Limbo(g, H \cup {b + n}, Lists, b)
           /\ Keeps(h, H, g, H \cup {b + n}, NULL)
<1> DEFINE H1 == H \cup {b + n}
           S == Members(h, H, Lists, NULL)
           S1 == Members(g, H1, Lists, b)
<1>1. /\ Memory(h) /\ ~h.strayed /\ Tiled(h, H) /\ Tagged(h, H, NULL) /\ Preceded(h, H, Lists)
      /\ Started(h, H, Lists) /\ Filed(h, H, Lists, NULL)
  BY DEF Sound
<1>2. b \in Nat /\ b \in H /\ get_size(h, b) = 0 /\ get_alloc(h, b) /\ \A c \in H : c # NULL
  BY <1>1, TiledParts DEF Tiled, NULL
<1>3. Ground(h, H, b)
  <2>1. \A c \in H : get_prev_alloc(h, c) \/ Follows(h, H, c)
    BY <1>1 DEF Preceded
  <2> QED
    BY <1>1, <1>2, <2>1 DEF Ground
<1>4. GrownBy(h, g, b, n)
  BY <1>1, <1>2, ExtendedIs
<1>5. Raised(h, H, g, b, n)
  BY <1>3, <1>4, RaisedIs
<1>6. /\ Tiled(g, H1) /\ Tagged(g, H1, b) /\ Preceded(g, H1, Lists) /\ Keeps(h, H, g, H1, NULL)
      /\ \A c \in H : c # b => /\ get_size(g, c) = get_size(h, c)
                               /\ get_alloc(g, c) <=> get_alloc(h, c)
      /\ \A c \in H : Follows(g, H1, c) <=> Follows(h, H, c)
  BY <1>5 DEF Raised
<1>7. /\ Memory(g) /\ Brk(g) = Brk(h) + n /\ g.heap_start = h.heap_start
      /\ g.root_list = h.root_list /\ g.strayed = h.strayed
      /\ \A a \in Int : a < b => Word(g, a) = Word(h, a)
      /\ ~get_alloc(g, b) /\ get_alloc(g, b + n)
  BY <1>4 DEF GrownBy
<1>8. \A c : c \in H1 <=> c \in H \/ c = b + n
  OBVIOUS
<1> HIDE DEF H1
<1>9. Started(g, H1, Lists)
  <2>1. h.heap_start \in H /\ ~Follows(h, H, h.heap_start) /\ get_size(h, h.heap_start) # 0
    BY <1>1 DEF Started
  <2>2. h.heap_start # b
    BY <1>2, <2>1
  <2> QED
    BY <1>6, <1>7, <1>8, <2>1, <2>2 DEF Started
<1>10. \A c : c \in H1 /\ ~get_alloc(g, c) /\ c # b <=> c \in H /\ ~get_alloc(h, c) /\ c # NULL
  BY <1>2, <1>6, <1>7, <1>8
<1>11. \A c : c \in H /\ ~get_alloc(h, c) => Number(g, c) = Number(h, c)
  BY <1>2, <1>6 DEF Number
<1>12. S1 = S
  <2>1. ASSUME NEW m \in Lists
        PROVE  {c \in H1 : ~get_alloc(g, c) /\ c # b /\ Number(g, c) = m}
                 = {c \in H : ~get_alloc(h, c) /\ c # NULL /\ Number(h, c) = m}
    BY <1>10, <1>11
  <2> QED
    BY <2>1 DEF Members
<1>13. Linked(g, Lists, S)
  <2>1. Linked(h, Lists, S)
    BY <1>1 DEF Filed
  <2>2. ASSUME NEW m \in Lists, NEW a \in LinkWords(m, S[m])
        PROVE  Word(g, a) = Word(h, a)
    <3>1. \A c \in S[m] : c \in H /\ ~get_alloc(h, c) /\ Number(h, c) = m
      BY DEF Members
    <3> HIDE DEF S
    <3>2. LinkWord(h, H, a)
      BY <1>1, <2>2, <3>1, LinksOfFree
    <3>3. a \in Int /\ a < b
      BY <1>1, <3>2, LinkBelow
    <3> QED
      BY <1>7, <3>3
  <2>3. Brk(g) >= Brk(h)
    BY <1>1, <1>7, MemoryParts
  <2> HIDE DEF S
  <2> QED
    BY <1>1, <1>7, <2>1, <2>2, <2>3, LinkedStill
<1>14. Filed(g, H1, Lists, b)
  <2>1. \A c \in H1 : ~get_alloc(g, c) /\ c # b => Number(g, c) \in Lists
    BY <1>1, <1>10, <1>11 DEF Filed
  <2> HIDE DEF S1, S
  <2> QED
    BY <1>12, <1>13, <2>1 DEF Filed, S1
<1>15. Limbo(g, H1, Lists, b)
  <2>1. Sound(g, H1, Lists, b)
    BY <1>1, <1>6, <1>7, <1>9, <1>14 DEF Sound
  <2> QED
    BY <1>2, <1>7, <1>8, <2>1 DEF Limbo
<1> QED
  BY <1>6, <1>15 DEF H1

(* A free block of at least n words, on a heap that is sound. *)
Grows(h, H, c, n) ==
    \E H2 : /\ Sound(c.heap, H2, Lists, NULL) /\ Keeps(h, H, c.heap, H2, NULL)
            /\ c.block \in H2 /\ ~get_alloc(c.heap, c.block)
            /\ get_size(c.heap, c.block) >= n

(* A sound heap grows by a block that is coalesced. *)
LEMMA Growing ==
    ASSUME NEW h, NEW H, Sound(h, H, Lists, NULL), NEW n \in Nat, n >= 4, n % 2 = 0,
           CanGrow(h, n), NEW b, b = Brk(h) - 1
    PROVE  Grows(h, H, coalesce_block(Extended(h, b, n), b), n)
<1> DEFINE g == Extended(h, b, n)
           H1 == H \cup {b + n}
           c == coalesce_block(g, b)
<1>1. Limbo(g, H1, Lists, b) /\ Keeps(h, H, g, H1, NULL)
  BY ExtendedLimbo
<1>2. get_size(g, b) = n
  <2>1. Memory(h) /\ Tiled(h, H)
    BY DEF Sound
  <2>2. b \in Nat
    BY <2>1, TiledParts
  <2> QED
    BY <2>1, <2>2, ExtendedIs DEF GrownBy
<1> HIDE DEF g, H1
<1>3. Coalesces(g, H1, Lists, b, c)
  BY <1>1, Coalescing
<1> HIDE DEF c
<1>4. PICK p, e \in H1 : c.block = p /\ p <= b /\ b + get_size(g, b) <= e
                         /\ Settles(g, H1, Lists, c.heap, p, e)
  BY <1>3 DEF Coalesces
<1> DEFINE H2 == Recast(H1, p, e, {p})
<1>5. /\ Sound(c.heap, H2, Lists, NULL) /\ Keeps(g, H1, c.heap, H2, NULL)
      /\ get_size(c.heap, p) = e - p /\ ~get_alloc(c.heap, p)
  BY <1>4 DEF Settles
<1>6. \A f \in H1 : f \in Nat /\ f # NULL
  <2>1. Memory(g) /\ Tiled(g, H1)
    BY <1>1 DEF Limbo, Sound
  <2> QED
    BY <2>1, TiledParts DEF NULL
<1>7. p \in H2
  BY DEF Recast
<1> HIDE DEF H2
<1>8. Keeps(h, H, c.heap, H2, NULL)
  BY <1>1, <1>5, <1>6, KeepsTwice
<1>9. e - p >= n
  <2>1. p \in Nat /\ e \in Nat /\ b \in Nat
    BY <1>1, <1>4, <1>6 DEF Limbo
  <2> QED
    BY <1>2, <1>4, <2>1
<1>10. Grows(h, H, c, n)
  BY <1>4, <1>5, <1>7, <1>8, <1>9 DEF Grows
<1> QED
  BY <1>10 DEF c, g

(* round_up gives the next even number. *)
LEMMA RoundedUp ==
    ASSUME NEW size \in Nat
    PROVE  /\ round_up(size, dsize) \in Nat /\ round_up(size, dsize) >= size
           /\ round_up(size, dsize) % 2 = 0
           /\ size % 2 = 0 => round_up(size, dsize) = size
BY DEF round_up, dsize

(* The size that heaps grow by belongs in the last list. *)
LEMMA Chunk ==
    /\ chunksize \in Nat /\ chunksize >= 4 /\ chunksize % 2 = 0
    /\ find_listnumber(chunksize) = SIZE - 1 /\ SIZE - 1 \in Lists /\ SIZE - 1 # 0
    /\ SIZE \in Nat
<1>1. /\ chunksize \in Nat /\ chunksize % 2 = 0 /\ find_listnumber(chunksize) = SIZE - 1
      /\ Limits # <<>> /\ Limits \in Seq(Nat \ {0})
  BY HeapAssumption DEF dsize
<1>2. Len(Limits) \in Nat /\ Len(Limits) # 0
  BY <1>1
<1>3. SIZE = Len(Limits) + 1 /\ SIZE - 1 \in Lists /\ SIZE - 1 # 0 /\ SIZE \in Nat
  BY <1>2 DEF SIZE, Lists
<1>4. ~(chunksize <= dsize)
  BY <1>1, <1>3, ListNumber
<1> QED
  BY <1>1, <1>3, <1>4 DEF dsize

(* extend_heap gives a free block that is large enough, or changes nothing.*)
LEMMA ExtendHeap ==
    ASSUME NEW h, NEW H, NEW N, Sound(h, H, N, NULL), NEW size \in Nat, size >= chunksize
    PROVE  \/ extend_heap(h, size) = [block |-> NULL, heap |-> h]
           \/ N = Lists /\ Grows(h, H, extend_heap(h, size), size)
<1> DEFINE n == round_up(size, dsize)
           b == Brk(h) - 1
           c == coalesce_block(Extended(h, b, n), b)
<1>1. n \in Nat /\ n >= size /\ n % 2 = 0 /\ n >= 4
  BY RoundedUp, Chunk
<1>2. n = round_up(size, dsize) /\ b = Brk(h) - 1
  OBVIOUS
<1> HIDE DEF n, b
<1>3. extend_heap(h, size) = IF ~CanGrow(h, n) THEN [block |-> NULL, heap |-> h] ELSE c
  BY <1>2, ExtendIs
<1>4. CASE ~CanGrow(h, n)
  BY <1>3, <1>4
<1>5. CASE CanGrow(h, n)
  <2>1. N = Lists
    <3>1. Brk(h) \in Nat /\ MaxHeap \in Nat
      BY MemoryParts, HeapAssumption DEF Sound
    <3>2. CanGrow(h, chunksize)
      BY <1>1, <1>5, <3>1, Chunk DEF CanGrow
    <3> QED
      BY <3>2 DEF Sound, Started
  <2>2. Grows(h, H, c, n)
    BY <1>1, <1>2, <1>5, <2>1, Growing
  <2> HIDE DEF c
  <2>3. Grows(h, H, c, size)
    <3>1. PICK H2 : /\ Sound(c.heap, H2, Lists, NULL) /\ Keeps(h, H, c.heap, H2, NULL)
                    /\ c.block \in H2 /\ ~get_alloc(c.heap, c.block)
                    /\ get_size(c.heap, c.block) >= n
      BY <2>2 DEF Grows
    <3>2. get_size(c.heap, c.block) >= size
      <4>1. get_size(c.heap, c.block) \in Nat
        BY <3>1, MemoryParts DEF Sound
      <4> QED
        BY <1>1, <3>1, <4>1
    <3> QED
      BY <3>1, <3>2 DEF Grows
  <2> QED
    BY <1>3, <1>5, <2>1, <2>3
<1> QED
  BY <1>4, <1>5

(* A heap that is sound, or that there is none of yet.                     *)
Fine(h, H, N) == Sound(h, H, N, NULL) \/ (h = no_heap /\ H = {} /\ N = Lists)

(* The heap before mm_init. *)
LEMMA NoHeap ==
    /\ Memory(no_heap) /\ Brk(no_heap) = 0 /\ ~no_heap.strayed /\ no_heap.heap_start = NULL
    /\ \A n \in Lists : no_heap.root_list[n] = NULL
<1>1. no_heap = [mem |-> <<>>, heap_start |-> NULL,
                 root_list |-> [n \in Lists |-> NULL], strayed |-> FALSE]
  BY DEF no_heap
<1>2. <<>> \in Seq(WordValues) /\ NULL \in Nat /\ [n \in Lists |-> NULL] \in [Lists -> Nat]
      /\ Len(<<>>) = 0
  BY DEF NULL
<1> QED
  BY <1>1, <1>2 DEF Memory, Brk

(* What holds of both. *)
LEMMA FineParts ==
    ASSUME NEW h, NEW H, NEW N, Fine(h, H, N)
    PROVE  /\ Memory(h) /\ ~h.strayed /\ Brk(h) \in Nat /\ Brk(h) <= MaxHeap
           /\ \A c \in H : c \in Nat /\ c # NULL /\ c <= Brk(h) - 1
<1>1. CASE Sound(h, H, N, NULL)
  <2>1. Memory(h) /\ Tiled(h, H) /\ ~h.strayed
    BY <1>1 DEF Sound
  <2>2. \A c \in H : c \in Nat /\ c # NULL /\ c <= Brk(h) - 1
    BY <2>1, TiledParts DEF NULL
  <2>3. Brk(h) \in Nat /\ Brk(h) <= MaxHeap
    BY <2>1, MemoryParts DEF Tiled
  <2> QED
    BY <2>1, <2>2, <2>3
<1>2. CASE h = no_heap /\ H = {}
  BY <1>2, NoHeap, HeapAssumption
<1> QED
  BY <1>1, <1>2 DEF Fine

(* A list is empty if its root is NULL. *)
LEMMA EmptyList ==
    ASSUME NEW h, NEW n, h.root_list[n] = NULL
    PROVE  /\ Holds(h, n, {})
           /\ \A S : Holds(h, n, S) /\ (\A x \in S : Node(h, n, x)) => S = {}
<1>1. Holds(h, n, {})
  <2> DEFINE s == [i \in 1 .. 0 |-> {}]
  <2>1. s \in [1 .. 0 -> {}] /\ 0 \in Nat /\ \A i : i \notin 1 .. 0
    OBVIOUS
  <2> HIDE DEF s
  <2>2. Chain(h, n, {}, 0, s)
    BY <2>1 DEF Chain
  <2> QED
    BY <2>2 DEF Holds
<1>2. ASSUME NEW S, Holds(h, n, S), \A x \in S : Node(h, n, x)
      PROVE  S = {}
  <2>1. PICK k, s : Chain(h, n, S, k, s)
    BY <1>2 DEF Holds
  <2>2. k = 0
    <3>1. SUFFICES ASSUME k # 0 PROVE FALSE
      OBVIOUS
    <3>2. k \in Nat /\ 1 \in 1 .. k /\ s[1] \in S /\ h.root_list[n] = s[1]
      BY <2>1, <3>1 DEF Chain
    <3> QED
      BY <1>2, <3>2 DEF Node, NULL
  <2> QED
    BY <2>1, <2>2 DEF Chain
<1> QED
  BY <1>1, <1>2

(* The heap that mm_init extends: a prologue and an epilogue after all     *)
(* that there is.                                                          *)
Begun(h) ==
    [put(put(mem_sbrk(h, 2), Brk(h), pack(0, TRUE, TRUE, FALSE)),
         Brk(h) + 1, pack(0, TRUE, FALSE, FALSE))
     EXCEPT !.heap_start = Brk(h) + 1,
            !.root_list = [n \in Lists |-> IF n = SIZE - 1 THEN Brk(h) + 1 ELSE NULL]]

Begins(h, g, b) ==
    /\ Memory(g) /\ Brk(g) = b + 1 /\ g.heap_start = b /\ g.strayed = h.strayed
    /\ g.root_list = [n \in Lists |-> IF n = SIZE - 1 THEN b ELSE NULL]
    /\ \A a \in Int : a < b - 1 => Word(g, a) = Word(h, a)
    /\ get_size(g, b - 1) = 0
    /\ Word(g, b) = Epilogue

(* An epilogue has size 0 and is allocated. *)
LEMMA EpilogueParts ==
    /\ Epilogue \in WordValues /\ extract_size(Epilogue) = 0 /\ Bit(Epilogue, "alloc")
    /\ ~Bit(Epilogue, "prev") /\ ~Bit(Epilogue, "prev_16B")
<1>1. PICK t, f \in BOOLEAN : t = TRUE /\ f = FALSE
  OBVIOUS
<1> DEFINE w == pack(0, t, f, f)
<1>2. /\ w \in WordValues /\ extract_size(w) = 0 /\ (Bit(w, "alloc") <=> t) /\ (Bit(w, "prev") <=> f)
      /\ (Bit(w, "prev_16B") <=> f)
  BY Packed
<1>3. Epilogue = w
  BY <1>1 DEF Epilogue
<1> HIDE DEF w
<1> QED
  BY <1>1, <1>2, <1>3

(* mm_init writes that. *)
LEMMA BegunIs ==
    ASSUME NEW h, Memory(h), NEW b, b = Brk(h) + 1, NEW g, g = Begun(h)
    PROVE  Begins(h, g, b)
<1> DEFINE g0 == mem_sbrk(h, 2)
           v == pack(0, TRUE, TRUE, FALSE)
           g1 == put(g0, b - 1, v)
           g2 == put(g1, b, Epilogue)
           roots == [n \in Lists |-> IF n = SIZE - 1 THEN b ELSE NULL]
<1>1. Brk(h) \in Nat /\ b \in Nat /\ b - 1 = Brk(h) /\ b - 1 # b /\ b - 1 \in Nat
  BY MemoryParts
<1>2. /\ Memory(g0) /\ Brk(g0) = Brk(h) + 2 /\ g0.strayed = h.strayed
      /\ \A a : Word(g0, a) = Word(h, a)
  BY Sbrk
<1>3. g = [g2 EXCEPT !.heap_start = b, !.root_list = roots]
  <2>1. put(put(mem_sbrk(h, 2), Brk(h), pack(0, TRUE, TRUE, FALSE)),
            Brk(h) + 1, pack(0, TRUE, FALSE, FALSE)) = g2
    BY <1>1 DEF Epilogue
  <2> HIDE DEF g2
  <2> QED
    BY <1>1, <2>1 DEF Begun
<1>4. v \in WordValues /\ extract_size(v) = 0
  <2>1. PICK t, f \in BOOLEAN : t = TRUE /\ f = FALSE
    OBVIOUS
  <2> DEFINE w == pack(0, t, t, f)
  <2>2. w \in WordValues /\ extract_size(w) = 0
    BY Packed
  <2>3. v = w
    BY <2>1
  <2> HIDE DEF w, v
  <2> QED
    BY <2>2, <2>3
<1> HIDE DEF g0, v
<1>5. b - 1 \in Within(g0) /\ b \in Within(g0)
  <2>1. Brk(g0) - 1 = b
    BY <1>1, <1>2
  <2> QED
    BY <1>1, <2>1 DEF Within
<1>6. /\ Wrote(g0, g1) /\ Word(g1, b - 1) = v /\ \A x : x # b - 1 => Word(g1, x) = Word(g0, x)
  BY <1>2, <1>4, <1>5, PutWithin
<1> HIDE DEF g1
<1>7. Memory(g1) /\ b \in Within(g1)
  BY <1>5, <1>6, Wrote2
<1>8. /\ Wrote(g1, g2) /\ Word(g2, b) = Epilogue /\ \A x : x # b => Word(g2, x) = Word(g1, x)
  BY <1>7, EpilogueParts, PutWithin
<1> HIDE DEF g2
<1>9. Memory(g2) /\ Brk(g2) = b + 1 /\ g2.strayed = h.strayed
  <2>1. Memory(g2) /\ Brk(g2) = Brk(g0) /\ g2.strayed = g0.strayed
    BY <1>6, <1>8, Wrote2
  <2> QED
    BY <1>1, <1>2, <2>1
<1>10. Word(g2, b - 1) = v /\ \A a \in Int : a < b - 1 => Word(g2, a) = Word(h, a)
  BY <1>1, <1>2, <1>6, <1>8
<1>11. g2 = [mem |-> g2.mem, heap_start |-> g2.heap_start,
             root_list |-> g2.root_list, strayed |-> g2.strayed]
       /\ g2.mem \in Seq(WordValues) /\ g2.strayed \in BOOLEAN
  BY <1>9 DEF Memory
<1>12. roots \in [Lists -> Nat]
  BY <1>1 DEF NULL
<1> HIDE DEF roots
<1>13. g = [mem |-> g2.mem, heap_start |-> b, root_list |-> roots, strayed |-> g2.strayed]
  BY <1>3, <1>11
<1>14. g.mem = g2.mem /\ g.heap_start = b /\ g.root_list = roots /\ g.strayed = g2.strayed
  BY <1>13
<1>15. Memory(g)
  BY <1>1, <1>11, <1>12, <1>13 DEF Memory
<1>16. Brk(g) = Brk(g2) /\ \A a : Word(g, a) = Word(g2, a)
  BY <1>14 DEF Brk, Word
<1>17. get_size(g, b - 1) = 0
  BY <1>4, <1>10, <1>16 DEF get_size
<1> QED
  BY <1>8, <1>9, <1>10, <1>14, <1>15, <1>16, <1>17 DEF Begins, roots

(* Its blocks: those there were, none of them free, and the epilogue.      *)
Fresh(g, Hb, b) ==
    /\ Ground(g, Hb, b) /\ First(g, b) /\ b \in Hb
    /\ \A c \in Hb : get_alloc(g, c)
    /\ ~Follows(g, Hb, b)
    /\ get_size(g, b) = 0 /\ ~get_prev_alloc(g, b)

(* What there is before the prologue: blocks in order, none of them free.  *)
Full(h, H) ==
    /\ Memory(h) /\ ~h.strayed /\ Brk(h) \in Nat
    /\ \/ H = {} /\ Brk(h) = 0
       \/ Tiled(h, H) /\ Tagged(h, H, NULL) /\ Preceded(h, H, Lists)
    /\ \A c \in H : get_alloc(h, c)

(* With all lists empty every block is allocated. *)
LEMMA FullIs ==
    ASSUME NEW h, NEW H, NEW N, Fine(h, H, N), \A n \in Lists : h.root_list[n] = NULL
    PROVE  Full(h, H)
<1>1. Memory(h) /\ ~h.strayed /\ Brk(h) \in Nat
  BY FineParts
<1>2. CASE h = no_heap /\ H = {}
  BY <1>1, <1>2, NoHeap DEF Full
<1>3. CASE Sound(h, H, N, NULL)
  <2>1. /\ Tiled(h, H) /\ Tagged(h, H, NULL) /\ Preceded(h, H, N) /\ Started(h, H, N)
        /\ Filed(h, H, N, NULL)
    BY <1>3 DEF Sound
  <2>2. \A c \in H : c # NULL /\ c \in Nat
    BY <1>1, <2>1, TiledParts DEF NULL
  <2>3. N = Lists
    <3>1. Brk(h) - 1 # NULL
      BY <1>1, <2>1, TiledParts DEF NULL
    <3> QED
      BY <2>1, <3>1, Chunk DEF Started
  <2>4. ASSUME NEW c \in H, ~get_alloc(h, c)
        PROVE  FALSE
    <3> DEFINE n == Number(h, c)
               S == Members(h, H, Lists, NULL)
    <3>1. n \in Lists /\ Linked(h, Lists, S)
      BY <2>1, <2>2, <2>3, <2>4 DEF Filed
    <3>2. c \in S[n]
      BY <2>2, <2>4, <3>1 DEF Members
    <3> HIDE DEF n, S
    <3>3. Holds(h, n, S[n]) /\ (\A x \in S[n] : Node(h, n, x)) /\ h.root_list[n] = NULL
      BY <3>1 DEF Linked
    <3>4. S[n] = {}
      <4> DEFINE T == S[n]
      <4>1. Holds(h, n, T) /\ (\A x \in T : Node(h, n, x)) /\ h.root_list[n] = NULL
        BY <3>3
      <4> HIDE DEF T
      <4>2. T = {}
        BY <4>1, EmptyList
      <4> QED
        BY <4>2 DEF T
    <3> QED
      BY <3>2, <3>4
  <2> QED
    BY <1>1, <2>1, <2>3, <2>4 DEF Full
<1> QED
  BY <1>2, <1>3 DEF Fine

(* The prologue and the epilogue follow on what there is. *)
LEMMA FreshIs ==
    ASSUME NEW h, NEW H, Full(h, H), CanGrow(h, 2), NEW b, b = Brk(h) + 1,
           NEW g, Begins(h, g, b)
    PROVE  Fresh(g, H \cup {b}, b) /\ Keeps(h, H, g, H \cup {b}, NULL)
<1> DEFINE Hb == H \cup {b}
           B == Brk(h)
<1>1. /\ Memory(h) /\ B \in Nat /\ \A c \in H : get_alloc(h, c)
      /\ \/ H = {} /\ B = 0
         \/ Tiled(h, H) /\ Tagged(h, H, NULL) /\ Preceded(h, H, Lists)
  BY DEF Full
<1>2. /\ Memory(g) /\ Brk(g) = b + 1
      /\ \A a \in Int : a < b - 1 => Word(g, a) = Word(h, a)
      /\ get_size(g, b - 1) = 0 /\ Word(g, b) = Epilogue
  BY DEF Begins
<1>3. /\ get_size(g, b) = 0 /\ get_alloc(g, b) /\ ~get_prev_alloc(g, b) /\ ~get_prev_16B(g, b)
  BY <1>2, EpilogueParts DEF get_size, get_alloc, get_prev_alloc, get_prev_16B
<1>4. /\ b \in Nat /\ b >= 1 /\ b = B + 1 /\ b + 1 <= MaxHeap
  BY <1>1 DEF CanGrow
<1>5. ASSUME NEW c \in H
      PROVE  /\ c \in Nat /\ c >= 1 /\ c <= B - 1 /\ c % 2 = 1 /\ Tiled(h, H)
             /\ get_size(h, c) \in Nat /\ get_size(h, c) % 2 = 0
             /\ get_size(h, c) # 0 => c # B - 1 /\ c + get_size(h, c) \in H
  <2>1. Tiled(h, H)
    BY <1>1
  <2>2. get_size(h, c) # 0 => c + get_size(h, c) \in H
    BY <1>1, <2>1, NextBlock
  <2> QED
    BY <1>1, <2>1, <2>2, TiledParts
<1>6. ASSUME NEW c \in H
      PROVE  /\ Word(g, c) = Word(h, c) /\ Word(g, c - 1) = Word(h, c - 1)
             /\ get_size(g, c) = get_size(h, c) /\ get_alloc(g, c)
             /\ get_alloc(g, c) <=> get_alloc(h, c)
             /\ get_prev_alloc(g, c) <=> get_prev_alloc(h, c)
             /\ get_prev_16B(g, c) <=> get_prev_16B(h, c)
  <2>1. c \in Int /\ c < b - 1 /\ c - 1 \in Int /\ c - 1 < b - 1
    <3>1. c \in Nat /\ c <= B - 1 /\ B \in Nat /\ b = B + 1
      BY <1>1, <1>4, <1>5
    <3> HIDE DEF B
    <3> QED
      BY <3>1
  <2>2. Word(g, c) = Word(h, c) /\ Word(g, c - 1) = Word(h, c - 1)
    BY <1>2, <2>1
  <2> QED
    BY <1>1, <2>2 DEF get_size, get_alloc, get_prev_alloc, get_prev_16B
<1>7. \A c : c \in Hb <=> c \in H \/ c = b
  OBVIOUS
<1>8. b \notin H
  BY <1>1, <1>4, <1>5
<1>9. 1 \in Hb /\ b % 2 = 1
  <2>1. CASE H = {} /\ B = 0
    BY <1>4, <2>1
  <2>2. CASE Tiled(h, H)
    <3>1. 1 \in H /\ B - 1 \in H
      BY <2>2 DEF Tiled
    <3>2. (B - 1) % 2 = 1
      BY <1>5, <3>1
    <3> QED
      BY <1>1, <1>4, <3>1, <3>2
  <2> QED
    BY <1>1, <2>1, <2>2
<1>10. Brk(h) = B
  OBVIOUS
<1> HIDE DEF Hb, B
<1>11. Tiled(g, Hb)
  <2>1. Hb \subseteq 1 .. Brk(g) - 1 /\ Brk(g) - 1 \in Hb /\ get_size(g, Brk(g) - 1) = 0
        /\ Brk(g) <= MaxHeap /\ Brk(g) - 1 = b
    <3>1. Brk(g) - 1 = b
      BY <1>2, <1>4
    <3>2. \A c \in Hb : c \in 1 .. b
      BY <1>1, <1>4, <1>5, <1>7
    <3> QED
      BY <1>2, <1>3, <1>4, <1>7, <3>1, <3>2
  <2>2. \A c \in Hb : /\ c % 2 = 1 /\ get_size(g, c) % 2 = 0
                      /\ get_size(g, c) = 0 => get_alloc(g, c)
    <3>1. 0 % 2 = 0
      OBVIOUS
    <3> QED
      BY <1>3, <1>5, <1>6, <1>7, <1>9, <3>1
  <2>3. ASSUME NEW c \in Hb, c # Brk(g) - 1
        PROVE  NextHeader(g, c) \in Hb /\ \A x \in Hb : x <= c \/ x >= NextHeader(g, c)
    <3>1. c \in H
      BY <1>7, <2>1, <2>3
    <3>2. NextHeader(g, c) = NextHeader(h, c)
      BY <1>6, <3>1 DEF NextHeader
    <3>3. CASE c = B - 1
      <4>1. NextHeader(h, c) = b
        BY <1>1, <1>4, <1>5, <3>1, <3>3 DEF NextHeader
      <4>2. \A x \in H : x <= c
        BY <1>5, <3>3
      <4> QED
        BY <1>4, <1>7, <3>2, <4>1, <4>2
    <3>4. CASE c # B - 1
      <4>1. NextHeader(h, c) \in H /\ \A x \in H : x <= c \/ x >= NextHeader(h, c)
        BY <1>5, <1>10, <3>1, <3>4 DEF Tiled
      <4>2. b >= NextHeader(h, c)
        BY <1>1, <1>4, <1>5, <4>1
      <4> QED
        BY <1>7, <3>2, <4>1, <4>2
    <3> QED
      BY <3>3, <3>4
  <2> QED
    BY <1>9, <2>1, <2>2, <2>3 DEF Tiled
<1>12. Tagged(g, Hb, NULL)
  <2> SUFFICES ASSUME NEW c \in Hb, get_size(g, c) # 0
               PROVE  Told(g, c, NULL)
    BY DEF Tagged
  <2>1. c \in H
    BY <1>3, <1>7
  <2> DEFINE d == c + get_size(h, c)
  <2>2. get_size(g, c) = get_size(h, c) /\ d \in H
    BY <1>5, <1>6, <2>1
  <2>3. Told(h, c, NULL)
    BY <1>1, <1>5, <2>1, <2>2 DEF Tagged
  <2>4. c + get_size(g, c) = d
    BY <2>2
  <2>5. /\ c # NULL => (get_prev_alloc(h, d) <=> get_alloc(h, c))
        /\ get_prev_16B(h, d) <=> get_size(h, c) = 2
    BY <2>3 DEF Told
  <2> HIDE DEF d
  <2> QED
    BY <1>6, <2>1, <2>2, <2>4, <2>5 DEF Told
<1>13. ~Follows(g, Hb, b)
  <2> SUFFICES ASSUME NEW d \in Hb, get_size(g, d) # 0, d + get_size(g, d) = b
               PROVE  FALSE
    BY DEF Follows
  <2>1. d \in H
    BY <1>3, <1>7
  <2> QED
    BY <1>5, <1>6, <1>8, <2>1
<1>14. ASSUME NEW c \in Hb
       PROVE  get_prev_alloc(g, c) \/ Follows(g, Hb, c) \/ c = b
  <2>1. CASE c = b
    BY <2>1
  <2>2. CASE c \in H
    <3>1. get_prev_alloc(h, c) \/ Follows(h, H, c)
      BY <1>1, <1>5, <2>2 DEF Preceded
    <3>2. ASSUME Follows(h, H, c)
          PROVE  Follows(g, Hb, c)
      <4>1. PICK d \in H : get_size(h, d) # 0 /\ d + get_size(h, d) = c
        BY <3>2 DEF Follows
      <4> QED
        BY <1>6, <1>7, <4>1 DEF Follows
    <3> QED
      BY <1>6, <2>2, <3>1, <3>2
  <2> QED
    BY <1>7, <2>1, <2>2
<1>15. First(g, b)
  BY <1>2, <1>3 DEF First, get_size
<1>16. Ground(g, Hb, b)
  <2>1. b = Brk(g) - 1
    BY <1>2, <1>4
  <2> QED
    BY <1>2, <1>4, <1>11, <1>12, <1>14, <1>15, <2>1 DEF Ground
<1>17. Keeps(h, H, g, Hb, NULL)
  <2>1. ASSUME NEW c \in H, get_alloc(h, c), get_size(h, c) # 0
        PROVE  /\ c \in Hb /\ get_alloc(g, c) /\ get_size(g, c) = get_size(h, c)
               /\ \A a \in c + 1 .. c + get_size(h, c) - 1 : Word(g, a) = Word(h, a)
    <3>1. ASSUME NEW a \in c + 1 .. c + get_size(h, c) - 1
          PROVE  Word(g, a) = Word(h, a)
      <4>1. c + get_size(h, c) <= B - 1 /\ c \in Nat /\ get_size(h, c) \in Nat
        BY <1>5, <2>1
      <4>2. a \in Int /\ a < b - 1
        BY <1>1, <1>4, <4>1
      <4> QED
        BY <1>2, <4>2
    <3> QED
      BY <1>6, <1>7, <2>1, <3>1
  <2>2. ASSUME NEW c \in Hb, get_alloc(g, c), get_size(g, c) # 0
        PROVE  c \in H /\ get_alloc(h, c) /\ get_size(h, c) # 0
    BY <1>1, <1>3, <1>6, <1>7, <2>2
  <2> QED
    BY <2>1, <2>2 DEF Keeps
<1>18. Fresh(g, Hb, b)
  BY <1>3, <1>6, <1>7, <1>13, <1>15, <1>16 DEF Fresh
<1> QED
  BY <1>17, <1>18 DEF Hb

(* With no free block all lists are empty. *)
LEMMA NoneFree ==
    ASSUME NEW g, NEW H, NEW N, N \subseteq Lists, \A c \in H : get_alloc(g, c),
           \A n \in N : g.root_list[n] = NULL
    PROVE  Filed(g, H, N, NULL)
<1> DEFINE S == Members(g, H, N, NULL)
<1>1. \A n \in N : S[n] = {}
  BY DEF Members
<1>2. S \in [N -> SUBSET Nat]
  <2>1. S = [n \in N |-> S[n]]
    BY DEF Members
  <2> HIDE DEF S
  <2> QED
    BY <1>1, <2>1
<1> HIDE DEF S
<1>3. \A n \in N : Holds(g, n, S[n])
  BY <1>1, EmptyList
<1>4. Linked(g, N, S)
  BY <1>1, <1>2, <1>3 DEF Linked
<1> QED
  BY <1>4 DEF Filed, S

(* No room for a first block: the epilogue stays in its place.             *)
LEMMA FreshSentinel ==
    ASSUME NEW h, ~h.strayed, NEW g, NEW b, Begins(h, g, b), NEW Hb, Fresh(g, Hb, b),
           ~CanGrow(g, chunksize)
    PROVE  Sound(g, Hb, Lists \ {SIZE - 1}, NULL)
<1> DEFINE N == Lists \ {SIZE - 1}
<1>1. /\ Memory(g) /\ Tiled(g, Hb) /\ Tagged(g, Hb, NULL) /\ b = Brk(g) - 1
      /\ \A c \in Hb : get_prev_alloc(g, c) \/ Follows(g, Hb, c) \/ c = b
      /\ b \in Hb /\ \A c \in Hb : get_alloc(g, c)
      /\ ~Follows(g, Hb, b)
  BY DEF Fresh, Ground
<1>2. /\ g.heap_start = b /\ ~g.strayed /\ g.root_list[SIZE - 1] = b
      /\ \A n \in N : g.root_list[n] = NULL
  BY Chunk DEF Begins
<1>3. N # Lists /\ N \subseteq Lists /\ N = Lists \ {SIZE - 1}
  BY Chunk
<1> HIDE DEF N
<1>4. Filed(g, Hb, N, NULL)
  BY <1>1, <1>2, <1>3, NoneFree
<1>5. Started(g, Hb, N)
  BY <1>1, <1>2, <1>3 DEF Started
<1>6. Preceded(g, Hb, N)
  BY <1>1, <1>3 DEF Preceded
<1> QED
  BY <1>1, <1>2, <1>4, <1>5, <1>6 DEF Sound, N

(* Writing what is there changes nothing. *)
LEMMA PutSame ==
    ASSUME NEW h, Memory(h), NEW a \in Within(h), NEW w, Word(h, a) = w
    PROVE  put(h, a, w) = h
<1> DEFINE m == h.mem
           m2 == [m EXCEPT ![a + 1] = w]
<1>1. h = [mem |-> m, heap_start |-> h.heap_start,
           root_list |-> h.root_list, strayed |-> h.strayed]
      /\ m \in Seq(WordValues)
  BY DEF Memory
<1>2. a \in 0 .. Brk(h) - 1 /\ m[a + 1] = w
  BY DEF Within, Word
<1>3. put(h, a, w) = [h EXCEPT !.mem = m2]
  BY <1>1, <1>2 DEF put
<1>4. m2 = m
  <2> HIDE DEF m
  <2>1. m = [i \in 1 .. Len(m) |-> m[i]]
    BY <1>1
  <2> QED
    BY <1>2, <2>1
<1> HIDE DEF m2
<1> QED
  BY <1>1, <1>3, <1>4

(* The first block of a new heap is its list already.                      *)
FirstBlock(g, b, n) ==
    /\ Memory(g) /\ b \in Within(g) /\ b + n \in Within(g)
    /\ get_size(g, b) = n /\ get_prev_alloc(g, b)
    /\ g.root_list[find_listnumber(n)] = b
    /\ Word(g, b + n) = Epilogue

(* coalesce_block leaves the first block as it is. *)
LEMMA CoalesceFirst ==
    ASSUME NEW g, NEW b, NEW n \in Nat, FirstBlock(g, b, n)
    PROVE  coalesce_block(g, b) = [block |-> b, heap |-> g]
<1> DEFINE e == b + n
<1>1. find_next(g, b) = e
  BY DEF find_next, FirstBlock
<1>2. Word(g, e) = Epilogue /\ e \in Within(g) /\ Memory(g)
  BY DEF FirstBlock
<1> HIDE DEF e
<1>3. insert_node(g, b) = g
  BY DEF insert_node, FirstBlock
<1>4. /\ get_size(g, e) = 0 /\ get_alloc(g, e) = TRUE /\ get_prev_16B(g, e) = FALSE
  BY <1>2, EpilogueParts DEF get_size, get_alloc, get_prev_16B, Bit
<1>5. set_prev_alloc(g, e, FALSE) = put(g, e, Epilogue)
  BY <1>4 DEF set_prev_alloc, Epilogue
<1>6. put(g, e, Epilogue) = g
  BY <1>2, PutSame
<1>7. get_prev_alloc(g, b) /\ get_alloc(g, find_next(g, b))
  BY <1>1, <1>4 DEF FirstBlock
<1>8. coalesce_block(g, b) = [block |-> b, heap |-> set_prev_alloc(insert_node(g, b), e, FALSE)]
  BY <1>1, <1>7 DEF coalesce_block, Coalesced
<1> QED
  BY <1>3, <1>5, <1>6, <1>8

(* There is room: the first block takes the place of the epilogue. *)
LEMMA FreshGrown ==
    ASSUME NEW h, ~h.strayed, NEW g, NEW b, Begins(h, g, b), NEW Hb, Fresh(g, Hb, b),
           CanGrow(g, chunksize), NEW r, r = Extended(g, b, chunksize)
    PROVE  /\ coalesce_block(r, b) = [block |-> b, heap |-> r]
           /\ Sound(r, Hb \cup {b + chunksize}, Lists, NULL)
           /\ Keeps(g, Hb, r, Hb \cup {b + chunksize}, NULL)
<1> DEFINE n == chunksize
           e == b + n
           H1 == Hb \cup {b + n}
           m0 == SIZE - 1
           S == Members(r, H1, Lists, NULL)
<1>0. n \in Nat /\ n >= 4 /\ n % 2 = 0 /\ n = chunksize
      /\ find_listnumber(n) = m0 /\ m0 \in Lists /\ m0 # 0
  BY Chunk
<1> HIDE DEF n, m0
<1>1. /\ Ground(g, Hb, b) /\ Memory(g) /\ b \in Nat /\ b = Brk(g) - 1
      /\ First(g, b) /\ b \in Hb /\ Tiled(g, Hb)
      /\ \A c \in Hb : get_alloc(g, c)
      /\ ~Follows(g, Hb, b) /\ get_size(g, b) = 0
  BY DEF Fresh, Ground
<1>2. g.heap_start = b /\ ~g.strayed
      /\ \A m \in Lists : g.root_list[m] = IF m = m0 THEN b ELSE NULL
  BY DEF Begins, m0
<1>3. GrownBy(g, r, b, n)
  BY <1>0, <1>1, ExtendedIs
<1>4. Raised(g, Hb, r, b, n)
  BY <1>0, <1>1, <1>3, RaisedIs
<1>5. /\ Tiled(r, H1) /\ Tagged(r, H1, b) /\ Preceded(r, H1, Lists) /\ Keeps(g, Hb, r, H1, NULL)
      /\ \A c \in Hb : c # b => /\ get_size(r, c) = get_size(g, c)
                                /\ get_alloc(r, c) <=> get_alloc(g, c)
      /\ \A c \in Hb : Follows(r, H1, c) <=> Follows(g, Hb, c)
  BY <1>4 DEF Raised
<1>6. /\ Memory(r) /\ Brk(r) = Brk(g) + n /\ r.heap_start = g.heap_start
      /\ r.root_list = g.root_list /\ r.strayed = g.strayed
      /\ get_size(r, b) = n /\ ~get_alloc(r, b)
      /\ get_prev_alloc(r, b)
      /\ get(r, b + 1) = NULL /\ get(r, b + 2) = NULL
      /\ get_size(r, e) = 0 /\ get_alloc(r, e) /\ ~get_prev_alloc(r, e)
      /\ Word(r, e) = Epilogue
  BY <1>1, <1>3 DEF GrownBy
<1>7. \A c : c \in H1 <=> c \in Hb \/ c = e
  OBVIOUS
<1>8. b % 2 = 1 /\ b # NULL /\ Brk(g) \in Nat /\ Brk(r) = e + 1 /\ e = b + n /\ e \in Nat
  <2>1. b % 2 = 1 /\ b # NULL /\ Brk(g) \in Nat
    BY <1>1, TiledParts DEF NULL
  <2>2. Brk(r) = Brk(g) + n /\ b = Brk(g) - 1 /\ n \in Nat /\ b \in Nat
    BY <1>0, <1>1, <1>6
  <2>3. Brk(r) = (b + n) + 1 /\ b + n \in Nat
    BY <2>1, <2>2
  <2> QED
    BY <2>1, <2>3
<1> HIDE DEF H1, e
<1>9. \A c \in H1 : ~get_alloc(r, c) <=> c = b
  BY <1>1, <1>5, <1>6, <1>7
<1>10. Tagged(r, H1, NULL)
  <2> SUFFICES ASSUME NEW c \in H1, get_size(r, c) # 0
               PROVE  Told(r, c, NULL)
    BY DEF Tagged
  <2>1. Told(r, c, b)
    BY <1>5 DEF Tagged
  <2>2. CASE c = b
    <3>1. c + get_size(r, c) = e
      BY <1>6, <1>8, <2>2
    <3> QED
      BY <1>6, <2>1, <2>2, <3>1 DEF Told
  <2>3. CASE c # b
    <3>1. get_alloc(r, c)
      BY <1>9, <2>3
    <3> QED
      BY <2>1, <2>3, <3>1 DEF Told
  <2> QED
    BY <2>2, <2>3
<1>11. Started(r, H1, Lists)
  <2>1. get_size(r, b) # 0
    BY <1>0, <1>6
  <2> QED
    BY <1>1, <1>2, <1>5, <1>6, <1>7, <2>1 DEF Started
<1>12. \A m \in Lists : \A c : c \in S[m] <=> c = b /\ m = m0
  <2>1. Number(r, b) = m0 /\ b \in H1
    BY <1>0, <1>1, <1>6, <1>7 DEF Number
  <2> QED
    BY <1>8, <1>9, <2>1 DEF Members
<1>13. S = [m \in Lists |-> S[m]]
  BY DEF Members
<1> HIDE DEF S
<1>14. \A m \in Lists : Holds(r, m, S[m])
  <2> TAKE m \in Lists
  <2>1. CASE m = m0
    <3> DEFINE s == [i \in 1 .. 1 |-> b]
    <3>1. s \in [1 .. 1 -> {b}] /\ s[1] = b /\ 1 \in Nat /\ 1 # 0 /\ \A i \in 1 .. 1 : i = 1
      OBVIOUS
    <3> HIDE DEF s
    <3>2. r.root_list[m] = b
      BY <1>2, <1>6, <2>1
    <3>3. Chain(r, m, {b}, 1, s)
      BY <1>6, <3>1, <3>2 DEF Chain
    <3>4. S[m] = {b}
      BY <1>12, <2>1
    <3> QED
      BY <3>3, <3>4 DEF Holds
  <2>2. CASE m # m0
    <3>1. r.root_list[m] = NULL
      BY <1>2, <1>6, <2>2
    <3>2. S[m] = {}
      BY <1>12, <2>2
    <3> QED
      BY <3>1, <3>2, EmptyList
  <2> QED
    BY <2>1, <2>2
<1>15. Linked(r, Lists, S)
  <2>1. ASSUME NEW m \in Lists, NEW c \in S[m]
        PROVE  Node(r, m, c) /\ c \in Nat
    <3>1. c = b /\ b \in Nat
      BY <1>1, <1>12, <2>1
    <3> QED
      BY <1>0, <1>8, <3>1 DEF Node
  <2>2. S \in [Lists -> SUBSET Nat]
    BY <1>13, <2>1
  <2>3. \A m, k \in Lists : m # k => S[m] \cap S[k] = {}
    BY <1>12
  <2> QED
    BY <1>14, <2>1, <2>2, <2>3 DEF Linked
<1>16. Filed(r, H1, Lists, NULL)
  <2>1. \A c \in H1 : ~get_alloc(r, c) => Number(r, c) \in Lists
    BY <1>0, <1>6, <1>9 DEF Number
  <2> QED
    BY <1>15, <2>1 DEF Filed, S
<1>17. Sound(r, H1, Lists, NULL)
  BY <1>2, <1>5, <1>6, <1>10, <1>11, <1>16 DEF Sound
<1>18. FirstBlock(r, b, n)
  <2>1. b \in Within(r) /\ e \in Within(r)
    BY <1>0, <1>1, <1>8 DEF Within
  <2> QED
    BY <1>0, <1>2, <1>6, <1>8, <2>1 DEF FirstBlock
<1>19. coalesce_block(r, b) = [block |-> b, heap |-> r]
  BY <1>0, <1>18, CoalesceFirst
<1> QED
  BY <1>5, <1>17, <1>19 DEF H1, n

(* A heap that is sound, or that there is no memory for.                   *)
Set(h, H, N) ==
    \/ Sound(h, H, N, NULL)
    \/ h = no_heap /\ H = {} /\ N = Lists /\ ~CanGrow(h, 2)

(* mm_init leaves such a heap, and the payloads in place.                  *)
LEMMA MmInitIs ==
    ASSUME NEW h, NEW H, NEW N, Fine(h, H, N), \A n \in Lists : h.root_list[n] = NULL
    PROVE  \E H2, N2 : Set(mm_init(h), H2, N2) /\ Keeps(h, H, mm_init(h), H2, NULL)
<1> DEFINE g == Begun(h)
           b == Brk(h) + 1
           Hb == H \cup {b}
           r == Extended(g, b, chunksize)
<1>1. /\ Memory(h) /\ ~h.strayed /\ Full(h, H) /\ Brk(h) \in Nat
      /\ \A c \in H : c # NULL /\ c \in Nat
  BY FullIs, FineParts
<1>2. mm_init(h) = IF CanGrow(h, 2) THEN extend_heap(g, chunksize).heap ELSE h
  BY DEF mm_init, Begun
<1>3. Begins(h, g, b)
  BY <1>1, BegunIs
<1>4. g = Begun(h) /\ b = Brk(h) + 1
  OBVIOUS
<1> HIDE DEF g
<1>5. CASE ~CanGrow(h, 2)
  <2>1. Keeps(h, H, h, H, NULL)
    BY DEF Keeps
  <2> QED
    BY <1>2, <1>5, <2>1 DEF Fine, Set
<1>6. CASE CanGrow(h, 2)
  <2>1. Fresh(g, Hb, b) /\ Keeps(h, H, g, Hb, NULL)
    BY <1>1, <1>3, <1>6, FreshIs
  <2>2. b = Brk(g) - 1 /\ b \in Nat
    BY <2>1 DEF Fresh, Ground
  <2>3. NULL \notin Hb
    BY <1>1 DEF NULL
  <2> HIDE DEF b, Hb
  <2>4. chunksize = round_up(chunksize, dsize)
    BY Chunk, RoundedUp
  <2>5. extend_heap(g, chunksize) = IF ~CanGrow(g, chunksize) THEN [block |-> NULL, heap |-> g]
                                    ELSE coalesce_block(r, b)
    BY <2>2, <2>4, ExtendIs
  <2> HIDE DEF r
  <2>6. CASE ~CanGrow(g, chunksize)
    <3>1. mm_init(h) = g
      BY <1>2, <1>6, <2>5, <2>6
    <3>2. Sound(g, Hb, Lists \ {SIZE - 1}, NULL)
      BY <1>1, <1>3, <2>1, <2>6, FreshSentinel
    <3> QED
      BY <2>1, <3>1, <3>2 DEF Set
  <2>7. CASE CanGrow(g, chunksize)
    <3> DEFINE H1 == Hb \cup {b + chunksize}
    <3>1. /\ coalesce_block(r, b) = [block |-> b, heap |-> r]
          /\ Sound(r, H1, Lists, NULL)
          /\ Keeps(g, Hb, r, H1, NULL)
      BY <1>1, <1>3, <2>1, <2>7, FreshGrown DEF r
    <3> HIDE DEF H1
    <3>2. mm_init(h) = r
      BY <1>2, <1>6, <2>5, <2>7, <3>1
    <3>3. Keeps(h, H, r, H1, NULL)
      BY <2>1, <2>3, <3>1, KeepsTwice
    <3> QED
      BY <3>1, <3>2, <3>3 DEF Set
  <2> QED
    BY <2>6, <2>7
<1> QED
  BY <1>5, <1>6

(* The list of the epilogue that stands in for a first block. *)
LEMMA SentinelList ==
    ASSUME NEW h, NEW H, NEW N, Sound(h, H, N, NULL), N # Lists
    PROVE  Chain(h, SIZE - 1, {Brk(h) - 1}, 1, [i \in 1 .. 1 |-> Brk(h) - 1])
<1> DEFINE b == Brk(h) - 1
           s == [i \in 1 .. 1 |-> b]
<1>1. Memory(h) /\ Tiled(h, H) /\ h.root_list[SIZE - 1] = b
  BY DEF Sound, Started
<1>2. Brk(h) \in Nat /\ b + 1 \notin 0 .. Brk(h) - 1 /\ b + 2 \notin 0 .. Brk(h) - 1
  BY <1>1, TiledParts
<1> HIDE DEF b
<1>3. get(h, b + 1) = NULL /\ get(h, b + 2) = NULL
  BY <1>2, Pointed DEF get, Word, NULL
<1>4. s \in [1 .. 1 -> {b}] /\ s[1] = b /\ 1 \in Nat /\ 1 # 0 /\ \A i \in 1 .. 1 : i = 1
  OBVIOUS
<1> HIDE DEF s
<1>5. Chain(h, SIZE - 1, {b}, 1, s)
  BY <1>1, <1>3, <1>4 DEF Chain
<1> QED
  BY <1>5 DEF s, b

-----------------------------------------------------------------------------
(* malloc: find_fit, and what is answered. *)

(* What list n holds. *)
InList(h, H, N, n) == IF n \in N THEN Members(h, H, N, NULL)[n] ELSE {Brk(h) - 1}

(* The walk along list n finds all of it, each block once. *)
LEMMA FineList ==
    ASSUME NEW h, NEW H, NEW N, Fine(h, H, N), NEW n \in Lists
    PROVE  /\ FreeList(h, n) \in Seq(InList(h, H, N, n))
           /\ Chain(h, n, InList(h, H, N, n), Len(FreeList(h, n)), FreeList(h, n))
<1> DEFINE S == InList(h, H, N, n)
<1>0. Memory(h) /\ Brk(h) \in Nat
  BY FineParts
<1>1. \E k, s : /\ Chain(h, n, S, k, s) /\ k <= Brk(h) /\ NULL \notin S /\ S \in SUBSET Nat
  <2>1. CASE h = no_heap /\ H = {} /\ N = Lists
    <3>1. S = {}
      BY <2>1 DEF InList, Members
    <3>2. Holds(h, n, {})
      BY <2>1, NoHeap, EmptyList
    <3>3. PICK k, s : Chain(h, n, {}, k, s)
      BY <3>2 DEF Holds
    <3>4. k = 0
      BY <3>3 DEF Chain
    <3>5. k <= Brk(h)
      BY <1>0, <3>4
    <3> QED
      BY <3>1, <3>3, <3>5
  <2>2. CASE Sound(h, H, N, NULL) /\ n \in N
    <3> DEFINE M == Members(h, H, N, NULL)
    <3>1. Linked(h, N, M)
      BY <2>2 DEF Sound, Filed
    <3>2. S = M[n]
      BY <2>2 DEF InList
    <3> HIDE DEF M, S
    <3>3. /\ Holds(h, n, S) /\ \A x \in S : Node(h, n, x)
      BY <2>2, <3>1, <3>2 DEF Linked
    <3>4. S \in SUBSET Nat /\ NULL \notin S
      BY <3>3 DEF Node, NULL
    <3>5. PICK k, s : Chain(h, n, S, k, s)
      BY <3>3 DEF Holds
    <3>6. k <= Brk(h)
      BY <1>0, <3>3, <3>5, ChainShort
    <3> QED
      BY <3>4, <3>5, <3>6
  <2>3. CASE Sound(h, H, N, NULL) /\ n \notin N
    <3>1. n = SIZE - 1 /\ N # Lists /\ S = {Brk(h) - 1}
      BY <2>3 DEF Sound, Started, InList
    <3>2. Chain(h, n, S, 1, [i \in 1 .. 1 |-> Brk(h) - 1])
      BY <2>3, <3>1, SentinelList
    <3>3. Brk(h) >= 2
      BY <2>3, TiledParts DEF Sound
    <3>4. 1 <= Brk(h) /\ Brk(h) - 1 # NULL /\ Brk(h) - 1 \in Nat
      BY <1>0, <3>3 DEF NULL
    <3>5. NULL \notin S /\ S \in SUBSET Nat
      BY <3>1, <3>4
    <3> HIDE DEF S
    <3> QED
      BY <3>2, <3>4, <3>5
  <2> QED
    BY <2>1, <2>2, <2>3 DEF Fine
<1> HIDE DEF S
<1>2. PICK k, s : Chain(h, n, S, k, s) /\ k <= Brk(h) /\ NULL \notin S /\ S \in SUBSET Nat
  BY <1>1
<1>3. FreeList(h, n) = s
  BY <1>0, <1>2, FreeListOf
<1>4. s \in Seq(S) /\ Len(s) = k
  BY <1>2 DEF Chain
<1> QED
  BY <1>2, <1>3, <1>4 DEF S

(* The places that find_fit looks at. *)
LEMMA PlacesIs ==
    ASSUME NEW h, NEW H, NEW N, Fine(h, H, N), NEW from \in Lists, NEW p \in Places(h, from),
           ~get_alloc(h, p[3])
    PROVE  p[1] \in Nat /\ p[2] \in Nat /\ p[3] \in H
<1>1. Lists = 0 .. SIZE - 1 /\ SIZE \in Nat
  BY Chunk DEF Lists
<1>2. PICK n \in from .. SIZE - 1 :
         p \in {<<n, i, FreeList(h, n)[i]>> : i \in DOMAIN FreeList(h, n)}
  BY DEF Places
<1>3. n \in Lists
  BY <1>1, <1>2
<1> DEFINE list == FreeList(h, n)
           S == InList(h, H, N, n)
<1>4. list \in Seq(S)
  BY <1>3, FineList
<1>5. PICK i \in DOMAIN list : p = <<n, i, list[i]>>
  BY <1>2
<1> HIDE DEF list, S
<1>6. i \in Nat /\ list[i] \in S
  BY <1>4, <1>5
<1>7. p[1] = n /\ p[2] = i /\ p[3] = list[i]
  BY <1>5
<1>8. p[3] \in H
  <2>1. CASE n \in N
    BY <1>6, <1>7, <2>1 DEF S, InList, Members
  <2>2. CASE n \notin N
    <3>1. Sound(h, H, N, NULL) /\ p[3] = Brk(h) - 1
      BY <1>3, <1>6, <1>7, <2>2 DEF Fine, S, InList
    <3>2. p[3] \in H
      BY <3>1 DEF Sound, Tiled
    <3> QED
      BY <3>2
  <2> QED
    BY <2>1, <2>2
<1> QED
  BY <1>1, <1>3, <1>6, <1>7, <1>8

(* Among places there is one that none is better than. *)
LEMMA BestIs ==
    ASSUME NEW h, Memory(h), NEW C, C # {}, \A p \in C : p[1] \in Nat /\ p[2] \in Nat
    PROVE  Best(h, C) \in C
<1> DEFINE Sz(p) == get_size(h, p[3])
           A1 == {Sz(p) : p \in C}
<1>1. \A p \in C : Sz(p) \in Nat
  BY MemoryParts
<1> HIDE DEF Sz
<1>2. PICK m1 \in A1 : \A x \in A1 : m1 <= x
  <2>1. A1 \in SUBSET Nat /\ A1 # {}
    BY <1>1
  <2> HIDE DEF A1
  <2> QED
    BY <2>1, Least
<1> DEFINE C1 == {p \in C : Sz(p) = m1}
           A2 == {p[1] : p \in C1}
<1>3. PICK m2 \in A2 : \A x \in A2 : m2 <= x
  <2>1. C1 # {}
    BY <1>2
  <2>2. A2 \in SUBSET Nat /\ A2 # {}
    BY <2>1
  <2> HIDE DEF A2
  <2> QED
    BY <2>2, Least
<1> DEFINE C2 == {p \in C1 : p[1] = m2}
           A3 == {p[2] : p \in C2}
<1>4. PICK m3 \in A3 : \A x \in A3 : m3 <= x
  <2>1. C2 # {}
    BY <1>3
  <2>2. A3 \in SUBSET Nat /\ A3 # {}
    BY <2>1
  <2> HIDE DEF A3
  <2> QED
    BY <2>2, Least
<1>5. PICK p \in C : Sz(p) = m1 /\ p[1] = m2 /\ p[2] = m3
  BY <1>4
<1>6. ASSUME NEW q \in C
      PROVE  Better(h, p, q)
  <2>1. Sz(q) \in Nat /\ m1 \in Nat /\ m1 <= Sz(q)
    BY <1>1, <1>2, <1>5
  <2>2. CASE m1 < Sz(q)
    BY <1>5, <2>2 DEF Better, Sz
  <2>3. CASE Sz(q) = m1
    <3>1. q[1] \in Nat /\ q[2] \in Nat /\ p[1] \in Nat /\ p[2] \in Nat /\ p[1] <= q[1]
      BY <1>3, <1>5, <2>3
    <3>2. q[1] = p[1] => p[2] <= q[2]
      BY <1>4, <1>5, <2>3
    <3>3. ~Precedes(q, p)
      BY <3>1, <3>2 DEF Precedes
    <3> QED
      BY <1>5, <2>3, <3>3 DEF Better, Sz
  <2> QED
    BY <2>1, <2>2, <2>3
<1>7. \E x \in C : \A q \in C : Better(h, x, q)
  BY <1>6
<1> QED
  BY <1>7 DEF Best

(* find_fit gives a free block of at least that size, or none.             *)
LEMMA FitIs ==
    ASSUME NEW h, NEW H, NEW N, Fine(h, H, N), NEW asize \in Nat
    PROVE  \/ find_fit(h, asize) = NULL
           \/ /\ find_fit(h, asize) \in H /\ ~get_alloc(h, find_fit(h, asize))
              /\ asize <= get_size(h, find_fit(h, asize))
<1> DEFINE from == find_listnumber(asize)
           fits == {p \in Places(h, from) : ~get_alloc(h, p[3]) /\ asize <= get_size(h, p[3])}
           chosen == {p \in fits : Cardinality({q \in fits : Precedes(q, p)}) < RANGE}
<1>1. find_fit(h, asize) = IF chosen = {} THEN NULL ELSE Best(h, chosen)[3]
  BY DEF find_fit
<1>2. from \in Lists
  BY ListNumber
<1> HIDE DEF from
<1>3. \A p \in fits : /\ p[1] \in Nat /\ p[2] \in Nat /\ p[3] \in H
                      /\ ~get_alloc(h, p[3]) /\ asize <= get_size(h, p[3])
  BY <1>2, PlacesIs
<1>4. \A p \in chosen : p \in fits
  OBVIOUS
<1> HIDE DEF fits, chosen
<1>5. CASE chosen # {}
  <2>1. Best(h, chosen) \in chosen
    BY <1>3, <1>4, <1>5, FineParts, BestIs
  <2> QED
    BY <1>1, <1>3, <1>4, <1>5, <2>1
<1> QED
  BY <1>1, <1>5

(* What malloc answers: no payload, and nothing has changed for those      *)
(* there are; or a new one that is large enough.                           *)
Refuses(h, H, answer) ==
    answer.bp = NULL /\ \E H2, N2 : Set(answer.heap, H2, N2) /\ Keeps(h, H, answer.heap, H2, NULL)

Gives(h, H, answer, size) ==
    \E b, H2, N2 :
        /\ answer.bp = b + 1 /\ b \in Nat
        /\ Sound(answer.heap, H2, N2, NULL) /\ Keeps(h, H, answer.heap, H2, b)
        /\ b \in H2 /\ get_alloc(answer.heap, b) /\ get_size(answer.heap, b) > size
        /\ ~(b \in H /\ get_alloc(h, b) /\ get_size(h, b) # 0)

Serves(h, H, answer, size) == Refuses(h, H, answer) \/ Gives(h, H, answer, size)

(* A free block that is large enough, with the payloads in place.          *)
Available(h, H, hh, b, asize) ==
    \E Hh, Nh : /\ Sound(hh, Hh, Nh, NULL) /\ Keeps(h, H, hh, Hh, NULL)
                /\ b \in Hh /\ ~get_alloc(hh, b) /\ get_size(hh, b) >= asize

(* Such a block is given to the client. *)
LEMMA PlacedIs ==
    ASSUME NEW h, NEW H, NEW hh, NEW b, NEW asize \in Nat, asize >= 2, asize % 2 = 0,
           NEW size \in Nat, asize > size, Available(h, H, hh, b, asize)
    PROVE  Gives(h, H, Placed(hh, b, asize), size)
<1> DEFINE r == Allocated(hh, b, asize, get_size(hh, b))
<1>1. PICK Hh, Nh : /\ Sound(hh, Hh, Nh, NULL) /\ Keeps(h, H, hh, Hh, NULL)
                    /\ b \in Hh /\ ~get_alloc(hh, b) /\ get_size(hh, b) >= asize
  BY DEF Available
<1>2. \A c \in Hh : c \in Nat /\ c # NULL
  BY <1>1, TiledParts DEF Sound, NULL
<1>3. Allots(hh, Hh, Nh, r, b, asize)
  BY <1>1, Allotted
<1>4. Placed(hh, b, asize) = [bp |-> b + 1, heap |-> r]
  BY <1>1, <1>2 DEF Placed, header_to_payload, wsize
<1> HIDE DEF r
<1>5. PICK H2 : /\ Sound(r, H2, Nh, NULL) /\ Keeps(hh, Hh, r, H2, b)
                /\ b \in H2 /\ get_alloc(r, b) /\ get_size(r, b) >= asize
  BY <1>3 DEF Allots
<1>6. Keeps(h, H, r, H2, b)
  BY <1>1, <1>2, <1>5, KeepsTwice
<1>7. ~(b \in H /\ get_alloc(h, b) /\ get_size(h, b) # 0)
  BY <1>1 DEF Keeps
<1>8. get_size(r, b) > size
  <2>1. get_size(r, b) \in Nat
    BY <1>5, MemoryParts DEF Sound
  <2> QED
    BY <1>5, <2>1
<1> DEFINE answer == Placed(hh, b, asize)
<1>9. answer.bp = b + 1 /\ answer.heap = r
  BY <1>4
<1> HIDE DEF answer
<1>10. Gives(h, H, answer, size)
  BY <1>1, <1>2, <1>5, <1>6, <1>7, <1>8, <1>9 DEF Gives
<1> QED
  BY <1>10 DEF answer

(* The size of a block has room for its header. *)
LEMMA AsizeIs ==
    ASSUME NEW size \in Nat
    PROVE  /\ Asize(size) \in Nat /\ Asize(size) > size /\ Asize(size) >= 2
           /\ Asize(size) % 2 = 0
<1>1. size + wsize \in Nat /\ size + wsize = size + 1
  BY DEF wsize
<1>2. /\ Asize(size) \in Nat /\ Asize(size) >= size + 1 /\ Asize(size) % 2 = 0
  BY <1>1, RoundedUp DEF Asize
<1> QED
  BY <1>2

(* The block that malloc finds or makes, if any.                           *)
LEMMA FoundIs ==
    ASSUME NEW h, NEW H, NEW h1, NEW H1, NEW N1, Set(h1, H1, N1), Keeps(h, H, h1, H1, NULL),
           NEW asize \in Nat,
           NEW place, place = Found(h1, find_fit(h1, asize), asize)
    PROVE  \/ place = [block |-> NULL, heap |-> h1]
           \/ place.block # NULL /\ Available(h, H, place.heap, place.block, asize)
<1> DEFINE fit == find_fit(h1, asize)
           s == IF asize > chunksize THEN asize ELSE chunksize
           grown == extend_heap(h1, s)
<1>1. Fine(h1, H1, N1)
  BY DEF Fine, Set
<1>2. s \in Nat /\ s >= asize /\ s >= chunksize
  BY Chunk
<1>3. fit = NULL \/ (fit \in H1 /\ ~get_alloc(h1, fit) /\ asize <= get_size(h1, fit))
  BY <1>1, FitIs
<1>4. \A c \in H1 : c # NULL
  BY <1>1, FineParts
<1>5. place = IF fit # NULL THEN [block |-> fit, heap |-> h1] ELSE grown
  BY DEF Found
<1> HIDE DEF fit, s
<1>6. CASE fit # NULL
  <2>1. fit \in H1 /\ ~get_alloc(h1, fit) /\ asize <= get_size(h1, fit)
    BY <1>3, <1>6
  <2>2. Sound(h1, H1, N1, NULL)
    BY <2>1 DEF Set
  <2>3. get_size(h1, fit) \in Nat
    BY <2>2, MemoryParts DEF Sound
  <2>4. get_size(h1, fit) >= asize
    BY <2>1, <2>3
  <2>5. Available(h, H, h1, fit, asize)
    BY <2>1, <2>2, <2>4 DEF Available
  <2>6. place.block = fit /\ place.heap = h1
    BY <1>5, <1>6
  <2> QED
    BY <1>6, <2>5, <2>6
<1>7. CASE fit = NULL /\ Sound(h1, H1, N1, NULL)
  <2>0. place = grown
    BY <1>5, <1>7
  <2>1. grown = [block |-> NULL, heap |-> h1] \/ Grows(h1, H1, grown, s)
    BY <1>2, <1>7, ExtendHeap
  <2> HIDE DEF grown
  <2>2. CASE Grows(h1, H1, grown, s)
    <3>1. PICK H2 : /\ Sound(grown.heap, H2, Lists, NULL) /\ Keeps(h1, H1, grown.heap, H2, NULL)
                    /\ grown.block \in H2 /\ ~get_alloc(grown.heap, grown.block)
                    /\ get_size(grown.heap, grown.block) >= s
      BY <2>2 DEF Grows
    <3>2. Keeps(h, H, grown.heap, H2, NULL)
      BY <1>4, <3>1, KeepsTwice
    <3>3. get_size(grown.heap, grown.block) >= asize
      <4>1. get_size(grown.heap, grown.block) \in Nat
        BY <3>1, MemoryParts DEF Sound
      <4> QED
        BY <1>2, <3>1, <4>1
    <3>4. grown.block # NULL
      BY <3>1, TiledParts DEF Sound, NULL
    <3> QED
      BY <2>0, <3>1, <3>2, <3>3, <3>4 DEF Available
  <2> QED
    BY <2>0, <2>1, <2>2
<1>8. CASE fit = NULL /\ h1 = no_heap /\ ~CanGrow(h1, 2)
  <2> DEFINE n == round_up(s, dsize)
             b == Brk(h1) - 1
  <2>1. n \in Nat /\ n >= 4
    BY <1>2, RoundedUp, Chunk
  <2>2. n = round_up(s, dsize) /\ b = Brk(h1) - 1
    OBVIOUS
  <2> HIDE DEF n, b
  <2>3. ~CanGrow(h1, n)
    BY <1>8, <2>1, NoHeap, HeapAssumption DEF CanGrow
  <2>4. grown = [block |-> NULL, heap |-> h1]
    BY <2>2, <2>3, ExtendIs
  <2> HIDE DEF grown
  <2> QED
    BY <1>5, <1>8, <2>4
<1> QED
  BY <1>6, <1>7, <1>8 DEF Set

(* malloc. *)
LEMMA MallocIs ==
    ASSUME NEW h, NEW H, NEW N, Fine(h, H, N), NEW size \in Nat
    PROVE  Serves(h, H, malloc(h, size), size)
<1> DEFINE Empty == \A n \in Lists : h.root_list[n] = NULL
           h1 == IF Empty THEN mm_init(h) ELSE h
           asize == Asize(size)
           place == Found(h1, find_fit(h1, asize), asize)
           answer == malloc(h, size)
<1>1. \E H1, N1 : Set(h1, H1, N1) /\ Keeps(h, H, h1, H1, NULL)
  <2>1. CASE Empty
    BY <2>1, MmInitIs
  <2>2. CASE ~Empty
    <3>1. h # no_heap
      BY <2>2, NoHeap
    <3>2. Keeps(h, H, h, H, NULL)
      BY DEF Keeps
    <3> QED
      BY <2>2, <3>1, <3>2 DEF Fine, Set
  <2> QED
    BY <2>1, <2>2
<1>2. answer = IF size = 0 THEN [bp |-> NULL, heap |-> h1]
               ELSE Placed(place.heap, place.block, asize)
  BY DEF malloc, Served
<1> HIDE DEF Empty, h1, answer
<1>3. PICK H1, N1 : Set(h1, H1, N1) /\ Keeps(h, H, h1, H1, NULL)
  BY <1>1
<1>4. asize \in Nat /\ asize > size /\ asize >= 2 /\ asize % 2 = 0
  BY AsizeIs
<1>5. place = Found(h1, find_fit(h1, asize), asize)
  OBVIOUS
<1> HIDE DEF asize, place
<1>6. \/ place = [block |-> NULL, heap |-> h1]
      \/ place.block # NULL /\ Available(h, H, place.heap, place.block, asize)
  BY <1>3, <1>4, <1>5, FoundIs
<1>7. CASE size = 0 \/ place = [block |-> NULL, heap |-> h1]
  <2>1. answer = [bp |-> NULL, heap |-> h1]
    BY <1>2, <1>7 DEF Placed
  <2>2. answer.bp = NULL /\ answer.heap = h1
    BY <2>1
  <2> QED
    BY <1>3, <2>2 DEF Serves, Refuses, answer
<1>8. CASE size # 0 /\ Available(h, H, place.heap, place.block, asize)
  BY <1>2, <1>4, <1>8, PlacedIs DEF Serves, answer
<1> QED
  BY <1>6, <1>7, <1>8

-----------------------------------------------------------------------------
(* free. *)

(* From h to h2 the allocated blocks but y stay and keep their words.      *)
Loses(h, H, h2, H2, y) ==
    /\ \A c \in H : get_alloc(h, c) /\ get_size(h, c) # 0 /\ c # y =>
          /\ c \in H2 /\ get_alloc(h2, c) /\ get_size(h2, c) = get_size(h, c)
          /\ \A a \in c + 1 .. c + get_size(h, c) - 1 : Word(h2, a) = Word(h, a)
    /\ \A c \in H2 : get_alloc(h2, c) /\ get_size(h2, c) # 0 =>
          c \in H /\ c # y /\ get_alloc(h, c) /\ get_size(h, c) # 0

Releases(h, H, N, r, b) ==
    \/ \E H2 : Sound(r, H2, N, NULL) /\ Loses(h, H, r, H2, b)
    \/ N # Lists /\ Stray(h, r)

(* What is marked is in no list yet. *)
LEMMA MarkedLimbo ==
    ASSUME NEW h, NEW H, NEW N, Sound(h, H, N, NULL), NEW b \in H, get_alloc(h, b),
           get_size(h, b) # 0, NEW m, m = Marked(h, b, get_size(h, b))
    PROVE  Limbo(m, H, N, b) /\ Touched(h, m, b, b)
<1> DEFINE size == get_size(h, b)
<1>1. Memory(h) /\ Tiled(h, H)
  BY DEF Sound
<1>2. b \in Nat /\ b # NULL
  BY <1>1, TiledParts DEF NULL
<1>3. size = get_size(h, b) /\ m = Marked(h, b, size)
  OBVIOUS
<1> HIDE DEF size
<1>4. Touched(h, m, b, b)
  BY <1>1, <1>3, MarkedIs
<1>5. Sound(m, H, N, b)
  BY <1>4, TouchedSound
<1>6. ~get_alloc(m, b)
  BY <1>2, <1>4 DEF Touched
<1> QED
  BY <1>4, <1>5, <1>6 DEF Limbo

(* free. *)
LEMMA FreeIs ==
    ASSUME NEW h, NEW H, NEW N, Sound(h, H, N, NULL), NEW b \in H, get_alloc(h, b),
           get_size(h, b) # 0, NEW bp, bp = b + 1
    PROVE  Releases(h, H, N, free(h, bp), b)
<1> DEFINE m == Marked(h, b, get_size(h, b))
           c == coalesce_block(m, b)
<1>1. Memory(h) /\ Tiled(h, H)
  BY DEF Sound
<1>2. b \in Nat
  BY <1>1, TiledParts
<1>3. payload_to_header(bp) = b
  BY <1>2 DEF payload_to_header, wsize
<1>4. free(h, bp) = c.heap
  BY <1>3 DEF free
<1>5. m = Marked(h, b, get_size(h, b)) /\ c = coalesce_block(m, b)
  OBVIOUS
<1> HIDE DEF m, c
<1>6. Limbo(m, H, N, b) /\ Touched(h, m, b, b)
  BY <1>5, MarkedLimbo
<1>7. Coalesces(m, H, N, b, c)
  BY <1>5, <1>6, Coalescing
<1>8. PICK p \in H, e \in H : Settles(m, H, N, c.heap, p, e)
  BY <1>7 DEF Coalesces
<1> DEFINE r == c.heap
           H2 == Recast(H, p, e, {p})
<1>9. Same(h, H, m, b) /\ \A f \in H : f # b => \A a \in f + 1 .. f + get_size(h, f) - 1 :
                                           Word(m, a) = Word(h, a)
  BY <1>1, <1>6, TouchedSame
<1>10. Memory(m) /\ Tiled(m, H) /\ ~get_alloc(m, b)
  BY <1>6 DEF Limbo, Sound
<1>11. CASE Sound(r, H2, N, NULL) /\ Keeps(m, H, r, H2, NULL)
  <2>1. \A f \in H2 : f # NULL
    BY <1>11, TiledParts DEF Sound, NULL
  <2> HIDE DEF r, H2
  <2>2. ASSUME NEW f \in H, get_alloc(h, f), get_size(h, f) # 0, f # b
        PROVE  /\ f \in H2 /\ get_alloc(r, f) /\ get_size(r, f) = get_size(h, f)
               /\ \A a \in f + 1 .. f + get_size(h, f) - 1 : Word(r, a) = Word(h, a)
    <3>1. get_alloc(m, f) /\ get_size(m, f) = get_size(h, f)
      BY <1>9, <2>2 DEF Same
    <3>2. /\ f \in H2 /\ get_alloc(r, f) /\ get_size(r, f) = get_size(m, f)
          /\ \A a \in f + 1 .. f + get_size(m, f) - 1 : Word(r, a) = Word(m, a)
      BY <1>11, <2>2, <3>1 DEF Keeps
    <3> QED
      BY <1>9, <2>2, <3>1, <3>2
  <2>3. ASSUME NEW f \in H2, get_alloc(r, f), get_size(r, f) # 0
        PROVE  f \in H /\ f # b /\ get_alloc(h, f) /\ get_size(h, f) # 0
    <3>1. f \in H /\ get_alloc(m, f) /\ get_size(m, f) # 0
      BY <1>11, <2>1, <2>3 DEF Keeps
    <3> QED
      BY <1>9, <1>10, <3>1 DEF Same
  <2>4. Loses(h, H, r, H2, b)
    BY <2>2, <2>3 DEF Loses
  <2>5. Sound(r, H2, N, NULL)
    BY <1>11
  <2> QED
    BY <1>4, <2>4, <2>5 DEF Releases, r
<1>12. CASE N # Lists /\ Stray(m, r)
  <2>1. Brk(m) = Brk(h) /\ m.heap_start = h.heap_start
    BY <1>6 DEF Touched
  <2>2. Stray(h, r)
    BY <1>12, <2>1 DEF Stray
  <2> QED
    BY <1>4, <1>12, <2>2 DEF Releases
<1> QED
  BY <1>8, <1>11, <1>12 DEF Settles

-----------------------------------------------------------------------------
(* Payloads, and the invariant. *)

(* Block b is allocated, with n words of the client's data.                *)
Owns(h, H, b, n) ==
    /\ b \in H /\ get_alloc(h, b) /\ get_size(h, b) # 0
    /\ n \in Nat /\ n < get_size(h, b)
    /\ \A a \in b + 1 .. b + n : Word(h, a) = Data

(* The allocated blocks are the payloads of l.                             *)
Owned(h, H, l) ==
    /\ DOMAIN l \subseteq Nat
    /\ \A c \in H : get_alloc(h, c) /\ get_size(h, c) # 0 => c + 1 \in DOMAIN l
    /\ \A bp \in DOMAIN l : Owns(h, H, bp - 1, l[bp])

(* A payload lies within its block. *)
LEMMA Larger ==
    ASSUME NEW b \in Int, NEW n \in Nat, NEW m \in Nat, n < m, NEW a \in b + 1 .. b + n
    PROVE  a \in b + 1 .. b + m - 1
OBVIOUS

(* A payload stays what it is while its block and words do. *)
LEMMA OwnsStill ==
    ASSUME NEW h, NEW H, NEW h2, NEW H2, NEW b \in Int, NEW n, Owns(h, H, b, n),
           get_size(h, b) \in Nat,
           b \in H2, get_alloc(h2, b), get_size(h2, b) = get_size(h, b),
           \A a \in b + 1 .. b + get_size(h, b) - 1 : Word(h2, a) = Word(h, a)
    PROVE  Owns(h2, H2, b, n)
<1>1. n \in Nat /\ n < get_size(h, b) /\ \A a \in b + 1 .. b + n : Word(h, a) = Data
  BY DEF Owns
<1>2. ASSUME NEW a \in b + 1 .. b + n
      PROVE  Word(h2, a) = Data
  <2>1. a \in b + 1 .. b + get_size(h, b) - 1
    BY <1>1, Larger
  <2> QED
    BY <1>1, <2>1
<1> QED
  BY <1>2 DEF Owns

(* Payloads of which nothing has changed. *)
LEMMA OwnedKept ==
    ASSUME NEW h, NEW H, NEW h2, NEW H2, Memory(h), Keeps(h, H, h2, H2, NULL),
           NULL \notin H2, NEW l, Owned(h, H, l)
    PROVE  Owned(h2, H2, l)
<1>1. ASSUME NEW bp \in DOMAIN l
      PROVE  Owns(h2, H2, bp - 1, l[bp])
  <2> DEFINE b == bp - 1
  <2>1. Owns(h, H, b, l[bp]) /\ b \in Int
    BY DEF Owned
  <2> HIDE DEF b
  <2>2. get_size(h, b) \in Nat
    BY MemoryParts
  <2>3. b \in H /\ get_alloc(h, b) /\ get_size(h, b) # 0
    BY <2>1 DEF Owns
  <2>4. /\ b \in H2 /\ get_alloc(h2, b) /\ get_size(h2, b) = get_size(h, b)
        /\ \A a \in b + 1 .. b + get_size(h, b) - 1 : Word(h2, a) = Word(h, a)
    BY <2>3 DEF Keeps
  <2>5. Owns(h2, H2, b, l[bp])
    BY <2>1, <2>2, <2>4, OwnsStill
  <2> QED
    BY <2>5 DEF b
<1>2. \A c \in H2 : get_alloc(h2, c) /\ get_size(h2, c) # 0 => c + 1 \in DOMAIN l
  BY DEF Keeps, Owned
<1> QED
  BY <1>1, <1>2 DEF Owned

(* A payload that is freed. *)
LEMMA OwnedLost ==
    ASSUME NEW h, NEW H, NEW h2, NEW H2, Memory(h), NEW b \in Int, Loses(h, H, h2, H2, b),
           H2 \subseteq Int, NEW l, Owned(h, H, l), NEW bp, bp = b + 1
    PROVE  Owned(h2, H2, Without(l, bp))
<1> DEFINE w == Without(l, bp)
<1>0. DOMAIN w = DOMAIN l \ {bp} /\ \A x \in DOMAIN w : w[x] = l[x]
  BY DEF Without
<1> HIDE DEF w
<1>1. ASSUME NEW x \in DOMAIN w
      PROVE  Owns(h2, H2, x - 1, w[x])
  <2> DEFINE c == x - 1
  <2>1. Owns(h, H, c, l[x]) /\ c \in Int /\ c # b
    BY <1>0 DEF Owned
  <2> HIDE DEF c
  <2>2. get_size(h, c) \in Nat
    BY MemoryParts
  <2>3. c \in H /\ get_alloc(h, c) /\ get_size(h, c) # 0
    BY <2>1 DEF Owns
  <2>4. /\ c \in H2 /\ get_alloc(h2, c) /\ get_size(h2, c) = get_size(h, c)
        /\ \A a \in c + 1 .. c + get_size(h, c) - 1 : Word(h2, a) = Word(h, a)
    BY <2>1, <2>3 DEF Loses
  <2>5. Owns(h2, H2, c, l[x])
    BY <2>1, <2>2, <2>4, OwnsStill
  <2> QED
    BY <1>0, <2>5 DEF c
<1>2. ASSUME NEW c \in H2, get_alloc(h2, c), get_size(h2, c) # 0
      PROVE  c + 1 \in DOMAIN w
  <2>1. c \in H /\ c # b /\ get_alloc(h, c) /\ get_size(h, c) # 0
    BY <1>2 DEF Loses
  <2>2. c + 1 \in DOMAIN l
    BY <2>1 DEF Owned
  <2>3. c + 1 # bp
    BY <2>1
  <2> QED
    BY <1>0, <2>2, <2>3
<1>3. DOMAIN w \subseteq Nat
  BY <1>0 DEF Owned
<1>4. Owned(h2, H2, w)
  BY <1>1, <1>2, <1>3 DEF Owned
<1> QED
  BY <1>4 DEF w

(* A payload that is new, once its client has filled it. *)
LEMMA OwnedGiven ==
    ASSUME NEW h, NEW H, NEW h2, NEW H2, NEW N2, Memory(h), NEW b \in Nat, Keeps(h, H, h2, H2, b),
           Sound(h2, H2, N2, NULL), b \in H2, get_alloc(h2, b), NEW size \in Nat,
           get_size(h2, b) > size, NEW l, Owned(h, H, l),
           ~(b \in H /\ get_alloc(h, b) /\ get_size(h, b) # 0),
           NEW bp, bp = b + 1
    PROVE  /\ Sound(Filled(h2, bp, size), H2, N2, NULL)
           /\ Owned(Filled(h2, bp, size), H2, With(l, bp, size))
<1> DEFINE w == With(l, bp, size)
           g == Filled(h2, bp, size)
<1>0. /\ DOMAIN w = DOMAIN l \cup {bp} /\ w[bp] = size
      /\ \A x \in DOMAIN l : x # bp => w[x] = l[x]
  BY DEF With
<1>1. Memory(h2) /\ Tiled(h2, H2)
  BY DEF Sound
<1>2. get_size(h2, b) \in Nat
  BY <1>1, MemoryParts
<1>3. size < get_size(h2, b) /\ get_size(h2, b) # 0
  BY <1>2
<1>4. Touched(h2, g, b, NULL) /\ \A a \in b + 1 .. b + size : Word(g, a) = Data
  BY <1>1, <1>3, FilledIs
<1> HIDE DEF w, g
<1>5. Sound(g, H2, N2, NULL)
  BY <1>3, <1>4, TouchedSound
<1>6. /\ Same(h2, H2, g, b)
      /\ \A f \in H2 : f # b => \A a \in f + 1 .. f + get_size(h2, f) - 1 : Word(g, a) = Word(h2, a)
  BY <1>1, <1>3, <1>4, TouchedSame
<1>7. get_size(g, b) = get_size(h2, b) /\ get_alloc(g, b)
  <2>1. b # NULL
    BY <1>1, TiledParts DEF NULL
  <2> QED
    BY <1>4, <2>1 DEF Touched
<1>8. bp \notin DOMAIN l
  <2>1. bp - 1 = b
    OBVIOUS
  <2> QED
    BY <2>1 DEF Owned, Owns
<1>9. ASSUME NEW x \in DOMAIN l
      PROVE  Owns(g, H2, x - 1, w[x])
  <2> DEFINE c == x - 1
  <2>1. Owns(h, H, c, l[x]) /\ c \in Int
    BY DEF Owned
  <2>2. c # b
    BY <1>8 DEF Owned
  <2>3. w[x] = l[x]
    BY <1>0, <1>8
  <2> HIDE DEF c
  <2>4. get_size(h, c) \in Nat
    BY MemoryParts
  <2>5. c \in H /\ get_alloc(h, c) /\ get_size(h, c) # 0
    BY <2>1 DEF Owns
  <2>6. /\ c \in H2 /\ get_alloc(h2, c) /\ get_size(h2, c) = get_size(h, c)
        /\ \A a \in c + 1 .. c + get_size(h, c) - 1 : Word(h2, a) = Word(h, a)
    BY <2>5 DEF Keeps
  <2>7. get_alloc(g, c) /\ get_size(g, c) = get_size(h, c)
    BY <1>6, <2>2, <2>6 DEF Same
  <2>8. \A a \in c + 1 .. c + get_size(h, c) - 1 : Word(g, a) = Word(h, a)
    BY <1>6, <2>2, <2>6
  <2>9. Owns(g, H2, c, l[x])
    BY <2>1, <2>4, <2>6, <2>7, <2>8, OwnsStill
  <2> QED
    BY <2>3, <2>9 DEF c
<1>10. Owns(g, H2, bp - 1, w[bp])
  <2>1. bp - 1 = b
    OBVIOUS
  <2>2. Owns(g, H2, b, size)
    BY <1>3, <1>4, <1>7 DEF Owns
  <2> QED
    BY <1>0, <2>1, <2>2
<1>11. ASSUME NEW c \in H2, get_alloc(g, c), get_size(g, c) # 0
       PROVE  c + 1 \in DOMAIN w
  <2>1. CASE c = b
    BY <1>0, <2>1
  <2>2. CASE c # b
    <3>1. get_alloc(h2, c) /\ get_size(h2, c) # 0
      BY <1>6, <1>11, <2>2 DEF Same
    <3>2. c \in H /\ get_alloc(h, c) /\ get_size(h, c) # 0
      BY <2>2, <3>1 DEF Keeps
    <3> QED
      BY <1>0, <3>2 DEF Owned
  <2> QED
    BY <2>1, <2>2
<1>12. DOMAIN w \subseteq Nat
  BY <1>0 DEF Owned
<1>13. Owned(g, H2, w)
  BY <1>0, <1>9, <1>10, <1>11, <1>12 DEF Owned
<1> QED
  BY <1>5, <1>13 DEF w, g

HeapType(h) ==
    /\ Brk(h) \in 0 .. MaxHeap
    /\ h.heap_start \in 0 .. MaxHeap
    /\ h.root_list \in [Lists -> 0 .. MaxHeap]
    /\ h.strayed \in BOOLEAN

(* Roots and heap_start are addresses. *)
LEMMA FineType ==
    ASSUME NEW h, NEW H, NEW N, Fine(h, H, N)
    PROVE  /\ HeapType(h) /\ h.heap_start <= Brk(h)
           /\ \A n \in Lists : h.root_list[n] \in 0 .. Brk(h)
<1>1. /\ Memory(h) /\ ~h.strayed /\ Brk(h) \in Nat /\ Brk(h) <= MaxHeap
      /\ \A c \in H : c \in Nat /\ c # NULL /\ c <= Brk(h) - 1
  BY FineParts
<1>2. /\ h.heap_start \in Nat /\ h.root_list \in [Lists -> Nat] /\ h.strayed \in BOOLEAN
  BY <1>1, MemoryParts DEF Memory
<1>3. MaxHeap \in Nat
  BY HeapAssumption
<1>4. h.heap_start <= Brk(h)
  <2>1. CASE Sound(h, H, N, NULL)
    <3>1. h.heap_start \in H
      BY <2>1 DEF Sound, Started
    <3> QED
      BY <1>1, <3>1
  <2>2. CASE h = no_heap
    BY <2>2, NoHeap DEF NULL
  <2> QED
    BY <2>1, <2>2 DEF Fine
<1>5. ASSUME NEW n \in Lists
      PROVE  h.root_list[n] \in 0 .. Brk(h)
  <2> DEFINE s == FreeList(h, n)
             k == Len(s)
  <2>1. s \in Seq(InList(h, H, N, n)) /\ Chain(h, n, InList(h, H, N, n), k, s)
    BY FineList
  <2>2. k \in Nat
    BY <2>1
  <2> HIDE DEF s
  <2>3. h.root_list[n] = IF k = 0 THEN NULL ELSE s[1]
    BY <2>1 DEF Chain
  <2>4. CASE k = 0
    BY <1>1, <2>3, <2>4 DEF NULL
  <2>5. CASE k # 0
    <3>1. s[1] \in InList(h, H, N, n)
      BY <2>1, <2>2, <2>5
    <3>2. s[1] \in H \/ s[1] = Brk(h) - 1
      BY <3>1 DEF InList, Members
    <3>3. h.root_list[n] = s[1]
      BY <2>3, <2>5
    <3>4. h.root_list[n] \in Nat
      BY <1>2
    <3>5. h.root_list[n] <= Brk(h)
      BY <1>1, <3>2, <3>3
    <3> QED
      BY <1>1, <3>4, <3>5
  <2> QED
    BY <2>4, <2>5
<1>6. h.root_list \in [Lists -> 0 .. MaxHeap]
  <2>1. \A n \in Lists : h.root_list[n] \in 0 .. MaxHeap
    BY <1>1, <1>3, <1>5
  <2> QED
    BY <1>2, <2>1
<1>7. h.heap_start \in 0 .. MaxHeap /\ Brk(h) \in 0 .. MaxHeap
  BY <1>1, <1>2, <1>3, <1>4
<1> QED
  BY <1>2, <1>4, <1>5, <1>6, <1>7 DEF HeapType

(* It has strayed, with the epilogue in the place of a first block, and no *)
(* room for one.                                                           *)
Astray(h) ==
    /\ HeapType(h) /\ h.strayed
    /\ h.heap_start = Brk(h) - 1 /\ ~CanGrow(h, chunksize)

(* What is left of a heap that strays. *)
LEMMA StrayType ==
    ASSUME NEW h, NEW H, NEW N, Sound(h, H, N, NULL), N # Lists, NEW r, Stray(h, r)
    PROVE  Astray(r)
<1>1. HeapType(h) /\ h.heap_start <= Brk(h)
  BY FineType DEF Fine
<1>2. Memory(r) /\ r.strayed /\ Brk(r) = Brk(h) /\ r.heap_start = h.heap_start
      /\ \A m \in Lists : r.root_list[m] < Brk(h)
  BY DEF Stray
<1>3. r.root_list \in [Lists -> Nat] /\ r.strayed \in BOOLEAN
  BY <1>2 DEF Memory
<1>4. \A m \in Lists : r.root_list[m] \in 0 .. MaxHeap
  <2>1. Brk(h) \in 0 .. MaxHeap /\ MaxHeap \in Nat
    BY <1>1, HeapAssumption DEF HeapType
  <2> QED
    BY <1>2, <1>3, <2>1
<1>5. HeapType(r)
  BY <1>1, <1>2, <1>3, <1>4 DEF HeapType
<1>6. h.heap_start = Brk(h) - 1 /\ ~CanGrow(h, chunksize)
  BY DEF Sound, Started
<1>7. r.heap_start = Brk(r) - 1 /\ ~CanGrow(r, chunksize)
  BY <1>2, <1>6 DEF CanGrow
<1> QED
  BY <1>2, <1>5, <1>7 DEF Astray

(* The invariant: a heap in which the payloads are where they were given.  *)
Kept(h, l) == \E H, N : Fine(h, H, N) /\ Owned(h, H, l)

(* The types that TypeOK asks for. *)
LEMMA KeptParts ==
    ASSUME NEW h, NEW l, Kept(h, l)
    PROVE  HeapType(h) /\ ~h.strayed /\ DOMAIN l \subseteq 1 .. MaxHeap
<1>1. PICK H, N : Fine(h, H, N) /\ Owned(h, H, l)
  BY DEF Kept
<1>2. HeapType(h)
  BY <1>1, FineType
<1>3. ~h.strayed /\ Brk(h) \in Nat /\ Brk(h) <= MaxHeap
      /\ \A c \in H : c \in Nat /\ c # NULL /\ c <= Brk(h) - 1
  BY <1>1, FineParts
<1>4. ASSUME NEW bp \in DOMAIN l
      PROVE  bp \in 1 .. MaxHeap
  <2>1. bp \in Nat /\ bp - 1 \in H
    BY <1>1 DEF Owned, Owns
  <2>2. bp - 1 \in Nat /\ bp - 1 <= Brk(h) - 1
    BY <1>3, <2>1
  <2> QED
    BY <1>3, <2>1, <2>2, HeapAssumption
<1> QED
  BY <1>2, <1>3, <1>4

(* It holds before there is a heap. *)
LEMMA KeptFirst == Kept(no_heap, <<>>)
<1>1. DOMAIN << >> = {}
  OBVIOUS
<1>2. Owned(no_heap, {}, << >>)
  BY <1>1 DEF Owned
<1>3. Fine(no_heap, {}, Lists)
  BY DEF Fine
<1> QED
  BY <1>2, <1>3 DEF Kept

(* It holds while nothing happens to the payloads. *)
LEMMA KeptStill ==
    ASSUME NEW h, NEW H, NEW N, Fine(h, H, N), NEW l, Owned(h, H, l),
           NEW h2, NEW H2, NEW N2, Set(h2, H2, N2), Keeps(h, H, h2, H2, NULL)
    PROVE  Kept(h2, l)
<1>1. Fine(h2, H2, N2)
  BY DEF Set, Fine
<1>2. NULL \notin H2
  BY <1>1, FineParts
<1>3. Memory(h)
  BY FineParts
<1>4. Owned(h2, H2, l)
  BY <1>2, <1>3, OwnedKept
<1> QED
  BY <1>1, <1>4 DEF Kept

(* mm_init keeps it. *)
LEMMA KeptInit ==
    ASSUME NEW l, Kept(no_heap, l)
    PROVE  Kept(mm_init(no_heap), l)
<1>1. PICK H, N : Fine(no_heap, H, N) /\ Owned(no_heap, H, l)
  BY DEF Kept
<1>2. PICK H2, N2 : /\ Set(mm_init(no_heap), H2, N2)
                    /\ Keeps(no_heap, H, mm_init(no_heap), H2, NULL)
  BY <1>1, NoHeap, MmInitIs
<1> QED
  BY <1>1, <1>2, KeptStill

(* A client has its payload, or not, and the others have theirs. *)
Answered(h, l, answer, size) ==
    \/ answer.bp = NULL /\ Kept(answer.heap, l)
    \/ /\ answer.bp # NULL /\ answer.bp \in Nat /\ answer.bp \notin DOMAIN l
       /\ Kept(Filled(answer.heap, answer.bp, size), With(l, answer.bp, size))

(* malloc keeps it, once its client has filled what it got. *)
LEMMA KeptMalloc ==
    ASSUME NEW h, NEW l, Kept(h, l), NEW size \in Nat, NEW answer, answer = malloc(h, size)
    PROVE  Answered(h, l, answer, size)
<1>1. PICK H, N : Fine(h, H, N) /\ Owned(h, H, l)
  BY DEF Kept
<1>2. Serves(h, H, answer, size)
  BY <1>1, MallocIs
<1>3. CASE Refuses(h, H, answer)
  <2>1. PICK H2, N2 : Set(answer.heap, H2, N2) /\ Keeps(h, H, answer.heap, H2, NULL)
    BY <1>3 DEF Refuses
  <2>2. Kept(answer.heap, l)
    BY <1>1, <2>1, KeptStill
  <2> QED
    BY <1>3, <2>2 DEF Refuses, Answered
<1>4. CASE Gives(h, H, answer, size)
  <2> DEFINE r == answer.heap
             bp == answer.bp
  <2>1. PICK b, H2, N2 :
          /\ bp = b + 1 /\ b \in Nat
          /\ Sound(r, H2, N2, NULL) /\ Keeps(h, H, r, H2, b)
          /\ b \in H2 /\ get_alloc(r, b) /\ get_size(r, b) > size
          /\ ~(b \in H /\ get_alloc(h, b) /\ get_size(h, b) # 0)
    BY <1>4 DEF Gives
  <2>2. Memory(h)
    BY <1>1, FineParts
  <2>3. bp \notin DOMAIN l
    <3>1. bp - 1 = b
      BY <2>1
    <3> HIDE DEF bp
    <3> QED
      BY <1>1, <2>1, <3>1 DEF Owned, Owns
  <2>4. bp # NULL /\ bp \in Nat
    BY <2>1 DEF NULL
  <2> HIDE DEF r, bp
  <2>5. /\ Sound(Filled(r, bp, size), H2, N2, NULL)
        /\ Owned(Filled(r, bp, size), H2, With(l, bp, size))
    BY <1>1, <2>1, <2>2, OwnedGiven
  <2>6. Kept(Filled(r, bp, size), With(l, bp, size))
    BY <2>5 DEF Kept, Fine
  <2> QED
    BY <2>3, <2>4, <2>6 DEF Answered, r, bp
<1> QED
  BY <1>2, <1>3, <1>4 DEF Serves

(* free keeps it, or strays. *)
LEMMA KeptFree ==
    ASSUME NEW h, NEW l, Kept(h, l), NEW bp \in DOMAIN l, NEW r, r = free(h, bp)
    PROVE  Kept(r, Without(l, bp)) \/ Astray(r)
<1>1. PICK H, N : Fine(h, H, N) /\ Owned(h, H, l)
  BY DEF Kept
<1> DEFINE b == bp - 1
<1>2. bp \in Nat /\ Owns(h, H, b, l[bp])
  BY <1>1 DEF Owned
<1>3. b \in Int /\ bp = b + 1
  BY <1>2
<1> HIDE DEF b
<1>4. b \in H /\ get_alloc(h, b) /\ get_size(h, b) # 0
  BY <1>2 DEF Owns
<1>5. Sound(h, H, N, NULL)
  BY <1>1, <1>4 DEF Fine
<1>6. Releases(h, H, N, r, b)
  BY <1>3, <1>4, <1>5, FreeIs
<1>7. CASE N # Lists /\ Stray(h, r)
  BY <1>5, <1>7, StrayType
<1>8. ASSUME NEW H2, Sound(r, H2, N, NULL), Loses(h, H, r, H2, b)
      PROVE  Kept(r, Without(l, bp))
  <2>1. Fine(r, H2, N)
    BY <1>8 DEF Fine
  <2>2. H2 \subseteq Int
    BY <2>1, FineParts
  <2>3. Memory(h)
    BY <1>1, FineParts
  <2>4. Owned(r, H2, Without(l, bp))
    BY <1>1, <1>3, <1>8, <2>2, <2>3, OwnedLost
  <2> QED
    BY <2>1, <2>4 DEF Kept
<1> QED
  BY <1>6, <1>7, <1>8 DEF Releases

Invariant ==
    /\ TypeOK
    /\ Works => Kept(heap, live)
    /\ ~Works => Astray(heap)

(* The invariant holds of a heap that keeps its payloads. *)
LEMMA InvariantNow ==
    ASSUME Kept(heap, live)
    PROVE  Invariant
BY KeptParts DEF Invariant, TypeOK, HeapType, Works

(* The same after a step. *)
LEMMA InvariantNext ==
    ASSUME \/ Kept(heap', live')
           \/ Astray(heap') /\ DOMAIN live' \subseteq 1 .. MaxHeap
    PROVE  Invariant'
<1>1. CASE Kept(heap', live')
  <2>1. HeapType(heap') /\ DOMAIN live' \subseteq 1 .. MaxHeap /\ ~heap'.strayed
    BY <1>1, KeptParts
  <2>2. Brk(heap') = Brk(heap)' /\ Lists = Lists'
    BY DEF Brk
  <2> QED
    BY <1>1, <2>1, <2>2 DEF Invariant, TypeOK, HeapType, Kept, Works
<1>2. CASE Astray(heap') /\ DOMAIN live' \subseteq 1 .. MaxHeap
  BY <1>2 DEF Invariant, TypeOK, Astray, HeapType, Works, Brk, CanGrow
<1> QED
  BY <1>1, <1>2

(* The steps, one lemma for each action. *)
LEMMA InvariantMmInit ==
    ASSUME Invariant, MmInit
    PROVE  Invariant'
<1>1. Works
  BY NoHeap DEF MmInit, Works
<1>2. Kept(mm_init(no_heap), live)
  BY <1>1, KeptInit DEF Invariant, MmInit
<1>3. Kept(heap', live')
  BY <1>2 DEF MmInit
<1> QED
  BY <1>3, InvariantNext

(* A request, answered or refused. *)
LEMMA InvariantMalloc ==
    ASSUME Invariant, NEW size \in Requests, Malloc(size)
    PROVE  Invariant'
<1> DEFINE answer == malloc(heap, size)
<1>1. size \in Nat /\ Kept(heap, live)
  BY RequestsAssumption DEF Invariant, Malloc
<1>2. Answered(heap, live, answer, size)
  BY <1>1, KeptMalloc
<1>3. /\ heap' = IF answer.bp = NULL THEN answer.heap ELSE Filled(answer.heap, answer.bp, size)
      /\ live' = IF answer.bp = NULL THEN live ELSE With(live, answer.bp, size)
  BY DEF Malloc, Granted
<1> HIDE DEF answer
<1>4. Kept(heap', live')
  BY <1>2, <1>3 DEF Answered
<1> QED
  BY <1>4, InvariantNext

(* A payload given back. *)
LEMMA InvariantFree ==
    ASSUME Invariant, NEW bp \in DOMAIN live, Free(bp)
    PROVE  Invariant'
<1> DEFINE r == free(heap, bp)
           l == Without(live, bp)
<1>1. Kept(heap, live)
  BY DEF Invariant, Free
<1>2. Kept(r, l) \/ Astray(r)
  BY <1>1, KeptFree
<1>3. DOMAIN l \subseteq 1 .. MaxHeap
  BY <1>1, KeptParts DEF Without
<1>4. heap' = r /\ live' = l
  BY DEF Free
<1> HIDE DEF r, l
<1> QED
  BY <1>2, <1>3, <1>4, InvariantNext

(* A payload moved: malloc, then free. *)
LEMMA InvariantRealloc ==
    ASSUME Invariant, NEW bp \in DOMAIN live, NEW size \in Requests, Realloc(bp, size)
    PROVE  Invariant'
<1> DEFINE answer == malloc(heap, size)
           new == answer.bp
           filled == Filled(answer.heap, new, size)
           held == With(live, new, size)
           r == free(filled, bp)
           l == Without(held, bp)
<1>1. size \in Nat /\ Kept(heap, live)
  BY RequestsAssumption DEF Invariant, Realloc
<1>2. Answered(heap, live, answer, size)
  BY <1>1, KeptMalloc
<1>3. CASE new = NULL
  <2>1. heap' = answer.heap /\ live' = live
    BY <1>3 DEF Realloc
  <2>2. Kept(answer.heap, live)
    BY <1>2, <1>3 DEF Answered
  <2> QED
    BY <2>1, <2>2, InvariantNext
<1>4. CASE new # NULL
  <2>1. heap' = r /\ live' = l
    BY <1>4 DEF Realloc, Granted
  <2>2. Kept(filled, held)
    BY <1>2, <1>4 DEF Answered
  <2>3. bp \in DOMAIN held
    BY DEF With
  <2> HIDE DEF held, filled
  <2>4. Kept(r, l) \/ Astray(r)
    BY <2>2, <2>3, KeptFree
  <2>5. DOMAIN l \subseteq 1 .. MaxHeap
    BY <2>2, KeptParts DEF Without
  <2> HIDE DEF r, l
  <2> QED
    BY <2>1, <2>4, <2>5, InvariantNext
<1> QED
  BY <1>3, <1>4

(* The invariant holds in every state, for every size of the heap, any     *)
(* classes of sizes and any requests.                                      *)
THEOREM Invariance == Spec => []Invariant
<1>1. Init => Invariant
  BY KeptFirst, InvariantNow DEF Init
<1>2. Invariant /\ [Next]_vars => Invariant'
  <2> SUFFICES ASSUME Invariant, [Next]_vars
               PROVE  Invariant'
    OBVIOUS
  <2>1. CASE MmInit
    BY <2>1, InvariantMmInit
  <2>2. ASSUME NEW size \in Requests, Malloc(size)
        PROVE  Invariant'
    BY <2>2, InvariantMalloc
  <2>3. ASSUME NEW bp \in DOMAIN live, Free(bp)
        PROVE  Invariant'
    BY <2>3, InvariantFree
  <2>4. ASSUME NEW bp \in DOMAIN live, NEW size \in Requests, Realloc(bp, size)
        PROVE  Invariant'
    BY <2>4, InvariantRealloc
  <2>5. CASE UNCHANGED vars
    BY <2>5 DEF vars, Invariant, TypeOK, Works, Kept, Astray, HeapType, Brk, CanGrow, Word
  <2> QED
    BY <2>1, <2>2, <2>3, <2>4, <2>5 DEF Next
<1> QED
  BY <1>1, <1>2, PTL DEF Spec

(* The heap is written to past its end only when the memory has ended      *)
(* between the two steps of mm_init: the epilogue stands in for a first    *)
(* block, and there is no room for one.                                    *)
THEOREM StraysAtEnd ==
    Spec => [](heap.strayed => heap.heap_start = Brk(heap) - 1 /\ ~CanGrow(heap, chunksize))
<1>1. Invariant => (heap.strayed => /\ heap.heap_start = Brk(heap) - 1
                                    /\ ~CanGrow(heap, chunksize))
  BY DEF Invariant, Works, Astray
<1> QED
  BY <1>1, Invariance, PTL

(* Break, heap_start, roots and payloads are addresses of the memory that  *)
(* mem_sbrk can hand out.                                                  *)
THEOREM TypeCorrect == Spec => []TypeOK
<1>1. Invariant => TypeOK
  BY DEF Invariant
<1> QED
  BY <1>1, Invariance, PTL

-----------------------------------------------------------------------------
(* The abstract allocator. *)

(* A word of a payload is a word of its block. *)
LEMMA WithinBlock ==
    ASSUME NEW bp \in Int, NEW b, b = bp - 1, NEW s \in Nat, NEW n \in Nat, n < s,
           NEW a \in bp .. bp + n - 1
    PROVE  a \in Int /\ bp <= a /\ a < b + s
OBVIOUS

(* Two payloads have no word in common. *)
LEMMA OwnsApart ==
    ASSUME NEW h, NEW H, Memory(h), Tiled(h, H), NEW bp \in Nat, NEW cp \in Nat, bp < cp,
           NEW n, NEW m, Owns(h, H, bp - 1, n), Owns(h, H, cp - 1, m),
           NEW a \in bp .. bp + n - 1, a \in cp .. cp + m - 1
    PROVE  FALSE
<1> DEFINE b == bp - 1
           c == cp - 1
<1>1. b \in H /\ c \in H /\ n \in Nat /\ m \in Nat /\ n < get_size(h, b)
  BY DEF Owns
<1>2. b = bp - 1 /\ c = cp - 1 /\ b < c
  OBVIOUS
<1> HIDE DEF b, c
<1>3. get_size(h, b) \in Nat
  BY MemoryParts
<1>4. b + get_size(h, b) <= c
  BY <1>1, <1>2, BlocksApart
<1>5. a \in Int /\ a < b + get_size(h, b)
  BY <1>1, <1>2, <1>3, WithinBlock
<1>6. cp <= a
  BY <1>1
<1> QED
  BY <1>2, <1>3, <1>4, <1>5, <1>6

(* A payload lies within the memory and apart from the others.             *)
LEMMA GivenApart ==
    ASSUME NEW g, NEW l, NEW new, NEW size \in Nat, new \notin DOMAIN l,
           Kept(g, With(l, new, size))
    PROVE  /\ new \in 1 .. MaxHeap
           /\ new .. new + size - 1 \subseteq
                 (1 .. MaxHeap) \ UNION {bp .. bp + l[bp] - 1 : bp \in DOMAIN l}
<1> DEFINE w == With(l, new, size)
<1>0. /\ DOMAIN w = DOMAIN l \cup {new} /\ w[new] = size
      /\ \A x \in DOMAIN l : w[x] = l[x]
  BY DEF With
<1> HIDE DEF w
<1>1. new \in 1 .. MaxHeap
  <2>1. DOMAIN w \subseteq 1 .. MaxHeap
    BY KeptParts DEF w
  <2> QED
    BY <1>0, <2>1
<1>2. PICK H, N : Fine(g, H, N) /\ Owned(g, H, w)
  BY DEF Kept, w
<1>3. Owns(g, H, new - 1, size) /\ new \in Nat
  BY <1>0, <1>2 DEF Owned
<1>4. Sound(g, H, N, NULL)
  BY <1>2, <1>3 DEF Fine, Owns
<1>5. Memory(g) /\ Tiled(g, H)
  BY <1>4 DEF Sound
<1>6. ASSUME NEW a \in new .. new + size - 1
      PROVE  a \in 1 .. MaxHeap
  <2> DEFINE b == new - 1
  <2>1. b \in H /\ size < get_size(g, b) /\ b = new - 1 /\ get_size(g, b) # 0
    BY <1>3 DEF Owns
  <2> HIDE DEF b
  <2>2. b + get_size(g, b) \in H
    BY <1>5, <2>1, NextBlock
  <2>3. get_size(g, b) \in Nat
    BY <1>5, MemoryParts
  <2>4. a \in Int /\ new <= a /\ a < b + get_size(g, b)
    BY <1>1, <2>1, <2>3, WithinBlock
  <2>5. b + get_size(g, b) <= Brk(g) - 1 /\ Brk(g) <= MaxHeap /\ Brk(g) \in Nat
    BY <1>2, <2>2, FineParts
  <2> QED
    BY <1>1, <2>1, <2>3, <2>4, <2>5, HeapAssumption
<1>7. ASSUME NEW a \in new .. new + size - 1, NEW bp \in DOMAIN l, a \in bp .. bp + l[bp] - 1
      PROVE  FALSE
  <2>1. Owns(g, H, bp - 1, l[bp]) /\ bp \in Nat
    BY <1>0, <1>2 DEF Owned
  <2>2. bp # new
    OBVIOUS
  <2>3. CASE bp < new
    BY <1>3, <1>5, <1>7, <2>1, <2>3, OwnsApart
  <2>4. CASE new < bp
    BY <1>3, <1>5, <1>7, <2>1, <2>4, OwnsApart
  <2> QED
    BY <1>3, <2>1, <2>2, <2>3, <2>4
<1> QED
  BY <1>1, <1>6, <1>7

(* GivenApart as the abstract specification says it. *)
LEMMA ApartIs ==
    ASSUME NEW g, NEW new, NEW size \in Nat, new \notin DOMAIN live,
           Kept(g, With(live, new, size))
    PROVE  A!Apart(new, size)
BY GivenApart DEF A!Apart, A!Extent, A!FreeWords

(* A request is one of the abstract allocator, or nothing. *)
LEMMA RefinesMalloc ==
    ASSUME Invariant, NEW size \in Requests, Malloc(size)
    PROVE  A!Next \/ UNCHANGED live
<1> DEFINE answer == malloc(heap, size)
           new == answer.bp
<1>1. size \in Nat /\ Kept(heap, live)
  BY RequestsAssumption DEF Invariant, Malloc
<1>2. Answered(heap, live, answer, size)
  BY <1>1, KeptMalloc
<1>3. live' = IF new = NULL THEN live ELSE With(live, new, size)
  BY DEF Malloc, Granted
<1> HIDE DEF answer
<1>4. CASE new # NULL
  <2>1. new \notin DOMAIN live /\ Kept(Filled(answer.heap, new, size), With(live, new, size))
    BY <1>2, <1>4 DEF Answered
  <2>2. A!Apart(new, size)
    BY <1>1, <2>1, ApartIs
  <2>3. new \in 1 .. MaxHeap
    BY <2>2 DEF A!Apart
  <2>4. A!Malloc(new, size)
    BY <1>3, <1>4, <2>2 DEF A!Malloc, With
  <2> QED
    BY <2>3, <2>4 DEF A!Next
<1> QED
  BY <1>3, <1>4

(* So is a change of size. *)
LEMMA RefinesRealloc ==
    ASSUME Invariant, NEW bp \in DOMAIN live, NEW size \in Requests, Realloc(bp, size)
    PROVE  A!Next \/ UNCHANGED live
<1> DEFINE answer == malloc(heap, size)
           new == answer.bp
<1>1. size \in Nat /\ Kept(heap, live)
  BY RequestsAssumption DEF Invariant, Realloc
<1>2. Answered(heap, live, answer, size)
  BY <1>1, KeptMalloc
<1>3. live' = IF new = NULL THEN live ELSE Without(With(live, new, size), bp)
  BY DEF Realloc, Granted
<1> HIDE DEF answer
<1>4. CASE new # NULL
  <2>1. new \notin DOMAIN live /\ Kept(Filled(answer.heap, new, size), With(live, new, size))
    BY <1>2, <1>4 DEF Answered
  <2>2. A!Apart(new, size)
    BY <1>1, <2>1, ApartIs
  <2>3. new \in 1 .. MaxHeap
    BY <2>2 DEF A!Apart
  <2>4. live' = [p \in (DOMAIN live \ {bp}) \cup {new} |-> IF p = new THEN size ELSE live[p]]
    <3>1. new # bp
      BY <2>1
    <3>2. (DOMAIN live \cup {new}) \ {bp} = (DOMAIN live \ {bp}) \cup {new}
      BY <3>1
    <3>3. live' = [p \in (DOMAIN live \cup {new}) \ {bp} |->
                     IF p = new THEN size ELSE live[p]]
      BY <1>3, <1>4 DEF With, Without
    <3> QED
      BY <3>2, <3>3
  <2>5. A!Realloc(bp, new, size)
    BY <2>2, <2>4 DEF A!Realloc
  <2> QED
    BY <2>3, <2>5 DEF A!Next
<1> QED
  BY <1>3, <1>4

(* mm.c implements the allocator that its clients count on: no two         *)
(* payloads overlap, and none moves, shrinks or goes without its client    *)
(* asking.                                                                 *)
THEOREM Refinement == Spec => ImplementsAllocator
<1>1. Init => A!Init
  BY DEF Init, A!Init
<1>2. Invariant /\ [Next]_vars => [A!Next]_live
  <2> SUFFICES ASSUME Invariant, [Next]_vars
               PROVE  A!Next \/ UNCHANGED live
    OBVIOUS
  <2>1. CASE MmInit
    BY <2>1 DEF MmInit
  <2>2. ASSUME NEW size \in Requests, Malloc(size)
        PROVE  A!Next \/ UNCHANGED live
    BY <2>2, RefinesMalloc
  <2>3. ASSUME NEW bp \in DOMAIN live, Free(bp)
        PROVE  A!Next \/ UNCHANGED live
    <3>1. A!Free(bp)
      BY <2>3 DEF Free, Without, A!Free
    <3> QED
      BY <3>1 DEF A!Next
  <2>4. ASSUME NEW bp \in DOMAIN live, NEW size \in Requests, Realloc(bp, size)
        PROVE  A!Next \/ UNCHANGED live
    BY <2>4, RefinesRealloc
  <2>5. CASE UNCHANGED vars
    BY <2>5 DEF vars
  <2> QED
    BY <2>1, <2>2, <2>3, <2>4, <2>5 DEF Next
<1> QED
  BY <1>1, <1>2, Invariance, PTL DEF Spec, ImplementsAllocator, A!Spec

-----------------------------------------------------------------------------
(* The properties in terms of a walk over the blocks. *)

(* w follows the blocks from the first for n steps.                        *)
Walks(w, n) == w = [i \in 1 .. n |-> IF i = 1 THEN 1 ELSE After(w[i - 1])]

(* There is such a walk. *)
LEMMA WalksExists ==
    ASSUME NEW N \in Nat
    PROVE  \E w : Walks(w, N)
<1> DEFINE Good == {n \in Nat : \E w : Walks(w, n)}
<1>1. 0 \in Good
  <2> DEFINE w == [i \in 1 .. 0 |-> 0]
  <2>1. w = [i \in 1 .. 0 |-> IF i = 1 THEN 1 ELSE After(w[i - 1])]
    OBVIOUS
  <2> HIDE DEF w
  <2>2. Walks(w, 0)
    BY <2>1 DEF Walks
  <2> QED
    BY <2>2
<1>2. ASSUME NEW n \in 0 .. N - 1, n \in Good
      PROVE  n + 1 \in Good
  <2>1. PICK s : Walks(s, n)
    BY <1>2
  <2> DEFINE t == [i \in 1 .. n + 1 |-> IF i = n + 1 THEN (IF n = 0 THEN 1 ELSE After(s[n]))
                                       ELSE s[i]]
  <2>2. ASSUME NEW i \in 1 .. n + 1
        PROVE  t[i] = IF i = 1 THEN 1 ELSE After(t[i - 1])
    <3>1. CASE i = n + 1 /\ n = 0
      BY <3>1
    <3>2. CASE i = n + 1 /\ n # 0
      <4>1. i # 1 /\ i - 1 = n /\ n \in 1 .. n + 1 /\ n # n + 1
        BY <3>2
      <4>2. t[i] = After(s[n]) /\ t[n] = s[n]
        BY <3>2, <4>1
      <4> HIDE DEF t
      <4> QED
        BY <4>1, <4>2
    <3>3. CASE i # n + 1
      <4>1. i \in 1 .. n /\ t[i] = s[i]
        BY <3>3
      <4>2. s[i] = IF i = 1 THEN 1 ELSE After(s[i - 1])
        <5>1. s = [j \in 1 .. n |-> IF j = 1 THEN 1 ELSE After(s[j - 1])]
          BY <2>1 DEF Walks
        <5> QED
          BY <4>1, <5>1
      <4>3. i # 1 => t[i - 1] = s[i - 1]
        BY <4>1
      <4> HIDE DEF t
      <4> QED
        BY <4>1, <4>2, <4>3
    <3> QED
      BY <3>1, <3>2, <3>3
  <2>3. t = [i \in 1 .. n + 1 |-> t[i]]
    OBVIOUS
  <2>4. Walks(t, n + 1)
    <3> HIDE DEF t
    <3> QED
      BY <2>2, <2>3 DEF Walks
  <2> HIDE DEF t
  <2> QED
    BY <2>4
<1>3. N \in Good
  <2> HIDE DEF Good
  <2> QED
    BY <1>1, <1>2, UpTo
<1> QED
  BY <1>3

(* Walk is one. *)
LEMMA WalkIs ==
    \A i \in 1 .. MaxHeap : Walk[i] = IF i = 1 THEN 1 ELSE After(Walk[i - 1])
<1> DEFINE w == CHOOSE f : Walks(f, MaxHeap)
<1>1. Walks(w, MaxHeap)
  BY WalksExists, HeapAssumption
<1>2. Walk = w
  BY DEF Walk, Walks
<1>3. Walks(Walk, MaxHeap)
  BY <1>1, <1>2
<1> DEFINE f == Walk
<1>4. f = [i \in 1 .. MaxHeap |-> IF i = 1 THEN 1 ELSE After(f[i - 1])]
  BY <1>3 DEF Walks
<1> HIDE DEF f
<1>5. \A i \in 1 .. MaxHeap : f[i] = IF i = 1 THEN 1 ELSE After(f[i - 1])
  BY <1>4
<1> QED
  BY <1>5 DEF f

(* After a block comes the next header. *)
LEMMA AfterIs ==
    ASSUME NEW H, Memory(heap), Tiled(heap, H), NEW b \in H
    PROVE  /\ b = Brk(heap) - 1 => After(b) = b
           /\ b # Brk(heap) - 1 => /\ After(b) = NextHeader(heap, b) /\ After(b) \in H
                                   /\ After(b) > b
                                   /\ \A x \in H : x <= b \/ x >= After(b)
<1>1. /\ Brk(heap) \in Nat /\ b \in Nat /\ b <= Brk(heap) - 1
      /\ get_size(heap, b) \in Nat
  BY TiledParts
<1>2. CASE b = Brk(heap) - 1
  BY <1>1, <1>2 DEF After, Tiled
<1>3. CASE b # Brk(heap) - 1
  <2>1. b < Brk(heap) - 1
    BY <1>1, <1>3
  <2>2. After(b) = NextHeader(heap, b)
    BY <2>1 DEF After, NextHeader, find_next
  <2>3. NextHeader(heap, b) \in H /\ \A x \in H : x <= b \/ x >= NextHeader(heap, b)
    BY <1>3 DEF Tiled
  <2>4. NextHeader(heap, b) > b
    BY <1>1 DEF NextHeader
  <2> QED
    BY <1>3, <2>2, <2>3, <2>4
<1> QED
  BY <1>2, <1>3

(* It stays on headers, and moves on until it is at the last epilogue. *)
LEMMA WalkStays ==
    ASSUME NEW H, Memory(heap), Tiled(heap, H)
    PROVE  \A i \in 1 .. MaxHeap : Walk[i] \in H /\ (Walk[i] = Brk(heap) - 1 \/ Walk[i] >= i)
<1> DEFINE B == Brk(heap) - 1
           f == Walk
           Good == {n \in Nat : f[n + 1] \in H /\ (f[n + 1] = B \/ f[n + 1] >= n + 1)}
<1>1. \A i \in 1 .. MaxHeap : f[i] = IF i = 1 THEN 1 ELSE After(f[i - 1])
  BY WalkIs
<1>2. 1 \in H /\ MaxHeap \in Nat /\ MaxHeap >= 1 /\ \A b \in H : b \in Nat
  <2>1. Brk(heap) <= MaxHeap /\ Brk(heap) \in Nat /\ Brk(heap) >= 2
    BY TiledParts DEF Tiled
  <2> QED
    BY <2>1, TiledParts, HeapAssumption DEF Tiled
<1> HIDE DEF f
<1>3. 0 \in Good
  <2>1. f[1] = 1
    BY <1>1, <1>2
  <2> QED
    BY <1>2, <2>1
<1>4. ASSUME NEW n \in 0 .. (MaxHeap - 1) - 1, n \in Good
      PROVE  n + 1 \in Good
  <2> DEFINE b == f[n + 1]
             c == f[(n + 1) + 1]
  <2>1. b \in H /\ (b = B \/ b >= n + 1)
    BY <1>4
  <2>2. (n + 1) + 1 \in 1 .. MaxHeap /\ (n + 1) + 1 # 1 /\ ((n + 1) + 1) - 1 = n + 1
    BY <1>2
  <2>3. c = After(b)
    BY <1>1, <2>2
  <2> HIDE DEF b, c
  <2>6. c \in H /\ (c = B \/ c >= (n + 1) + 1)
    <3>1. CASE b = B
      BY <2>1, <2>3, <3>1, AfterIs
    <3>2. CASE b # B
      <4>1. c \in H /\ c > b
        BY <2>1, <2>3, <3>2, AfterIs
      <4>2. c >= (n + 1) + 1
        BY <1>2, <2>1, <3>2, <4>1
      <4> QED
        BY <4>1, <4>2
    <3> QED
      BY <3>1, <3>2
  <2> QED
    BY <2>6 DEF c
<1>5. \A n \in 0 .. MaxHeap - 1 : n \in Good
  <2>1. MaxHeap - 1 \in Nat
    BY <1>2
  <2> HIDE DEF Good
  <2> QED
    BY <1>3, <1>4, <2>1, UpTo
<1>6. ASSUME NEW i \in 1 .. MaxHeap
      PROVE  f[i] \in H /\ (f[i] = B \/ f[i] >= i)
  <2>1. i - 1 \in 0 .. MaxHeap - 1 /\ (i - 1) + 1 = i
    BY <1>2
  <2> QED
    BY <1>5, <2>1
<1> QED
  BY <1>6 DEF f

(* The walk ends at the last epilogue, and reaches every block.            *)
LEMMA WalkEnds ==
    ASSUME NEW H, Memory(heap), Tiled(heap, H)
    PROVE  Walk[MaxHeap] = Brk(heap) - 1 /\ MaxHeap \in 1 .. MaxHeap
<1>1. Brk(heap) \in Nat /\ Brk(heap) >= 2 /\ Brk(heap) <= MaxHeap /\ MaxHeap \in Nat
  BY TiledParts, HeapAssumption DEF Tiled
<1>2. MaxHeap \in 1 .. MaxHeap
  BY <1>1
<1>3. Walk[MaxHeap] \in H /\ (Walk[MaxHeap] = Brk(heap) - 1 \/ Walk[MaxHeap] >= MaxHeap)
  BY <1>2, WalkStays
<1>4. Walk[MaxHeap] \in Nat /\ Walk[MaxHeap] <= Brk(heap) - 1
  BY <1>3, TiledParts
<1> QED
  BY <1>1, <1>2, <1>3, <1>4

(* No header is passed over. *)
LEMMA WalkReaches ==
    ASSUME NEW H, Memory(heap), Tiled(heap, H), NEW c \in H
    PROVE  \E i \in 1 .. MaxHeap : Walk[i] = c
<1> SUFFICES ASSUME \A i \in 1 .. MaxHeap : Walk[i] # c
             PROVE  FALSE
  OBVIOUS
<1> DEFINE B == Brk(heap) - 1
           f == Walk
           Good == {n \in Nat : f[n + 1] < c}
<1>1. \A i \in 1 .. MaxHeap : f[i] = (IF i = 1 THEN 1 ELSE After(f[i - 1])) /\ f[i] \in H
  BY WalkIs, WalkStays
<1>2. /\ \A b \in H : b \in Nat /\ b >= 1 /\ b <= B
      /\ MaxHeap \in Nat /\ MaxHeap \in 1 .. MaxHeap /\ f[MaxHeap] = B
  BY TiledParts, WalkEnds, HeapAssumption
<1>3. \A i \in 1 .. MaxHeap : f[i] # c
  OBVIOUS
<1> HIDE DEF f
<1>4. 0 \in Good
  <2>1. 1 \in 1 .. MaxHeap
    BY <1>2
  <2>2. f[1] = 1 /\ f[1] # c
    BY <1>1, <1>3, <2>1
  <2> QED
    BY <1>2, <2>2
<1>5. ASSUME NEW n \in 0 .. (MaxHeap - 1) - 1, n \in Good
      PROVE  n + 1 \in Good
  <2> DEFINE b == f[n + 1]
             d == f[(n + 1) + 1]
  <2>1. b < c
    BY <1>5
  <2>2. /\ (n + 1) + 1 \in 1 .. MaxHeap /\ (n + 1) + 1 # 1 /\ ((n + 1) + 1) - 1 = n + 1
        /\ n + 1 \in 1 .. MaxHeap
    BY <1>2
  <2>3. d = After(b) /\ b \in H /\ d # c /\ d \in H
    BY <1>1, <1>3, <2>2
  <2> HIDE DEF b, d
  <2>4. b # B
    BY <1>2, <2>1, <2>3
  <2>5. c <= b \/ c >= d
    BY <2>3, <2>4, AfterIs
  <2>6. d < c
    BY <1>2, <2>1, <2>3, <2>5
  <2> QED
    BY <2>6 DEF d
<1>6. \A n \in 0 .. MaxHeap - 1 : n \in Good
  <2>1. MaxHeap - 1 \in Nat
    BY <1>2
  <2> HIDE DEF Good
  <2> QED
    BY <1>4, <1>5, <2>1, UpTo
<1>7. f[MaxHeap] < c
  <2>1. MaxHeap - 1 \in 0 .. MaxHeap - 1 /\ (MaxHeap - 1) + 1 = MaxHeap
    BY <1>2
  <2> QED
    BY <1>6, <2>1
<1> QED
  <2>1. Brk(heap) \in Nat /\ c \in Nat /\ c <= B
    BY <1>2, TiledParts
  <2> QED
    BY <1>2, <1>7, <2>1

(* The headers that the walk finds are the blocks of the invariant.        *)
LEMMA HeadersAre ==
    ASSUME NEW H, NEW N, Fine(heap, H, N)
    PROVE  Headers = H
<1>1. CASE Sound(heap, H, N, NULL)
  <2>1. Memory(heap) /\ Tiled(heap, H)
    BY <1>1 DEF Sound
  <2>2. Brk(heap) # 0
    BY <2>1, TiledParts
  <2>3. \A i \in 1 .. MaxHeap : Walk[i] \in H
    BY <2>1, WalkStays
  <2>4. \A c \in H : \E i \in 1 .. MaxHeap : Walk[i] = c
    BY <2>1, WalkReaches
  <2>5. Headers = {Walk[i] : i \in 1 .. MaxHeap}
    BY <2>2 DEF Headers
  <2> HIDE DEF Headers
  <2> DEFINE f == Walk
  <2>6. Headers = {f[i] : i \in 1 .. MaxHeap} /\ \A i \in 1 .. MaxHeap : f[i] \in H
    BY <2>3, <2>5
  <2>9. ASSUME NEW c \in H
        PROVE  \E i \in 1 .. MaxHeap : f[i] = c
    BY <2>4
  <2> HIDE DEF f
  <2>7. \A c : c \in Headers => c \in H
    BY <2>6
  <2>8. ASSUME NEW c \in H
        PROVE  c \in Headers
    <3>1. PICK i \in 1 .. MaxHeap : f[i] = c
      BY <2>9
    <3>2. f[i] \in {f[j] : j \in 1 .. MaxHeap}
      OBVIOUS
    <3> QED
      BY <2>6, <3>1, <3>2
  <2> QED
    BY <2>7, <2>8
<1>2. CASE heap = no_heap /\ H = {}
  BY <1>2, NoHeap DEF Headers
<1> QED
  BY <1>1, <1>2 DEF Fine

(* What the invariant says, with the headers that the properties use. *)
LEMMA InvariantHeap ==
    ASSUME Invariant, Works
    PROVE  \E H, N : Fine(heap, H, N) /\ Owned(heap, H, live) /\ Headers = H
<1>1. PICK H, N : Fine(heap, H, N) /\ Owned(heap, H, live)
  BY DEF Invariant, Kept
<1>2. Headers = H
  BY <1>1, HeadersAre
<1> QED
  BY <1>1, <1>2

(* BlocksTileHeap follows from the invariant. *)
LEMMA TilesHeap == Invariant => BlocksTileHeap
<1> SUFFICES ASSUME Invariant, Works, Brk(heap) # 0
             PROVE  /\ Walk[MaxHeap] = Brk(heap) - 1
                    /\ \A b \in Headers : get_size(heap, b) = 0 => get_alloc(heap, b)
  BY DEF BlocksTileHeap
<1>1. PICK H, N : Fine(heap, H, N) /\ Owned(heap, H, live) /\ Headers = H
  BY InvariantHeap
<1>2. heap # no_heap
  BY NoHeap
<1>3. Memory(heap) /\ Tiled(heap, H)
  BY <1>1, <1>2 DEF Fine, Sound
<1> QED
  BY <1>1, <1>3, WalkEnds DEF Tiled

(* Bits that are equivalent are equal. *)
LEMMA SameBits ==
    ASSUME NEW h, NEW b, NEW c
    PROVE  /\ (get_prev_alloc(h, c) <=> get_alloc(h, b)) =>
                   get_prev_alloc(h, c) = get_alloc(h, b)
           /\ (get_prev_16B(h, c) <=> get_size(h, b) = 2) =>
                   get_prev_16B(h, c) = (get_size(h, b) = 2)
BY DEF get_prev_alloc, get_alloc, get_prev_16B, Bit

(* BoundaryTags follows from the invariant. *)
LEMMA Tags == Invariant => BoundaryTags
<1> SUFFICES ASSUME Invariant, Works, NEW b \in Blocks
             PROVE  LET c == find_next(heap, b) IN
                      /\ get_prev_alloc(heap, c) = get_alloc(heap, b)
                      /\ get_prev_16B(heap, c) = (get_size(heap, b) = dsize)
                      /\ ~get_alloc(heap, b) =>
                            /\ get_alloc(heap, c)
                            /\ get_size(heap, b) >= min_block_size
                                  => Word(heap, header_to_footer(heap, b)) = Word(heap, b)
  BY DEF BoundaryTags
<1>1. PICK H, N : Fine(heap, H, N) /\ Owned(heap, H, live) /\ Headers = H
  BY InvariantHeap
<1>2. b \in H /\ get_size(heap, b) # 0
  BY <1>1 DEF Blocks
<1>3. Sound(heap, H, N, NULL)
  BY <1>1, <1>2 DEF Fine
<1>4. Memory(heap) /\ Tiled(heap, H)
  BY <1>3 DEF Sound
<1> DEFINE c == b + get_size(heap, b)
<1>5. Told(heap, b, NULL)
  BY <1>2, <1>3 DEF Sound, Tagged
<1>6. c \in H
  BY <1>2, <1>4, NextBlock
<1>7. b \in Nat /\ c \in Nat /\ b # NULL /\ c # NULL /\ get_size(heap, b) \in Nat
  BY <1>2, <1>4, <1>6, TiledParts DEF NULL
<1>8. /\ get_prev_alloc(heap, c) <=> get_alloc(heap, b)
      /\ get_prev_16B(heap, c) <=> get_size(heap, b) = 2
      /\ ~get_alloc(heap, b) /\ get_size(heap, b) >= 4 => Word(heap, c - 1) = Word(heap, b)
      /\ ~get_alloc(heap, b) => get_alloc(heap, c)
  BY <1>5, <1>7 DEF Told
<1>9. c = find_next(heap, b) /\ c - 1 = header_to_footer(heap, b)
  BY <1>7 DEF find_next, header_to_footer, wsize
<1> HIDE DEF c
<1>10. /\ get_prev_alloc(heap, c) = get_alloc(heap, b)
       /\ get_prev_16B(heap, c) = (get_size(heap, b) = dsize)
  BY <1>8, SameBits DEF dsize
<1> QED
  BY <1>8, <1>9, <1>10 DEF min_block_size

(* PayloadsIntact follows from the invariant. *)
LEMMA Intact == Invariant => PayloadsIntact
<1> SUFFICES ASSUME Invariant, Works
             PROVE  /\ Blocks \ FreeBlocks = {payload_to_header(bp) : bp \in DOMAIN live}
                    /\ \A bp \in DOMAIN live :
                          /\ bp % dsize = 0
                          /\ live[bp] < get_size(heap, payload_to_header(bp))
                          /\ \A a \in bp .. bp + live[bp] - 1 : Word(heap, a) = Data
  BY DEF PayloadsIntact
<1>1. PICK H, N : Fine(heap, H, N) /\ Owned(heap, H, live) /\ Headers = H
  BY InvariantHeap
<1>2. \A c : c \in Blocks \ FreeBlocks <=> c \in H /\ get_size(heap, c) # 0 /\ get_alloc(heap, c)
  BY <1>1 DEF Blocks, FreeBlocks
<1>3. ASSUME NEW bp \in DOMAIN live
      PROVE  /\ bp \in Nat /\ payload_to_header(bp) = bp - 1 /\ bp - 1 \in Blocks \ FreeBlocks
             /\ bp % dsize = 0 /\ live[bp] < get_size(heap, bp - 1)
             /\ \A a \in bp .. bp + live[bp] - 1 : Word(heap, a) = Data
  <2> DEFINE b == bp - 1
  <2>1. bp \in Nat /\ Owns(heap, H, b, live[bp])
    BY <1>1 DEF Owned
  <2>2. b \in Int /\ b = bp - 1 /\ payload_to_header(bp) = b
    BY <2>1 DEF payload_to_header, wsize
  <2> HIDE DEF b
  <2>3. /\ b \in H /\ get_alloc(heap, b) /\ get_size(heap, b) # 0
        /\ live[bp] \in Nat /\ live[bp] < get_size(heap, b)
        /\ \A a \in b + 1 .. b + live[bp] : Word(heap, a) = Data
    BY <2>1 DEF Owns
  <2>4. Sound(heap, H, N, NULL)
    BY <1>1, <2>3 DEF Fine
  <2>5. b % 2 = 1 /\ b \in Nat
    BY <2>3, <2>4, TiledParts DEF Sound
  <2>6. bp % dsize = 0
    BY <2>1, <2>2, <2>5 DEF dsize
  <2>7. ASSUME NEW a \in bp .. bp + live[bp] - 1
        PROVE  Word(heap, a) = Data
    <3>1. a \in b + 1 .. b + live[bp]
      BY <2>1, <2>2, <2>3
    <3> QED
      BY <2>3, <3>1
  <2> QED
    BY <1>2, <2>1, <2>2, <2>3, <2>6, <2>7
<1>4. ASSUME NEW c \in Blocks \ FreeBlocks
      PROVE  \E bp \in DOMAIN live : payload_to_header(bp) = c
  <2>1. c \in H /\ get_size(heap, c) # 0 /\ get_alloc(heap, c)
    BY <1>2
  <2>2. c + 1 \in DOMAIN live
    BY <1>1, <2>1 DEF Owned
  <2>3. c \in Nat
    BY <1>1, <2>1, FineParts
  <2>4. payload_to_header(c + 1) = c
    BY <2>3 DEF payload_to_header, wsize
  <2> QED
    BY <2>2, <2>4
<1>5. Blocks \ FreeBlocks = {payload_to_header(bp) : bp \in DOMAIN live}
  BY <1>3, <1>4
<1> QED
  BY <1>3, <1>5

(* The blocks always fill the heap from its first to its last epilogue. *)
THEOREM TilesCorrect == Spec => []BlocksTileHeap
  BY TilesHeap, Invariance, PTL

(* What a block remembers of the one before it, and its footer, are always *)
(* true, and no two free blocks are neighbours.                            *)
THEOREM TagsCorrect == Spec => []BoundaryTags
  BY Tags, Invariance, PTL

(* The allocated blocks are always the clients' payloads, each as large as *)
(* was asked for, and with every word as its client wrote it.              *)
THEOREM PayloadsCorrect == Spec => []PayloadsIntact
  BY Intact, Invariance, PTL

(* A chain as the walk along its links gives it. *)
LEMMA ChainCounts ==
    ASSUME NEW k \in Nat, NEW S, NEW s \in [1 .. k -> S], \A x \in S : \E i \in 1 .. k : s[i] = x,
           \A i, j \in 1 .. k : s[i] = s[j] => i = j
    PROVE  ToSet(s) = S /\ Cardinality(S) = k
<1>1. DOMAIN s = 1 .. k /\ \A i \in 1 .. k : s[i] \in S
  OBVIOUS
<1>2. ToSet(s) = S
  <2>1. \A x \in ToSet(s) : x \in S
    BY <1>1 DEF ToSet
  <2>2. ASSUME NEW x \in S
        PROVE  x \in ToSet(s)
    <3>1. PICK i \in 1 .. k : s[i] = x
      OBVIOUS
    <3> QED
      BY <1>1, <3>1 DEF ToSet
  <2> QED
    BY <2>1, <2>2
<1> DEFINE I == 1 .. k
<1>3. s \in Bijection(I, S)
  BY DEF Bijection, Injection, Surjection, IsInjective
<1>4. ExistsBijection(1 .. k, S)
  BY <1>3 DEF ExistsBijection
<1>5. Cardinality(S) = k
  BY <1>4, FS_CountingElements
<1> QED
  BY <1>2, <1>5

(* What ListsHoldFreeBlocks asks of one list. *)
LEMMA ListIs ==
    ASSUME NEW h, NEW H, NEW N, Fine(h, H, N), NEW n \in Lists,
           NEW list, list = FreeList(h, n)
    PROVE  /\ ToSet(list) = InList(h, H, N, n) /\ Cardinality(ToSet(list)) = Len(list)
           /\ n # 0 => \A i \in DOMAIN list :
                 get(h, prev_linknode(list[i])) = IF i = 1 THEN NULL ELSE list[i - 1]
<1> DEFINE S == InList(h, H, N, n)
           k == Len(list)
<1>1. list \in Seq(S) /\ Chain(h, n, S, k, list)
  BY FineList
<1>2. k \in Nat /\ DOMAIN list = 1 .. k
  BY <1>1
<1>3. \A x \in S : x \in Int
  BY FineParts DEF InList, Members
<1> HIDE DEF S, k
<1>4. /\ list \in [1 .. k -> S] /\ \A x \in S : \E i \in 1 .. k : list[i] = x
      /\ \A i, j \in 1 .. k : list[i] = list[j] => i = j
      /\ n # 0 => \A i \in 1 .. k : get(h, list[i] + 2) = IF i = 1 THEN NULL ELSE list[i - 1]
  BY <1>1 DEF Chain
<1>5. ToSet(list) = S /\ Cardinality(S) = k
  BY <1>2, <1>4, ChainCounts
<1>6. ASSUME n # 0, NEW i \in DOMAIN list
      PROVE  get(h, prev_linknode(list[i])) = IF i = 1 THEN NULL ELSE list[i - 1]
  <2>1. list[i] \in Int /\ i \in 1 .. k
    BY <1>2, <1>3, <1>4
  <2>2. prev_linknode(list[i]) = list[i] + 2
    BY <2>1 DEF prev_linknode, wsize
  <2> QED
    BY <1>4, <1>6, <2>1, <2>2
<1> QED
  BY <1>5, <1>6 DEF S, k

(* What the lists hold together. *)
LEMMA AllInLists ==
    ASSUME NEW H, NEW N, Fine(heap, H, N), Headers = H
    PROVE  /\ \A n \in Lists : \A b \in InList(heap, H, N, n) \ Sentinel :
                 find_listnumber(get_size(heap, b)) = n
           /\ \A b : (\E n \in Lists : b \in InList(heap, H, N, n)) <=>
                     b \in FreeBlocks \cup Sentinel
<1>1. CASE heap = no_heap /\ H = {} /\ N = Lists
  <2>1. Sentinel = {} /\ FreeBlocks = {}
    BY <1>1, NoHeap DEF Sentinel, FreeBlocks, Blocks
  <2>2. \A n \in Lists : InList(heap, H, N, n) = {}
    BY <1>1 DEF InList, Members
  <2> QED
    BY <2>1, <2>2
<1>2. CASE Sound(heap, H, N, NULL)
  <2>1. Memory(heap) /\ Tiled(heap, H) /\ Started(heap, H, N) /\ Filed(heap, H, N, NULL)
    BY <1>2 DEF Sound
  <2>2. N \subseteq Lists
    BY <2>1 DEF Filed, Linked
  <2>3. \A b \in H : ~get_alloc(heap, b) => get_size(heap, b) # 0 /\ b # NULL /\ Number(heap, b) \in N
    BY <2>1, TiledParts DEF Filed, NULL
  <2>4. \A b : b \in FreeBlocks <=> b \in H /\ ~get_alloc(heap, b)
    BY <2>3 DEF FreeBlocks, Blocks
  <2>5. \A n \in N : \A b : b \in InList(heap, H, N, n) <=>
                            b \in H /\ ~get_alloc(heap, b) /\ Number(heap, b) = n
    BY <2>3 DEF InList, Members
  <2>6. \A n \in Lists \ N : InList(heap, H, N, n) = {Brk(heap) - 1}
    BY DEF InList
  <2>7. heap.heap_start \in H /\ heap.heap_start # NULL
    BY <2>1, TiledParts DEF Started, NULL
  <2>8. CASE N = Lists
    <3>1. Sentinel = {}
      BY <2>1, <2>8 DEF Sentinel, Started
    <3> QED
      BY <2>3, <2>4, <2>5, <2>8, <3>1 DEF Number
  <2>9. CASE N # Lists
    <3>1. N = Lists \ {SIZE - 1} /\ heap.heap_start = Brk(heap) - 1
      BY <2>1, <2>9 DEF Started
    <3>2. Sentinel = {Brk(heap) - 1}
      BY <2>1, <2>7, <3>1 DEF Sentinel, Tiled
    <3>3. SIZE - 1 \in Lists
      BY Chunk
    <3>4. Lists \ N = {SIZE - 1}
      BY <3>1, <3>3
    <3>5. \A n \in Lists : \A b \in InList(heap, H, N, n) \ Sentinel :
                 find_listnumber(get_size(heap, b)) = n
      BY <2>5, <2>6, <3>2 DEF Number
    <3>6. ASSUME NEW n \in Lists, NEW b \in InList(heap, H, N, n)
          PROVE  b \in FreeBlocks \cup Sentinel
      <4>1. CASE n \in N
        BY <2>4, <2>5, <3>6, <4>1
      <4>2. CASE n \notin N
        BY <2>6, <3>2, <3>6, <4>2
      <4> QED
        BY <4>1, <4>2
    <3>7. ASSUME NEW b \in FreeBlocks
          PROVE  \E n \in Lists : b \in InList(heap, H, N, n)
      <4>1. b \in H /\ ~get_alloc(heap, b)
        BY <2>4, <3>7
      <4>2. Number(heap, b) \in N /\ b \in InList(heap, H, N, Number(heap, b))
        BY <2>3, <2>5, <4>1
      <4> QED
        BY <2>2, <4>2
    <3>8. ASSUME NEW b \in Sentinel
          PROVE  \E n \in Lists : b \in InList(heap, H, N, n)
      BY <2>6, <3>2, <3>3, <3>4
    <3> QED
      BY <3>5, <3>6, <3>7, <3>8
  <2> QED
    BY <2>8, <2>9
<1> QED
  BY <1>1, <1>2 DEF Fine

(* ListsHoldFreeBlocks follows from the invariant. *)
LEMMA ListsHold == Invariant => ListsHoldFreeBlocks
<1> SUFFICES ASSUME Invariant, Works
             PROVE  /\ \A n \in Lists : LET list == FreeList(heap, n) IN
                          /\ Cardinality(ToSet(list)) = Len(list)
                          /\ \A b \in ToSet(list) \ Sentinel :
                                find_listnumber(get_size(heap, b)) = n
                          /\ n # 0 => \A i \in DOMAIN list :
                                get(heap, prev_linknode(list[i])) =
                                    IF i = 1 THEN NULL ELSE list[i - 1]
                    /\ UNION {ToSet(FreeList(heap, n)) : n \in Lists} = FreeBlocks \cup Sentinel
  BY DEF ListsHoldFreeBlocks
<1>1. PICK H, N : Fine(heap, H, N) /\ Owned(heap, H, live) /\ Headers = H
  BY InvariantHeap
<1>2. /\ \A n \in Lists : \A b \in InList(heap, H, N, n) \ Sentinel :
                 find_listnumber(get_size(heap, b)) = n
      /\ \A b : (\E n \in Lists : b \in InList(heap, H, N, n)) <=> b \in FreeBlocks \cup Sentinel
  BY <1>1, AllInLists
<1>3. ASSUME NEW n \in Lists
      PROVE  /\ ToSet(FreeList(heap, n)) = InList(heap, H, N, n)
             /\ Cardinality(ToSet(FreeList(heap, n))) = Len(FreeList(heap, n))
             /\ n # 0 => \A i \in DOMAIN FreeList(heap, n) :
                   get(heap, prev_linknode(FreeList(heap, n)[i])) =
                       IF i = 1 THEN NULL ELSE FreeList(heap, n)[i - 1]
  BY <1>1, ListIs
<1>4. \A b : b \in UNION {ToSet(FreeList(heap, n)) : n \in Lists} <=>
             \E n \in Lists : b \in InList(heap, H, N, n)
  BY <1>3
<1>5. UNION {ToSet(FreeList(heap, n)) : n \in Lists} = FreeBlocks \cup Sentinel
  BY <1>2, <1>4
<1> QED
  BY <1>2, <1>3, <1>5

(* The free lists always hold each free block once, in the list of its     *)
(* size, with links that lead forth and back.                              *)
THEOREM ListsCorrect == Spec => []ListsHoldFreeBlocks
  BY ListsHold, Invariance, PTL
=============================================================================
