------------------------------- MODULE Proxy -------------------------------
(***************************************************************************)
(* The concurrent web proxy (proxylab/proxy.c): main accepts connections   *)
(* and starts a detached thread for each; doit answers one request from    *)
(* the cache or from the server.  The threads share only the cache, whose  *)
(* mutex is taken for each call and given back after it, so one action is  *)
(* one critical section, or one stretch of code outside of them.           *)
(*                                                                         *)
(* Threads bounds the connections served at one time.  A request that is   *)
(* not a GET touches nothing and is left out; so are the peers' bytes: a   *)
(* server answers a URL with the content that belongs to it, or cannot be  *)
(* reached, or goes away before the request is sent.                       *)
(***************************************************************************)
EXTENDS CacheList, Sequences, FiniteSetsExt

CONSTANT Threads

ASSUME ThreadsAssumption == IsFiniteSet(Threads)

VARIABLES
    cache,
    pc,          \* where each thread is in doit
    uri,         \* the URL each thread was asked for
    find_block,  \* the block each thread found, NULL when none
    answer       \* the URL whose content the thread sent to its client

vars == <<cache, pc, uri, find_block, answer>>

Init ==
    /\ cache = init_cache
    /\ pc = [t \in Threads |-> "idle"]
    /\ uri = [t \in Threads |-> NULL]
    /\ find_block = [t \in Threads |-> NULL]
    /\ answer = [t \in Threads |-> NULL]

At(t, place) == ~cache.broken /\ pc[t] = place

Goto(t, place) == pc' = [pc EXCEPT ![t] = place]

(* Pointers to blocks that the threads have and will use.                  *)
Held == {find_block[t] : t \in {s \in Threads : pc[s] \in {"read", "send", "release"}}}

-----------------------------------------------------------------------------
(* A client connects and its thread reads the request.                     *)
Accept(t, u) ==
    /\ At(t, "idle")
    /\ Goto(t, "find")
    /\ uri' = [uri EXCEPT ![t] = u]
    /\ find_block' = [find_block EXCEPT ![t] = NULL]
    /\ answer' = [answer EXCEPT ![t] = NULL]
    /\ UNCHANGED cache

(* find_cache under the mutex; the block it returns is used without it.    *)
Look(t, found, missing) ==
    LET result == find_cache(cache, uri[t])
    IN /\ find_block' = [find_block EXCEPT ![t] = result.block]
       /\ Goto(t, IF result.block # NULL THEN found ELSE missing)
       /\ cache' = IF result.broken THEN Broken(cache) ELSE cache
       /\ UNCHANGED <<uri, answer>>

Find(t) == At(t, "find") /\ Look(t, "read", "fetch")

(* The server cannot be reached or does not take the request: doit returns *)
(* (in the second case with the server's descriptor open).                 *)
FetchFails(t) ==
    /\ At(t, "fetch")
    /\ Goto(t, "idle")
    /\ UNCHANGED <<cache, uri, find_block, answer>>

(* Connect, send the header, read the response to its end.                 *)
Fetch(t) ==
    /\ At(t, "fetch")
    /\ Goto(t, "refind")
    /\ UNCHANGED <<cache, uri, find_block, answer>>

Refind(t) == At(t, "refind") /\ Look(t, "read", "write")

(* The client gets the server's response, which is cached if it is small.  *)
Cacheable(u) == SizeOf[u] < MAX_OBJECT_SIZE

Write(t) ==
    /\ At(t, "write")
    /\ answer' = [answer EXCEPT ![t] = uri[t]]
    /\ IF Cacheable(uri[t])
       THEN \E new \in Mallocable(cache, SizeOf[uri[t]]) :
                cache' = Forget(find_cache_to_write(cache, uri[t], new), Held)
       ELSE cache' = cache
    /\ Goto(t, "idle")
    /\ UNCHANGED <<uri, find_block>>

(* Mutant of Read: the block is sent without a reference to it.            *)
Read_NoReference(t) ==
    /\ At(t, "read")
    /\ cache' = move_to_first(cache, find_block[t])
    /\ Goto(t, "send")
    /\ UNCHANGED <<uri, find_block, answer>>

(* read_from_cache: take a reference, send without the mutex, give it back.*)
Read(t) ==
    /\ At(t, "read")
    /\ LET moved == move_to_first(cache, find_block[t])
       IN cache' = IF moved.broken THEN moved ELSE increref(moved, find_block[t])
    /\ Goto(t, "send")
    /\ UNCHANGED <<uri, find_block, answer>>

Send(t) ==
    /\ At(t, "send")
    /\ IF find_block[t] \in cache.alloc
       THEN /\ answer' = [answer EXCEPT ![t] = cache.mem[find_block[t]].url]
            /\ UNCHANGED cache
       ELSE cache' = Broken(cache) /\ UNCHANGED answer
    /\ Goto(t, "release")
    /\ UNCHANGED <<uri, find_block>>

Release(t) ==
    /\ At(t, "release")
    /\ cache' = decreref(cache, find_block[t])
    /\ Goto(t, "idle")
    /\ UNCHANGED <<uri, find_block, answer>>

Next == \E t \in Threads :
    \/ \E u \in Urls : Accept(t, u)
    \/ Find(t) \/ Refind(t)
    \/ FetchFails(t) \/ Fetch(t)
    \/ Write(t)
    \/ Read(t) \/ Send(t) \/ Release(t)

Spec == Init /\ [][Next]_vars

-----------------------------------------------------------------------------
TypeOK ==
    /\ cache \in Cache
    /\ pc \in [Threads -> {"idle", "find", "fetch", "refind", "write",
                           "read", "send", "release"}]
    /\ uri \in [Threads -> Urls \cup {NULL}]
    /\ find_block \in [Threads -> Links]
    /\ answer \in [Threads -> Urls \cup {NULL}]

(* The list from the head, as far as it can be walked.                     *)
List ==
    LET w == Forward(cache)
        len == First({n \in Steps : w[n] = NULL})
    IN [n \in 1 .. (IF len = -1 THEN Cardinality(Blocks) ELSE len) |-> w[n - 1]]

Readers(b) == {t \in Threads : pc[t] \in {"send", "release"} /\ find_block[t] = b}

(* No thread touches a block after it was freed or loops in the list.      *)
MemorySafe == ~cache.broken

(* The list runs from head to tail through distinct live blocks, and a     *)
(* block that has a prev has the block before it: what unlinking a block   *)
(* (move_to_first) and evicting from the tail rely on.                     *)
ChainSound ==
    /\ Cardinality(Listed(cache)) = Len(List) /\ Listed(cache) \subseteq cache.alloc
    /\ cache.tail = IF List = <<>> THEN NULL ELSE List[Len(List)]
    /\ \A n \in DOMAIN List : cache.mem[List[n]].prev
                             \in {NULL, IF n = 1 THEN NULL ELSE List[n - 1]}

(* A list that can be walked both ways stays so until something is evicted:*)
(* insertions and moves set every prev.                                    *)
DoublyLinked ==
    \A n \in 2 .. Len(List) : cache.mem[List[n]].prev = List[n - 1]

Evicting(t) == /\ pc[t] = "write" /\ pc'[t] # "write"
               /\ ~HasRoom(cache, SizeOf[uri[t]])

KeepsDoublyLinked ==
    [][DoublyLinked /\ ~(\E t \in Threads : Evicting(t)) => DoublyLinked']_vars

(* A block that is listed has one reference for the list and one for every *)
(* thread that is sending it; one that was evicted has the threads' only,  *)
(* so that the last of them frees it.                                      *)
RefcntCountsReaders ==
    /\ \A b \in Listed(cache) : cache.mem[b].refcnt = 1 + Cardinality(Readers(b))
    /\ \A t \in Threads : pc[t] \in {"send", "release"} => find_block[t] \in cache.alloc

(* total_size is the size of what is cached, and stays under the limit.    *)
TotalIsSum ==
    /\ cache.total_size = MapThenSumSet(LAMBDA b : SizeOf[cache.mem[b].url], Listed(cache))
    /\ cache.total_size < MAX_CACHE_SIZE

(* A client gets the content of the URL it asked for.                      *)
AnswersBelong == \A t \in Threads : answer[t] \in {NULL, uri[t]}

(* The URLs in the list.                                                   *)
Order == [n \in DOMAIN List |-> cache.mem[List[n]].url]

LRU == INSTANCE LruCache WITH order <- Order

(* Behind the first, the blocks that an eviction left without a prev.      *)
Stranded == {n \in 2 .. Len(List) : cache.mem[List[n]].prev = NULL}

(* A read block moves to the front; a stranded one stays where it is.      *)
UsesBlock(t) ==
    \E n \in DOMAIN List :
        /\ List[n] = find_block[t]
        /\ IF n \in Stranded THEN Order' = Order ELSE LRU!Use(n)

(* The least recently used make room; with a stranded one, the whole list. *)
CachesAnswer(t) ==
    \/ LRU!Store(uri[t])
    \/ \E kept \in 0 .. Len(List) :
          IF \A n \in Stranded : n <= kept THEN LRU!Replace(uri[t], kept)
          ELSE LRU!MakesRoom(uri[t], kept) /\ Order' = <<uri[t]>>

LruStep(t) ==
    CASE pc[t] = "read" -> UsesBlock(t)
      [] pc[t] = "write" /\ Cacheable(uri[t]) -> CachesAnswer(t)
      [] OTHER -> Order' = Order

(* Every read and every write is one of an LRU cache: what is read moves to*)
(* the front, and for what is written the least recently used make room.   *)
(* Only a stranded block stays where it is when it is read, against the    *)
(* comments (cache.c:42-43, 115-116); and when it is its turn to make room *)
(* the whole list does (197-206).  No other step changes the order.        *)
KeepsLru == [][\A t \in Threads : pc'[t] # pc[t] => LruStep(t)]_vars

(* A block found is still listed, and is still that URL's, when it is read:*)
(* what the unlocked window between find_cache and read_from_cache takes   *)
(* for granted.                                                            *)
FoundStaysListed ==
    \A t \in Threads : pc[t] = "read" =>
        find_block[t] \in Listed(cache) /\ cache.mem[find_block[t]].url = uri[t]

(* As long as that window does no harm neither do the references, the      *)
(* evictions and the concurrent writers: the cache stays sound.            *)
Sound == MemorySafe /\ ChainSound /\ RefcntCountsReaders /\ TotalIsSum /\ AnswersBelong

SoundWhileFresh == []FoundStaysListed => []Sound
=============================================================================
