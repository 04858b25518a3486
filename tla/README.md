# A verification project for the 18-613 lab programs

The repository holds the programs of one computer-systems course: a job-control
shell, a caching web proxy, a dynamic memory allocator, and smaller programs
(a cache simulator, a string queue, bit puzzles) with the drivers that grade
them. The programs share no code at run time. This directory models the ones
whose correctness hangs on order: the shell (signals against a main loop), the
proxy (threads against a mutex) and the buffered reader under it, the allocator
(any sequence of calls against a packed data structure), the cache simulator
(the order of accesses), the string queue in its test harness (calls that fail
or are cut off), and the driver that runs the shell's traces (several drivers,
timeouts and signals against one directory).

All paths below are under `src/`.

## Inventory

| Part | Source | State it keeps | Operations | What is hard |
|---|---|---|---|---|
| Shell: loop and handlers | `tshlab/tsh.c` | signal mask, the command in hand | eval, fg, bg, jobs, quit; SIGINT, SIGTSTP, SIGCHLD, SIGQUIT handlers; cleanup | handlers between any two instructions, signals that coalesce, children that end at any time |
| Shell: job table | `tshlab/tsh_helper.c` | `job_list[MAXJOBS]`, `nextjid` | add, delete, look up, set state | IDs handed out again, the table's end |
| Shell's trace driver | `tshlab/runtrace.c` | `cleanup_needed`, its shell's session, `runtrace.tmp` | start, lines of a trace, timeouts, three ways out, cleanup | other drivers in the directory, signals within a cleanup, jobs that fork while it runs, an alarm that outlives its purpose |
| Proxy: threads | `proxylab/proxy.c` | per thread: request, block found, server connection | accept, find, fetch, find again, write, read | what was found is used after the mutex was released |
| Proxy: cache | `proxylab/cache.c` | doubly linked list, head, tail, `total_size`, `refcnt` | find, insert, evict, move to front, take and drop a reference | eviction while others send; links after eviction |
| Buffered reader | `proxylab/csapp.c` | `rio_t`: what was read ahead | `rio_readnb`, `rio_readlineb` | short reads and interrupts, two kinds of calls on one buffer |
| Allocator | `malloclab/mm.c` | boundary tags and 15 free lists inside the heap | malloc, free, realloc, calloc, mm_init | 16-byte blocks without a footer, joining neighbours, a heap that is full |
| Driver's memory | `malloclab/memlib.c` | the break | mem_sbrk | running out between two calls |
| Cache simulator | `cachelab/csim.c` | sets of lines with an age, five counters | load, store | which line is the oldest, an age compared signed here and unsigned there |
| String queue | `cprogramminglab-handout/queue.c` | linked list, head, tail, size | new, free, insert, remove, reverse, size | allocation failures half way |
| Queue harness | `cprogramminglab-handout/` `qtest.c`, `console.c`, `harness.c` | `qcnt`, the list of allocations, error counts | one command per call, `test_malloc`, `test_free`, the jump out of a call | the time limit jumps out between any two stores |
| Not core | drivers of the other labs, `trans.c`, `bits.c`, `tiny/`, vendored CUDD and cbit | | | |

How parts interact. The shell's loop and its handlers share the job table, and
are kept apart only by signal masks; the kernel tells the shell of its children
by SIGCHLD and `waitpid`, and the shell tells the children by `kill(-pid)`. The
proxy's threads share the cache, and each call into it is a critical section of
its own; each thread reads its peers through a `rio_t` nobody else uses. Clients
of the allocator write where they were allowed to, and the allocator keeps its
lists in the memory they gave back. The harness calls the queue, gives it memory,
and may jump out of it. Trace drivers share a directory, and each starts a shell
in a session of its own that a child process of the driver kills in the end.

What makes each correct. Shell: the table and the kernel's children agree
whenever a handler may look; no report is lost; one foreground job, and none
while commands are read; the wait ends. Driver: it removes its own directory and
no other, leaves no job behind at the end of a trace, and ends. Proxy: the list, the references and the
total stay right, what was used last is kept, a client gets the content it asked for, and
memory in use is not freed. Reader: each byte reaches the caller once and in order. Allocator: tags
and lists describe the heap, payloads do not overlap and are not touched.
Simulator: no block is in two lines, what is replaced was not used last, and the
counts describe the cache. Queue: list, tail and size agree between commands, and
what is left after an interrupted one can still be walked and freed; the harness's own list
holds allocated blocks.

## Modules

### Shell

`JobList`: the job table as operators, one for each function of
`tsh_helper.c`. Each runs with signals blocked, so each is indivisible.
`Tsh` extends it: `pc` is the place of the main thread in `eval`,
`do_fg_bg_job` or `exit`; `masked` is the signal mask (the program only ever
blocks all or nothing); `handler` the handler that runs; `pending` the kernel's
pending set, in which signals of one kind merge; `proc`, `pgrp`, `unreported`
and `intPending` are the children as the kernel sees them. An action is a stretch
of code between two points where something else could run and tell the
difference. `sigsuspend` (`WaitLoop`) unblocks and waits in one step, as it does.
A handler blocks all signals first, so handlers do not interleave with each other.
A SIGTSTP or SIGINT reaches the shell from the keyboard (`Key`) and children of
the shell's own group with it. The child is `child` from `fork` to `execve`: it
runs the shell's handlers on a copy of the table there, in which no job is in the
foreground.
`TshInvariant` has the inductive invariant, `TshProofs` the theorems (on top of
`Induction`, that a set of numbers has a least element, which the proxy's and the queue's
proofs use too), and
`TshClaims` sentences of the comments that the program does not keep.
`JobControl` is the abstract specification: each process is `none`, `FG`, `BG` or
`ST`, at most one `FG`, and no command is read meanwhile. It knows no table, no
job IDs and no signals. `Tsh` implements it with `view` read off the table
through `job_from_pid` and `mode` read off `pc`.

`Runtrace`: any number of trace drivers in one directory. `pc` is each driver's
place in `main`, `shell` and `jobs` are its session, and `cleaner` the
`/bin/sh -c` processes that list the session, kill it and remove the directory,
in that order: one started by `main` or `atexit_clean`, one by a signal or alarm
handler. The shell starts jobs and jobs fork (as `testprogs/mysplit.c` does) at any time, also
between a cleanup's `ps` and its `kill`. `Signal` (one that has a handler), `Alarm` and `Strike`
(a key that hits the cleanup process) come at any time the mask allows. The lines of a trace are
abstracted to how one may go wrong. `again`, `struck`, `missed` and `robbed` are history.
`RuntraceProofs` proves its safety.

### Proxy

`CacheList`: the cache as a value, with the functions of `cache.c` as operators
from a value to the next. Memory is explicit: `alloc` is what has been malloc'd
and not freed, an address may be handed out again, and touching a freed block sets
`broken`. Loops over links are walks one step longer than there are blocks.
A block nobody can reach any more (the program leaks some) is taken for
fresh memory. `Proxy` has one action per critical section of
`doit` and `read_from_cache`, and one for what happens between them: `Find`,
`Fetch`, `Refind`, `Write`, `Read`, `Send`, `Release`. Its `Threads` are the
connections served at a time; a thread that is done takes the next connection.
`LruCache` has the operations of a cache that gives up what was used longest ago, on the
order of last use: a use moves an element to the front, a new one goes in front, and without room
the shortest end of the list that is as large as the new one goes. The code is not such a cache:
`evict_cache` leaves the old head without a `prev`, so that later it is `Stranded`. `KeepsLru` says
how far the code goes: each read and each write is that operation of `LruCache`, except that a
stranded block stays where it is when it is read, and that an end with a stranded block in it goes
together with everything before it. `ProxyClaims` has a comment the code does not keep.
`ProxyProofs` proves memory safety, the list, the references and `KeepsLru`.

`Rio`: the buffered reader of `csapp.c`. The stream is the bytes `1 .. Length`, of
which any may be a newline; `read` returns any part of what it is asked for, an
error, an interrupt or the end. A call (`Readnb`, `Readlineb`) is a loop of steps, one
for each `rio_read`, and `user` is what it has copied. `ByteStream` is the abstract
specification, a reader without a buffer: each call takes the next bytes, as many as
it asked for or up to a newline. `RioProofs` proves that the one implements the other.

### Allocator

`Heap`: the heap word by word, one operator per function of `mm.c`. A word holds a
header or footer, a pointer, or client data, so that a footer written over a link,
or a link over a payload, is visible. Sizes count 8-byte words. `Malloc` is the
state machine: the calls clients make, and what they hold. `Allocator` is the
abstract specification: payloads never overlap. The invariants say what
`mm_checkheap` checks, and more (it does not look at list 0 or at the blocks of an
earlier heap). `find_fit` is written as a choice: of the first `RANGE` places of the lists
that fit, the first of the smallest; the loop of `mm.c` computes it. `MallocProofs` proves
the invariants and that `Malloc` implements `Allocator`.

### Cache simulator

`Csim`: one run of `csim.c` on a trace. `Hit`, `Fill` and `Evict` are the three ways
through `TestCache`, with both comparisons of ages: an unused line's `UINT64_MAX` is -1
where the code compares signed and the youngest where it compares unsigned. `since` is
history, the lines of each set used since it is full. `AgedSets` is the abstract
specification: a set that was never full has no order; a full one replaces a line
not used since it filled up, and when there is none the least recently used. For one or
two lines per set that is LRU. `CsimProofs` proves the invariants.

### Queue and harness

`Harness`: `test_malloc` and `test_free` with the doubly linked list of allocated blocks that
`find_header` walks. Each store to the list is a step of its own, because `SIGALRM` may jump out
between any two: the new block's own links with the `malloc` before them, the old first block's
`prev`, `allocated`, the count, and as many to unlink a block. `live` is what is allocated, `step` and
`blk` the call in progress, and `torn` is history: whether an alarm came between the two stores of a
link. A walk is described by the sets of blocks it cannot leave (`MeetsOnly`), since a list that an
alarm left behind need not end. `Queue` extends it by `queue.c`, again one store at a
time; a call of `test_malloc` or `test_free` is its first store and then `HarnessCall`. `QTest` puts
the commands of `qtest.c` around it: counting, error checks, and `TimeLimit`, which ends the call
wherever it is and resumes after `exception_setup`; locals that are not volatile may then have either
value. What follows the use of a freed block is not modelled: such a step is not taken, and
`MemorySafe` and `ListSafe` say where one may be about to come. `MemorySafe` is about `queue.c`:
only its store through the tail may use a freed block, and only after a command was
cut off. `ListSafe` is about the harness: without a torn link no walk and no store of the list does. (With
one, a freed block can stay in the list.)
`Deque` is the abstract specification: a sequence with insertion at both ends,
removal and reversal, each complete or not done at all. `QTestInvariant` has the inductive
invariant, and `QTestProofs` the proof that every store of a call, every command and the
jump keep it.

`MCTsh`, `MCProxy`, `MCMalloc`, `MCCsim`, `MCRio`, `MCQTest`, `MCRuntrace` give the
constants values. Definitions whose name has an underscore and a suffix, with the comment
"Mutant of", are the faults that each property is known to notice; nothing else refers
to them.

## Runs

| Run | Instance | What it shows |
|---|---|---|
| `tsh_safety` | 3 process IDs, 2 slots | all safety properties of the shell, and that it implements `JobControl` |
| `tsh_liveness` | 2 IDs, 2 slots | the foreground wait ends; zombies are reaped |
| `tsh_race` | 2 IDs | a key, or fg, before the child's `setpgid` ends the shell |
| `tsh_refused` | 3 IDs, 2 slots | a job is refused, and the shell leaves, with a slot free |
| `runtrace_exits` | 2 drivers, one with up to 2 jobs | no driver removes another's directory, leaves its own, or leaves a job at the end of a trace, but in the cases named; each ends |
| `proxy_evict` | 1 thread, 5 URLs | list, total and answers through evictions; an LRU cache but for stranded blocks |
| `proxy_fresh` | 2 threads, 2 URLs | references protect senders from evictions, as long as no block goes between being found and being read |
| `proxy_stale` | 2 threads | a block freed between being found and being read |
| `rio_calls` | 6 bytes, buffer of 3 | calls by count and by line in any order; implements `ByteStream` |
| `malloc_heap` | 18 words, 3 lists | tags, lists and payloads through every sequence of calls; implements `Allocator` |
| `csim_sets` | 2 sets, 1 to 3 lines, 6 accesses | no block twice, counts, what is replaced; implements `AgedSets` |
| `queue_commands` | 3 elements, 2 queues, 1 alarm | memory, the list of blocks, shape and counts between commands; implements `Deque` |

Bounds and why they suffice. *Shell*: a race needs one job that ends or stops and
another that is started or brought back, and a table that fills and has a hole;
three IDs against two slots give a child for each slot and one to be refused or to
reuse an ID. The commands are unlimited, so sequences are as long as the states
allow. IDs are symmetric in `tsh_safety`; the liveness run uses no symmetry.
*Driver*: what one driver does to another needs two. A job and one that it forks are two in one session; no driver
touches the session of another, so that only one of them is given jobs. *Proxy*: every block the list, the
readers and the writers can need at one time
fits in `Blocks` (checked: a writer always finds a free address). The sizes are
such that an eviction takes one block, several, or all, and that `large` is too big
to cache. *Reader*: a stream twice the buffer makes it fill three times when reads are
cut anywhere; counts are zero, less than the buffer, and more than what is left.
*Allocator*: `Limits` is cut from 15 lists to 3 (16 bytes, 32 bytes,
more), keeping that the first is singly linked and that `chunksize` falls in the
last, which `mm_init` relies on; `RANGE` is 2, so that the cap of `find_fit` bites;
18 words let the heap grow once, or start anew, and then run out in either of
`mm_init`'s two steps. *Simulator*: with three lines a set can hold a line that is
neither the oldest nor the youngest, and six accesses fill it, hit within it and replace
twice; the second set sees that sets are kept apart. *Queue*: three elements are a head, a
tail and one between them, so that reversal turns an inner link; two strings tell an
order; a second queue block is one that a lost queue did not free. One alarm is
enough for anything a single interrupted command leaves behind, in the queue or in the list of blocks
(of which there are up to eight); a `big_queue_size` of one makes some queues be freed with
`find_header`'s walk and some without; `fail_limit` and
`err_limit` of two let a first failure be survived and a second be the last.
Addresses are symmetric. Commands are unlimited.

Deadlock is checked for the shell (which stutters once it has ended), in
`proxy_evict` and for the reader. It is switched off where a model
stops on purpose: `csim_sets` at the end of the trace, `queue_commands` after `quit` or before a use
of a freed block, `runtrace_exits` when all drivers are gone, and the two-threaded proxy runs and
`malloc_heap`, which may reach `broken` and `strayed` states, after which the C
program's behaviour is undefined.

Fairness. `tsh_liveness`: weak fairness of the shell's own steps once a
command has been read, and of a handler that runs: the scheduler runs the process.
Strong fairness of the delivery of SIGCHLD: keys may be pressed for ever, and each
return of a handler disables delivery for a moment, but `sigsuspend` takes every
signal that is pending. Nothing is assumed of the children or of the person at the
keyboard; that other processes stop children only finitely often keeps the handler
from reporting stops of one child for ever, before it comes to another.
`runtrace_exits`: weak fairness of a driver's steps, of its cleanup processes and of
its alarm, which are run by the scheduler and the clock; none of shells, jobs and
signals. It takes that a line of a trace ends: see the hazard at `runtrace.c:559`.
No liveness is claimed for the proxy: it depends on clients and servers.

## What the runs found

* **Ctrl-C in the first moments of a job ends the shell** (`tsh_race`). The parent
  never calls `setpgid` for the child; `kill(-pid)` fails and `Kill` exits.
* **The table is full with one job in its last slot** (`tsh_refused`): `add_job`
  looks at `nextjid` only, and the shell exits.
* **Use after free in the proxy** (`proxy_stale`): `doit` gives the mutex back
  between `find_cache` and the reference.

Seen while modelling. A property names each of the first three as its exception, without which TLC
finds it violated; the rest are the subject of no run.

* **A block that is read is not moved to the front** (`KeepsLru`): `evict_cache` does not
  link the old head back to the new block (`cache.c:218`), and `move_to_first` takes a block
  without `prev` for the first (115-116), against 42-43. It may be the next one evicted.
* **A freed block stays in the harness's list** (`ListSafe`): the time limit comes between
  `harness.c:135` and 136, or between 167 and 171; a block's `prev` is then wrong, and
  freeing it, or the one after, does not take it off the list of allocated blocks (30-31).
* **Jobs that fork may be left** (`LeavesNoJob`): the cleanup kills the processes that `ps`
  printed a moment before (`runtrace.c:368`), against the comment at 595.
* Shell: a Ctrl-C just before `execve` is swallowed by the handler the child inherited
  (`tsh.c:223`, against 453-455); background jobs are also taken to ST, which the table of
  transitions in `tsh_helper.h` omits; the files of a redirected command are never
  closed (`tsh.c:209`); when `fork` fails, or `list_jobs` cannot write, the shell leaves and its
  jobs run on (222, 285-288).
* Proxy: two threads can cache one URL twice (`proxy.c:211`: the second lookup and the
  insertion are two critical sections). An eviction that reaches a block without
  `prev` forgets, without freeing, what stands before it; that the list, the total and the
  answers bear this is what `proxy_evict` shows. The server's descriptor leaks if the request
  cannot be sent (`proxy.c:198`), a truncated response is cached as a whole one (205), and a failing
  `malloc` after an eviction leaves freed blocks listed (`cache.c:200`).
* Allocator: a heap that is full is initialised again (`mm.c:248`); harmless, as `malloc_heap`
  shows, unless the memory ends between the two steps of it and the epilogue stays in a
  free list (1051): `StraysAtEnd` proves that nothing else makes it write past its end.
  Sizes near 2^64 wrap (260), `calloc` divides by a zero count.
* Simulator: a hit in a set with an unused line resets the age to 0 (`csim.c:84-85`), so with
  three lines or more the line replaced after the set filled up may have been used more
  recently than others. `AgedSets` says how far that goes.
* Queue harness: `do_insert_head` and `do_insert_tail` end without `error_check`
  (`qtest.c:189`, 235), so a time limit within them is forgotten. After an interrupted
  removal the tail may point to a freed block, and a later insertion writes to it.
* Trace driver: `atexit_clean` runs with signals unblocked (`runtrace.c:649-658`), a second
  cleanup may then remove another driver's directory; a shell that has not yet called
  `setsid` is not found (331); `send` has no timeout (559); an alarm may report a
  timeout after the shell has ended (590).

## Proofs

Seven components have theorems, each for every value of the constants that satisfies the
named assumptions of its module.

`TshProofs`, for every `MAXJOBS` and every set of process IDs (`JobListAssumption`: at
least one slot, 0 is no process ID): the shell's eight safety properties hold in every
reachable state, and `Tsh` implements `JobControl`.
No property is inductive by itself: whether a child has a job
depends on whether `eval` is between fork and add, and that on the mask. `IInv`
adds the control facts: `MaskInv` (where signals are blocked), `CommandInv` (what
`cur` stands for at each place), `ChildInv` (only the child being added may be
missing from the table), `StopInv` (a stop that was reported is in the table and is
not overwritten), `ForegroundInv`. With them each action keeps each conjunct:
handlers run only where the table is whole, and `add_job` and `job_set_state` are
only called where they do not abort. The lemmas on `maxjid` and `Lowest` go through
the existence of a least and a largest element of a set of job IDs, which rests on
well-foundedness. For the refinement, `View` changes at one process at a time
because no two jobs are the same child.

`ProxyProofs`, for any finite sets of threads and blocks, any URLs, sizes and limits
(`CacheAssumption`, `ThreadsAssumption`). `SafeWhileFresh`: in every behaviour in which
`FoundStaysListed` always holds, no freed block is touched and no scan fails to end, the
list runs from head to tail through distinct live blocks, every listed block has one
reference for the list and one for each sender, and every answer is the right one.
`proxy_stale` shows that the hypothesis is needed with two threads, and that the program
does not ensure it. With one connection at a time it is an invariant itself, and
`OneConnectionIsMemorySafe`, `OneConnectionKeepsChain`, `OneConnectionAnswers` and
`OneConnectionKeepsDoublyLinked` need no hypothesis, nor do `OneConnectionTypeCorrect` and
`OneConnectionTotalIsSum` (`total_size` is the size of what is listed and never wraps).
`KeepsLruWhileFresh` and `OneConnectionKeepsLru` are about the order of use (`KeepsLru`): what is
read moves to the front, what is written goes there, and the end of the list makes room, with
the two exceptions for stranded blocks and no others. They do not say that the code is an LRU cache,
which it is not. They take one more assumption on the constants, that what is cached fits twice: a
list that is given up as a whole need not be as large as the new block otherwise. `cache.h:17-18`
has 1 MiB for the cache and 100 KiB for a block. The argument: `Chain(c, k, L)` says that
the list of `c` is `L[1], ..., L[k]`, where a block may have lost its `prev` but has no
wrong one; a walk of the program is then computed by exhibiting the function that
satisfies its equation (`WalkIs`, `ForwardIs`, `BackwardIs`), and what the eviction's
loop has done after n blocks is given in closed form (`Given`). Each function of `cache.c`
maps a chain to a chain (`MoveIs`, `InsertIs`, `EvictIs`, `ForgetIs`). `Refs` counts
references: exactly, for listed blocks; for the others at least one per sender, because
a tail that was cut off may keep the list's reference for ever. A block with a
sender has a count of two when it is evicted and so is not freed, which is why a writer
cannot be given its address.
`SumInv` is the size. A sum over a set is defined by a recursion whose results cannot be
proved by induction directly, so `Induction` shows that an additive function on the subsets
exists and is unique (`SumExists`, `SumIsUnique`), that the library's sum is it, and that
removing part of the list takes off that part's sum.

`CsimProofs`, for any geometry and any addresses: types (the dirty bytes never go below zero),
`SetsSound`, `Accounting`, and that the simulator implements `AgedSets`. The conjunction of
the three is inductive; the step lemma is that an access touches one line of one set
(`Touches`, `OneLine`), and the counts follow from the cardinality of the
finite sets of used and dirty lines before and after. For the refinement, `Listing(set, T, p, n)`
says that `p` lists the lines `T` from the youngest to the oldest: there is one because ages
differ (`ListingExists`), it is where the counts of younger lines put each line (`ListingIs`), and
a line that is touched goes to its front (`ListingRaised`). The tags then follow, since no
tag is in two lines, and the oldest line is an old one or the last of the list (`OldestTag`).

`RioProofs`, for every buffer size and length of the stream: the unread part of the buffer
is what was fetched last, a call has copied the bytes just before those, and the
reader implements `ByteStream`; `TypeCorrect` is the type invariant alone.

`QTestProofs`, for any finite memory of elements and queues, any strings,
any number of alarms and any `fail_limit`, and an `err_limit` of at least one
(`QueueAssumption`, `QTestAssumption`): types, `MemorySafe`, `ListSafe`, `QueueWhole`, and that the
queue under its harness implements `Deque`. No property is inductive: between two stores of a call
the list, `tail`, `size` and `qcnt` disagree, and the jump may leave them so. `IInv` is
`TypeOK`, `Control` (which command is in hand at each place, and where `qcnt` may differ
from the size because the command has yet to count), `NotBelow` (`test_free` never takes
the count of allocations below zero) and `Shape`, which knows the list as sequences of elements:
the one that starts at `head` and, in a reversal, a removal or `q_free`, the one that has been taken
off it (`Chains`); that what both hold is allocated (`Books`); how far `size` and
`qcnt` may be off, at each place (`Numbers`); and, for a queue no interrupted call has touched,
that they are not off between commands (`Sizes`), `tail` is the last element (`Tails`) and the
strings of the list are what the commands left (`Says`). The jump may come at any place, so
`Shape` has a part that holds at all of them: what can be reached from `head` is finite, distinct
and allocated, which is why an interrupted queue can still be walked and freed. `List`,
which the model computes by a recursive function, is handled by exhibiting the function that
satisfies its equation (`ListIs`). `HarnessInv` is beside it: which block the call in progress is
about, and, without a torn link, that the list of blocks holds live ones only, each with the
`prev` that the stores so far have given it, and without an alarm all of them, but for the one being
linked or unlinked; walks then stay in it (`ListIsSafe`). For the refinement `GoesOn` is added (the
error count is below its limit while commands are read) and `HeldIsSeq`.

`RuntraceProofs`, for any number of drivers: `CleanExit`. `IInv` says of each driver
when `cleanup_needed` is set and which cleanups may run (`ControlInv`), that the directory
is its own from `mkdir` to the end of a cleanup (`OwnerInv`), and that the last cleanup has
listed every job that is left once the shell has ended, unless one forked since or a key ended
it (`JobInv`); a step of one driver
leaves the others' parts alone (`Frame`).

`MallocProofs`, for every size of the heap, any limits of the classes (the first class is that
of 16-byte blocks, and `chunksize` belongs in the last), any `RANGE` and any requests
(`HeapAssumption`, `RequestsAssumption`): types, `BlocksTileHeap`, `BoundaryTags`,
`ListsHoldFreeBlocks`, `PayloadsIntact`, and that the allocator implements `Allocator`.
The properties read the heap by walks (`Headers`, `FreeList`); the invariant has witnesses
for them instead. `Sound(h, H, N, x)` says that the addresses `H` tile the heap (`Tiled`), that
each block has told the next one and its footer the truth (`Tagged`), that a bit which says
"the one before is free" has a block to point to (`Preceded`), that the lists `N` hold the free
blocks of their class, as chains with links both ways (`Filed`), and where `heap_start` is
(`Started`). Two exceptions make it inductive. `x` is a block that has been
marked free and is in no list yet, between the first line of `free` and `coalesce_block`, and
the block that `extend_heap` makes. And `N` lacks the last list while the epilogue stands in
for a first block, which happens when the memory ends between the two steps of `mm_init`.
`Owned` adds that the allocated blocks are the clients' payloads.

Each function of `mm.c` has a lemma. `insert_node` and `delete_node` change links and a root
only (`Inserted`, `Deleted`). `Recasted` is the centre: when the words from one header to
another get new blocks, and outside it only links of free blocks change, a sound heap is
sound again, and no payload changes. The four cases of `coalesce_block` are instances
of it (`CoalesceAlone` to `CoalesceBoth`, together `Coalescing`), and so are the two of
`split_block` (`TakeAllIs`, `TakePartIs`, together `Allotted`). `ExtendedLimbo`
and `MmInitIs` are about growth, also when a new heap is begun after a full one. Then `MallocIs`
and `FreeIs` say what a call does to the payloads, and the steps follow. A heap that is written to
past its end has strayed, and then only the types are kept; `StraysAtEnd` shows that this
happens only with the epilogue in the place of a first block, and no room for one. That
the walks find the witnesses is proved last (`HeadersAre`, `FineList`), since they are cut off
after as many steps as the heap has words: a walk moves on by at least one word, and a list
has no block twice.

Only model-checked: all liveness (fairness is outside the prover's reach), and the
counterexamples.

## What is left

The order in which modules were added: shell and its proofs, proxy, allocator; cache simulator,
reader, queue and harness, trace driver; the proxy's proofs, the queue's, the allocator's. What
would come next: a response in pieces in `Proxy`, so that one cut short can be told from a
whole one, and the bits of `eval` between `fork` and `execve`.

### Not modelled

* `sdriver.c` compares output of one trace after another; `wrapper.c` delays calls of
  the shell, which the interleavings of `Tsh` include.
* The shell's argument parsing, redirection and printing; the proxy's parsing of HTTP; the
  queue harness's lexer, source files and options, and `report.c` (formatting).
  `QTest` assumes a verbosity below 3, as the driver sets it.
* The rest of `csapp.c`: wrappers of one system call each, unbuffered reads and writes
  without state.
* `mdriver.c` and what it uses (timing, its tree of ranges, the sparse emulation of a huge heap
  in `memlib.c`), the other labs' drivers, and the book's `tiny` server: test and example code.
* `trans.c` and `bits.c`: straight-line index arithmetic and bit expressions
  without state; the point of the former is its number of misses.
* The vendored BDD package under `datalab/bddcheck` (CUDD, cbit, dddmp, nanotrav). It is
  third-party code and most of the lines of the repository, so the modelled
  programs are a small share of the whole by line count.
