---------------------------- MODULE ProxyClaims ----------------------------
(***************************************************************************)
(* What comments of proxylab say of the program and the program does not   *)
(* keep.  Each is the property of a run that finds a counterexample.       *)
(***************************************************************************)
EXTENDS Proxy

(* cache.c:93-96: a block is freed when it "has been evicted and all the   *)
(* readers have finished"; a thread that found it is about to read it.     *)
FreedAfterReaders ==
    \A t \in Threads : pc[t] = "read" => find_block[t] \in cache.alloc
=============================================================================
