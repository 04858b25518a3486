---------------------------- MODULE ProxyProofs -----------------------------
(***************************************************************************)
(* For any number of threads, blocks and URLs: as long as no block is given*)
(* up between being found and being read, the proxy touches no freed       *)
(* memory, keeps its list, its references and its size right, sends every  *)
(* client what it asked for, and its cache is one of bounded size that     *)
(* keeps what was used last; and with one connection at a time nothing is  *)
(* given up in between.                                                    *)
(***************************************************************************)
EXTENDS Proxy, Induction, FunctionTheorems, FiniteSetTheorems, TLAPS

-----------------------------------------------------------------------------
(* Numbers.                                                                *)

(* The first place at which a loop stops.                                  *)
LEMMA FirstIs ==
    ASSUME NEW S \in SUBSET Nat, S # {}
    PROVE  First(S) \in S /\ \A x \in S : First(S) <= x
BY Least DEF First

LEMMA StepsAre ==
    /\ Cardinality(Blocks) \in Nat
    /\ Steps = 0 .. Cardinality(Blocks)
    /\ NULL \notin Blocks
BY CacheAssumption, FS_CardinalityType DEF Steps

-----------------------------------------------------------------------------
(* The cache as a record.                                                  *)
Shaped(c) ==
    /\ c = [head |-> c.head, tail |-> c.tail, total_size |-> c.total_size,
            mem |-> c.mem, alloc |-> c.alloc, broken |-> c.broken]
    /\ c.mem \in [Blocks -> Block]
    /\ c.alloc \subseteq Blocks
    /\ c.broken = FALSE

(* The list is L[1], ..., L[k], of distinct blocks that were not freed.  A *)
(* block may have lost its prev, but has no wrong one.                     *)
Chain(c, k, L) ==
    /\ k \in Nat
    /\ L \in [1 .. k -> Blocks]
    /\ \A i, j \in 1 .. k : L[i] = L[j] => i = j
    /\ c.head = IF k = 0 THEN NULL ELSE L[1]
    /\ c.tail = IF k = 0 THEN NULL ELSE L[k]
    /\ \A i \in 1 .. k :
          /\ L[i] \in c.alloc
          /\ c.mem[L[i]].next = IF i = k THEN NULL ELSE L[i + 1]
          /\ c.mem[L[i]].prev \in {NULL, IF i = 1 THEN NULL ELSE L[i - 1]}

BlocksOf(k, L) == {L[i] : i \in 1 .. k}

LEMMA ChainIsShort ==
    ASSUME NEW c, NEW k, NEW L, Chain(c, k, L)
    PROVE  k \in Steps /\ Cardinality(BlocksOf(k, L)) = k
<1>1. k \in Nat /\ L \in [1 .. k -> Blocks] /\ \A i, j \in 1 .. k : L[i] = L[j] => i = j
  BY DEF Chain
<1>2. IsFiniteSet(1 .. k) /\ Cardinality(1 .. k) = k
  BY <1>1, FS_Interval
<1>3. L \in Injection(1 .. k, Blocks)
  BY <1>1, Fun_IsInj
<1>4. k <= Cardinality(Blocks)
  BY <1>2, <1>3, FS_Injection, CacheAssumption
<1> DEFINE T == BlocksOf(k, L)
<1>5. L \in Bijection(1 .. k, T)
  <2>1. L \in [1 .. k -> T] /\ \A y \in T : \E x \in 1 .. k : L[x] = y
    BY <1>1 DEF BlocksOf
  <2> HIDE DEF T
  <2>2. L \in Bijection(1 .. k, T)
    BY <1>1, <2>1, Fun_IsBij
  <2> QED
    BY <2>2 DEF T
<1>6. ExistsBijection(1 .. k, T)
  BY <1>5, Fun_ExistsBij
<1> QED
  BY <1>1, <1>2, <1>4, <1>6, FS_Bijection, StepsAre

LEMMA ChainParts ==
    ASSUME NEW c, NEW k, NEW L, Chain(c, k, L)
    PROVE  /\ k \in Nat /\ k \in Steps
           /\ \A i \in 1 .. k : L[i] \in Blocks /\ L[i] # NULL /\ L[i] \in c.alloc
<1>1. k \in Nat /\ \A i \in 1 .. k : L[i] \in Blocks /\ L[i] \in c.alloc
  BY DEF Chain
<1> QED
  BY <1>1, ChainIsShort, StepsAre

(* A function that satisfies the equation of a walk is the walk.           *)
LEMMA WalkIs ==
    ASSUME NEW start, NEW link, NEW F,
           F = [n \in Steps |-> F[n]],
           \A n \in Steps : F[n] = IF n = 0 THEN start
                                  ELSE IF F[n - 1] = NULL THEN NULL ELSE link[F[n - 1]]
    PROVE  Walk(start, link) = F
<1> DEFINE Walks(w) == w = [n \in Steps |-> IF n = 0 THEN start
                                            ELSE IF w[n - 1] = NULL THEN NULL
                                            ELSE link[w[n - 1]]]
           W == Walk(start, link)
           Same == {n \in Steps : W[n] = F[n]}
<1>1. Walks(F)
  OBVIOUS
<1>2. W = CHOOSE w : Walks(w)
  BY DEF Walk
<1>3. Walks(W)
  <2> HIDE DEF Walks, W
  <2> QED
    BY <1>1, <1>2
<1> HIDE DEF W
<1>4. /\ W = [n \in Steps |-> W[n]]
      /\ \A n \in Steps : W[n] = IF n = 0 THEN start
                                 ELSE IF W[n - 1] = NULL THEN NULL ELSE link[W[n - 1]]
  BY <1>3
<1>5. 0 \in Same
  <2>1. 0 \in Steps
    BY StepsAre
  <2>2. W[0] = start
    BY <1>4, <2>1
  <2>3. F[0] = start
    BY <2>1
  <2> QED
    BY <2>1, <2>2, <2>3
<1>6. ASSUME NEW n \in 0 .. Cardinality(Blocks) - 1, n \in Same
      PROVE  n + 1 \in Same
  <2>1. n + 1 \in Steps /\ (n + 1) - 1 = n /\ n + 1 # 0
    BY StepsAre
  <2> QED
    BY <1>4, <1>6, <2>1
<1>7. \A n \in Steps : W[n] = F[n]
  <2>1. \A n \in 0 .. Cardinality(Blocks) : n \in Same
    <3> HIDE DEF Same
    <3> QED
      BY <1>5, <1>6, UpTo, StepsAre
  <2> QED
    BY <2>1, StepsAre
<1> QED
  BY <1>4, <1>7 DEF W

LEMMA ForwardIs ==
    ASSUME NEW c, NEW k, NEW L, Chain(c, k, L)
    PROVE  Forward(c) = [n \in Steps |-> IF n < k THEN L[n + 1] ELSE NULL]
<1> DEFINE F == [n \in Steps |-> IF n < k THEN L[n + 1] ELSE NULL]
           link == [b \in Blocks |-> c.mem[b].next]
<1>1. ASSUME NEW n \in Steps
      PROVE  F[n] = IF n = 0 THEN c.head
                    ELSE IF F[n - 1] = NULL THEN NULL ELSE link[F[n - 1]]
  BY StepsAre DEF Chain
<1>2. F = [n \in Steps |-> F[n]]
  OBVIOUS
<1> HIDE DEF F
<1> QED
  BY <1>1, <1>2, WalkIs DEF Forward, F

(* Backwards the walk ends early at a block that has lost its prev.        *)
LEMMA BackwardIs ==
    ASSUME NEW c, NEW k, NEW L, Chain(c, k, L), NEW n \in Steps
    PROVE  /\ \/ Backward(c)[n] = NULL
              \/ n < k /\ Backward(c)[n] = L[k - n]
           /\ Backward(c)[n] # NULL
                 <=> n < k /\ \A j \in k - n + 1 .. k : c.mem[L[j]].prev # NULL
<1> DEFINE Kept(m) == m < k /\ \A j \in k - m + 1 .. k : c.mem[L[j]].prev # NULL
           B == [m \in Steps |-> IF Kept(m) THEN L[k - m] ELSE NULL]
           link == [b \in Blocks |-> c.mem[b].prev]
<1>0. /\ k \in Nat /\ k \in Steps
      /\ \A i \in 1 .. k : L[i] \in Blocks /\ L[i] # NULL
      /\ \A i \in 1 .. k : c.mem[L[i]].prev \in {NULL, IF i = 1 THEN NULL ELSE L[i - 1]}
      /\ c.tail = IF k = 0 THEN NULL ELSE L[k]
  <2>1. k \in Nat /\ k \in Steps /\ \A i \in 1 .. k : L[i] \in Blocks /\ L[i] # NULL
    BY ChainParts
  <2> QED
    BY <2>1 DEF Chain
<1>1. ASSUME NEW m \in Steps
      PROVE  B[m] = IF m = 0 THEN c.tail
                    ELSE IF B[m - 1] = NULL THEN NULL ELSE link[B[m - 1]]
  <2>1. CASE m = 0
    <3>1. Kept(m) <=> k # 0
      BY <1>0, <2>1
    <3> QED
      BY <3>1, <1>0, <2>1
  <2>2. CASE m # 0
    <3>1. m \in Nat /\ m - 1 \in Steps /\ m - 1 \in Nat
      BY <2>2, StepsAre
    <3>2. B[m - 1] = (IF Kept(m - 1) THEN L[k - m + 1] ELSE NULL) /\ (Kept(m) => Kept(m - 1))
      BY <3>1, <1>0
    <3>3. CASE ~Kept(m - 1)
      BY <3>2, <3>3, <2>2
    <3>4. CASE Kept(m - 1)
      <4>1. k - m + 1 \in 1 .. k /\ B[m - 1] = L[k - m + 1] /\ B[m - 1] \in Blocks /\ B[m - 1] # NULL
        BY <3>1, <3>2, <3>4, <1>0
      <4>2. link[B[m - 1]] = c.mem[L[k - m + 1]].prev
        BY <4>1
      <4>3. Kept(m) <=> c.mem[L[k - m + 1]].prev # NULL
        <5>1. ASSUME c.mem[L[k - m + 1]].prev # NULL PROVE Kept(m)
          <6>1. k - m + 1 # 1
            BY <5>1, <4>1, <1>0
          <6>2. m < k
            BY <6>1, <3>1, <4>1, <1>0
          <6>3. \A j \in k - m + 1 .. k : j = k - m + 1 \/ j \in k - (m - 1) + 1 .. k
            BY <3>1, <1>0
          <6> QED
            BY <6>2, <6>3, <5>1, <3>4
        <5>2. ASSUME Kept(m) PROVE c.mem[L[k - m + 1]].prev # NULL
          BY <5>2, <4>1
        <5> QED
          BY <5>1, <5>2
      <4>4. c.mem[L[k - m + 1]].prev # NULL => c.mem[L[k - m + 1]].prev = L[k - m]
        <5>1. c.mem[L[k - m + 1]].prev \in {NULL, IF k - m + 1 = 1 THEN NULL ELSE L[(k - m + 1) - 1]}
          BY <4>1, <1>0
        <5>2. (k - m + 1) - 1 = k - m
          BY <3>1, <1>0
        <5> QED
          BY <5>1, <5>2
      <4> QED
        BY <4>1, <4>2, <4>3, <4>4, <2>2
    <3> QED
      BY <3>3, <3>4
  <2> QED
    BY <2>1, <2>2
<1>2. B = [m \in Steps |-> B[m]]
  OBVIOUS
<1>3. Backward(c) = B
  <2> HIDE DEF B
  <2> QED
    BY <1>1, <1>2, WalkIs DEF Backward
<1>4. Kept(n) => L[k - n] # NULL
  <2>1. n < k => k - n \in 1 .. k
    BY <1>0, StepsAre
  <2> QED
    BY <1>0, <2>1
<1> QED
  BY <1>3, <1>4

(* Where the walk from the head stops, and what it sees.                   *)
LEMMA ListedIs ==
    ASSUME NEW c, NEW k, NEW L, Chain(c, k, L)
    PROVE  Listed(c) = BlocksOf(k, L)
<1> DEFINE F == [n \in Steps |-> IF n < k THEN L[n + 1] ELSE NULL]
<1>1. Listed(c) = {F[n] : n \in Steps} \ {NULL}
  BY ForwardIs DEF Listed
<1>2. k \in Steps /\ k \in Nat /\ \A i \in 1 .. k : L[i] \in Blocks /\ L[i] # NULL
  BY ChainParts
<1>3. ASSUME NEW i \in 1 .. k
      PROVE  L[i] \in {F[n] : n \in Steps}
  <2>1. i - 1 \in Steps /\ i - 1 < k /\ (i - 1) + 1 = i
    BY <1>2, StepsAre
  <2>2. F[i - 1] = L[i]
    BY <2>1
  <2> QED
    BY <2>1, <2>2
<1>4. ASSUME NEW n \in Steps, F[n] # NULL
      PROVE  F[n] \in {L[i] : i \in 1 .. k}
  <2>1. n < k /\ n + 1 \in 1 .. k
    BY <1>2, <1>4, StepsAre
  <2> QED
    BY <2>1
<1> QED
  <2> HIDE DEF F
  <2> QED
    BY <1>1, <1>2, <1>3, <1>4 DEF BlocksOf

LEMMA FindIs ==
    ASSUME NEW c, NEW k, NEW L, Chain(c, k, L), Shaped(c), NEW u
    PROVE  /\ ~find_cache(c, u).broken
           /\ \/ find_cache(c, u).block = NULL
              \/ \E i \in 1 .. k : /\ find_cache(c, u).block = L[i]
                                   /\ c.mem[L[i]].url = u
<1> DEFINE F == [n \in Steps |-> IF n < k THEN L[n + 1] ELSE NULL]
           Stops == {n \in Steps : F[n] \notin c.alloc \/ c.mem[F[n]].url = u}
           at == First(Stops)
<1>1. k \in Steps /\ k \in Nat /\ F[k] = NULL /\ NULL \notin c.alloc
  BY ChainParts, StepsAre DEF Shaped
<1>2. Stops \in SUBSET Nat /\ k \in Stops
  <2> HIDE DEF F
  <2> QED
    BY <1>1, StepsAre
<1>3. at \in Stops
  <2> HIDE DEF Stops
  <2> QED
    BY <1>2, FirstIs
<1>4. at # -1 /\ at \in Steps /\ at \in Nat
  <2>1. at \in Steps
    BY <1>3
  <2> HIDE DEF at
  <2> QED
    BY <2>1, StepsAre
<1>5. find_cache(c, u) = [block |-> F[at], broken |-> F[at] \notin c.alloc \cup {NULL}]
  <2> HIDE DEF F
  <2>1. Forward(c) = F
    BY ForwardIs DEF F
  <2> QED
    BY <1>4, <2>1 DEF find_cache
<1>6. F[at] \notin c.alloc \/ c.mem[F[at]].url = u
  BY <1>3
<1>7. F[at] = IF at < k THEN L[at + 1] ELSE NULL
  BY <1>4
<1> HIDE DEF F, at
<1>8. find_cache(c, u).block = F[at]
  BY <1>5
<1>9. find_cache(c, u).broken = (F[at] \notin c.alloc \cup {NULL})
  BY <1>5
<1> QED
  <2>1. CASE at < k
    <3>1. at + 1 \in 1 .. k /\ F[at] = L[at + 1] /\ L[at + 1] \in c.alloc
      BY <1>1, <1>4, <1>7, <2>1, ChainParts
    <3>2. find_cache(c, u).broken = FALSE
      BY <1>9, <3>1
    <3>3. c.mem[L[at + 1]].url = u
      BY <1>6, <3>1
    <3> QED
      BY <1>8, <3>1, <3>2, <3>3
  <2>2. CASE ~(at < k)
    <3>1. F[at] = NULL
      BY <1>7, <2>2
    <3> QED
      BY <1>8, <1>9, <3>1
  <2> QED
    BY <2>1, <2>2

-----------------------------------------------------------------------------
(* The sizes of blocks, and their sum, which is defined by recursion.      *)
SizeIn(c, S) == [b \in S |-> SizeOf[c.mem[b].url]]

Total(c, S) == MapThenSumSet(LAMBDA b : SizeOf[c.mem[b].url], S)

LEMMA TotalIs ==
    ASSUME NEW c, NEW S, IsFiniteSet(S), NEW f, Additive(f, S, SizeIn(c, S))
    PROVE  Total(c, S) = f[S]
<1> DEFINE pick(s) == CHOOSE x \in s : TRUE
           Sums(g) == g = [s \in SUBSET S |-> IF s = {} THEN 0
                                 ELSE SizeOf[c.mem[pick(s)].url] + g[s \ {pick(s)}]]
           g0 == CHOOSE g : Sums(g)
<1>0. \A s \in SUBSET S : s # {} => pick(s) \in s /\ s \ {pick(s)} \in SUBSET S
  OBVIOUS
<1>1. Sums(f)
  <2> HIDE DEF pick
  <2>1. ASSUME NEW s \in SUBSET S
        PROVE  f[s] = IF s = {} THEN 0
                      ELSE SizeOf[c.mem[pick(s)].url] + f[s \ {pick(s)}]
    <3>1. CASE s = {}
      BY <3>1 DEF Additive
    <3>2. CASE s # {}
      <4>1. f[s] = SizeIn(c, S)[pick(s)] + f[s \ {pick(s)}] /\ pick(s) \in S
        BY <1>0, <3>2 DEF Additive
      <4> QED
        BY <3>2, <4>1 DEF SizeIn
    <3> QED
      BY <3>1, <3>2
  <2>2. f = [s \in SUBSET S |-> f[s]]
    BY DEF Additive
  <2> QED
    BY <2>1, <2>2, Zenon
<1>2. Total(c, S) = g0[S]
  BY DEF Total, MapThenSumSet, MapThenFoldSet
<1>3. Sums(g0)
  <2> HIDE DEF Sums
  <2> QED
    BY <1>1
<1> HIDE DEF g0
<1>4. g0[{}] = 0
  BY <1>3
<1>5. ASSUME NEW s \in SUBSET S, s # {}
      PROVE  \E x \in s : g0[s] = SizeIn(c, S)[x] + g0[s \ {x}]
  <2> HIDE DEF pick
  <2>1. g0[s] = SizeOf[c.mem[pick(s)].url] + g0[s \ {pick(s)}]
    BY <1>3, <1>5
  <2>2. SizeIn(c, S)[pick(s)] = SizeOf[c.mem[pick(s)].url]
    BY <1>0, <1>5 DEF SizeIn
  <2> QED
    BY <1>0, <1>5, <2>1, <2>2
<1>6. g0[S] = f[S]
  <2>1. TakesOff(g0, S, SizeIn(c, S))
    BY <1>4, <1>5 DEF TakesOff
  <2>2. \A s \in SUBSET S : g0[s] = f[s]
    BY <2>1, SumIsUnique
  <2> QED
    BY <2>2
<1> QED
  BY <1>2, <1>6

(* A function that sums the sizes over all parts of a set of blocks.       *)
LEMMA SumOver ==
    ASSUME NEW c, NEW S \in SUBSET Blocks, \A b \in S : c.mem[b].url \in Urls
    PROVE  /\ IsFiniteSet(S)
           /\ \A b \in S : SizeOf[c.mem[b].url] \in Nat
           /\ \E f : Additive(f, S, SizeIn(c, S))
<1>1. IsFiniteSet(S)
  BY FS_Subset, CacheAssumption
<1>2. \A b \in S : SizeOf[c.mem[b].url] \in Nat
  BY CacheAssumption
<1>3. \A b \in S : SizeIn(c, S)[b] \in Nat
  BY <1>2 DEF SizeIn
<1> QED
  BY <1>1, <1>2, <1>3, SumExists

LEMMA TotalParts ==
    ASSUME NEW c, NEW S \in SUBSET Blocks, \A b \in S : c.mem[b].url \in Urls
    PROVE  /\ Total(c, S) \in Nat
           /\ S = {} => Total(c, S) = 0
           /\ \A b \in S : /\ SizeOf[c.mem[b].url] \in Nat
                           /\ Total(c, S \ {b}) \in Nat
                           /\ Total(c, S) = SizeOf[c.mem[b].url] + Total(c, S \ {b})
<1>1. /\ IsFiniteSet(S)
      /\ \A b \in S : SizeOf[c.mem[b].url] \in Nat
      /\ \E f : Additive(f, S, SizeIn(c, S))
  BY SumOver
<1>2. PICK f : Additive(f, S, SizeIn(c, S))
  BY <1>1
<1>3. Total(c, S) = f[S]
  BY <1>1, <1>2, TotalIs
<1>4. /\ f \in [SUBSET S -> Nat] /\ f[{}] = 0
      /\ \A b \in S : f[S] = SizeIn(c, S)[b] + f[S \ {b}]
  BY <1>2 DEF Additive
<1>5. ASSUME NEW b \in S
      PROVE  Total(c, S \ {b}) = f[S \ {b}]
  <2> DEFINE T == S \ {b}
  <2>1. T \in SUBSET S /\ IsFiniteSet(T)
    BY <1>1, FS_RemoveElement
  <2>2. \A x \in T : SizeIn(c, T)[x] = SizeIn(c, S)[x]
    BY DEF SizeIn
  <2> HIDE DEF T
  <2>3. PICK g : Additive(g, T, SizeIn(c, T)) /\ \A s \in SUBSET T : g[s] = f[s]
    BY <1>2, <2>1, <2>2, AdditiveWithin
  <2>4. Total(c, T) = g[T]
    BY <2>1, <2>3, TotalIs
  <2> QED
    BY <2>3, <2>4 DEF T
<1>6. \A b \in S : SizeIn(c, S)[b] = SizeOf[c.mem[b].url] /\ f[S \ {b}] \in Nat
  BY <1>4 DEF SizeIn
<1>7. Total(c, S) \in Nat /\ (S = {} => Total(c, S) = 0)
  BY <1>3, <1>4
<1>8. ASSUME NEW b \in S
      PROVE  Total(c, S) = SizeOf[c.mem[b].url] + Total(c, S \ {b})
  <2>1. f[S] = SizeIn(c, S)[b] + f[S \ {b}]
    BY <1>4
  <2> QED
    BY <2>1, <1>3, <1>5, <1>6
<1>9. \A b \in S : Total(c, S \ {b}) \in Nat
  BY <1>5, <1>6
<1> QED
  BY <1>1, <1>7, <1>8, <1>9

(* The sum does not change when the URLs do not.                           *)
LEMMA TotalSame ==
    ASSUME NEW c, NEW d, NEW S \in SUBSET Blocks,
           \A b \in S : c.mem[b].url \in Urls /\ d.mem[b].url = c.mem[b].url
    PROVE  Total(d, S) = Total(c, S)
<1>1. IsFiniteSet(S) /\ \E f : Additive(f, S, SizeIn(c, S))
  BY SumOver
<1>2. SizeIn(d, S) = SizeIn(c, S)
  BY DEF SizeIn
<1> QED
  BY <1>1, <1>2, TotalIs

(* The first m blocks of a list, and the one after them.                   *)
LEMMA TotalGrows ==
    ASSUME NEW c, NEW k, NEW L, Chain(c, k, L), NEW m \in 0 .. k - 1,
           \A i \in 1 .. k : c.mem[L[i]].url \in Urls
    PROVE  /\ Total(c, BlocksOf(m, L)) \in Nat
           /\ SizeOf[c.mem[L[m + 1]].url] \in Nat
           /\ Total(c, BlocksOf(m + 1, L)) =
                  SizeOf[c.mem[L[m + 1]].url] + Total(c, BlocksOf(m, L))
<1>1. /\ k \in Nat /\ m \in Nat /\ m + 1 \in 1 .. k
      /\ \A i \in 1 .. m + 1 : i \in 1 .. k /\ L[i] \in Blocks
      /\ \A i, j \in 1 .. k : L[i] = L[j] => i = j
  BY DEF Chain
<1> DEFINE S == BlocksOf(m + 1, L)
           b == L[m + 1]
<1>2. S \in SUBSET Blocks /\ b \in S /\ \A x \in S : c.mem[x].url \in Urls
  BY <1>1 DEF BlocksOf
<1>3. S \ {b} = BlocksOf(m, L)
  <2>1. \A i \in 1 .. m : i \in 1 .. m + 1 /\ i # m + 1
    BY <1>1
  <2>2. \A i \in 1 .. m + 1 : i # m + 1 => i \in 1 .. m
    BY <1>1
  <2> QED
    BY <1>1, <2>1, <2>2 DEF BlocksOf
<1> HIDE DEF S, b
<1>4. /\ SizeOf[c.mem[b].url] \in Nat /\ Total(c, S \ {b}) \in Nat
      /\ Total(c, S) = SizeOf[c.mem[b].url] + Total(c, S \ {b})
  BY <1>2, TotalParts
<1> QED
  BY <1>3, <1>4 DEF S, b

(* What the loop of evict_cache has counted are the sizes of the last n.   *)
LEMMA EvictedIs ==
    ASSUME NEW c, NEW k, NEW L, Chain(c, k, L),
           \A i \in 1 .. k : c.mem[L[i]].url \in Urls,
           NEW n \in 0 .. k,
           \A j \in 0 .. n - 1 : Backward(c)[j] = L[k - j]
    PROVE  /\ EvictedSize(c, n) \in Nat
           /\ Total(c, BlocksOf(k - n, L)) + EvictedSize(c, n) = Total(c, BlocksOf(k, L))
<1> DEFINE size(j) == SizeOf[c.mem[Backward(c)[j]].url]
           Sums(s) == s = [j \in Steps |-> IF j = 0 THEN 0 ELSE s[j - 1] + size(j - 1)]
           s0 == CHOOSE s : Sums(s)
           whole == Total(c, BlocksOf(k, L))
           Good == {j \in 0 .. n : /\ s0[j] \in Nat
                                   /\ Total(c, BlocksOf(k - j, L)) + s0[j] = whole}
<1>0. /\ k \in Nat /\ k \in Steps /\ n \in Nat /\ \A j \in 0 .. n : j \in Steps
      /\ Steps = 0 .. Cardinality(Blocks) /\ Cardinality(Blocks) \in Nat
  BY ChainParts, StepsAre
<1>1. Sums(s0)
  <2> DEFINE v == [j \in Steps |-> size(j)]
  <2>1. \E s : s = [j \in 0 .. Cardinality(Blocks) |-> IF j = 0 THEN 0 ELSE s[j - 1] + v[j - 1]]
    <3> HIDE DEF v
    <3> QED
      BY <1>0, SeriesExists
  <2>2. PICK s : s = [j \in Steps |-> IF j = 0 THEN 0 ELSE s[j - 1] + v[j - 1]]
    <3> HIDE DEF v
    <3> QED
      BY <1>0, <2>1
  <2>3. \A j \in Steps : j # 0 => v[j - 1] = size(j - 1)
    BY <1>0
  <2>4. Sums(s)
    <3> HIDE DEF size, v
    <3> QED
      BY <2>2, <2>3
  <2> HIDE DEF Sums
  <2> QED
    BY <2>4
<1>2. EvictedSize(c, n) = s0[n]
  BY DEF EvictedSize
<1> HIDE DEF s0
<1>3. 0 \in Good
  <2>1. s0[0] = 0
    BY <1>0, <1>1
  <2>2. whole \in Nat
    <3>1. BlocksOf(k, L) \in SUBSET Blocks /\ \A b \in BlocksOf(k, L) : c.mem[b].url \in Urls
      BY DEF Chain, BlocksOf
    <3> QED
      BY <3>1, TotalParts
  <2>3. k - 0 = k
    BY <1>0
  <2> HIDE DEF whole
  <2>4. Total(c, BlocksOf(k - 0, L)) + s0[0] = whole
    BY <2>1, <2>2, <2>3 DEF whole
  <2> QED
    BY <1>0, <2>1, <2>4
<1>4. ASSUME NEW j \in 0 .. n - 1, j \in Good
      PROVE  j + 1 \in Good
  <2> DEFINE m == k - (j + 1)
  <2>1. m \in 0 .. k - 1 /\ m + 1 = k - j /\ j + 1 \in 0 .. n /\ j + 1 # 0 /\ (j + 1) - 1 = j
    BY <1>0
  <2>2. s0[j + 1] = s0[j] + size(j)
    BY <1>0, <1>1, <2>1
  <2>3. size(j) = SizeOf[c.mem[L[m + 1]].url]
    BY <2>1
  <2> HIDE DEF m, size, whole
  <2>4. /\ Total(c, BlocksOf(m, L)) \in Nat
        /\ SizeOf[c.mem[L[m + 1]].url] \in Nat
        /\ Total(c, BlocksOf(m + 1, L)) =
               SizeOf[c.mem[L[m + 1]].url] + Total(c, BlocksOf(m, L))
    BY <2>1, TotalGrows
  <2>5. /\ s0[j] \in Nat
        /\ Total(c, BlocksOf(m + 1, L)) + s0[j] = whole
    BY <1>4, <2>1
  <2>6. s0[j + 1] \in Nat /\ Total(c, BlocksOf(m, L)) + s0[j + 1] = whole
    BY <2>2, <2>3, <2>4, <2>5
  <2> QED
    BY <2>1, <2>6 DEF m
<1>5. n \in Good
  <2> HIDE DEF Good
  <2> QED
    BY <1>0, <1>3, <1>4, UpTo
<1> QED
  BY <1>2, <1>5

-----------------------------------------------------------------------------
(* A store into a link.                                                    *)
LEMMA SetNextIs ==
    ASSUME NEW c, Shaped(c), NEW b \in Blocks, NEW to \in Links
    PROVE  LET d == SetNext(c, b, to)
           IN  /\ Shaped(d)
               /\ d.head = c.head /\ d.tail = c.tail /\ d.alloc = c.alloc
               /\ d.total_size = c.total_size
               /\ \A x \in Blocks :
                     /\ d.mem[x].next = IF x = b THEN to ELSE c.mem[x].next
                     /\ d.mem[x].prev = c.mem[x].prev
                     /\ d.mem[x].url = c.mem[x].url
                     /\ d.mem[x].refcnt = c.mem[x].refcnt
BY DEF SetNext, Shaped, Block

LEMMA SetPrevIs ==
    ASSUME NEW c, Shaped(c), NEW b \in Blocks, NEW to \in Links
    PROVE  LET d == SetPrev(c, b, to)
           IN  /\ Shaped(d)
               /\ d.head = c.head /\ d.tail = c.tail /\ d.alloc = c.alloc
               /\ \A x \in Blocks :
                     /\ d.mem[x].prev = IF x = b THEN to ELSE c.mem[x].prev
                     /\ d.mem[x].next = c.mem[x].next
                     /\ d.mem[x].url = c.mem[x].url
                     /\ d.mem[x].refcnt = c.mem[x].refcnt
BY DEF SetPrev, Shaped, Block

-----------------------------------------------------------------------------
(* Moving a block of the list to the front.                                *)
Raised(i, k, L) == [j \in 1 .. k |-> IF j = 1 THEN L[i] ELSE IF j <= i THEN L[j - 1] ELSE L[j]]

Whole(c, k, L) == \A i \in 2 .. k : c.mem[L[i]].prev = L[i - 1]

LEMMA MoveIs ==
    ASSUME NEW c, NEW k, NEW L, Shaped(c), Chain(c, k, L), NEW i \in 1 .. k
    PROVE  LET d == move_to_first(c, L[i])
           IN  /\ Shaped(d)
               /\ d.alloc = c.alloc
               /\ \A b \in Blocks : /\ d.mem[b].url = c.mem[b].url
                                    /\ d.mem[b].refcnt = c.mem[b].refcnt
               /\ \E M \in {L, Raised(i, k, L)} :
                     /\ Chain(d, k, M)
                     /\ BlocksOf(k, M) = BlocksOf(k, L)
                     /\ Whole(c, k, L) => Whole(d, k, M)
                     /\ M = IF c.mem[L[i]].prev = NULL THEN L ELSE Raised(i, k, L)
<1> DEFINE b == L[i]
           p == L[i - 1]
           n == c.mem[b].next
           d == move_to_first(c, b)
<1>0. k \in Nat /\ b \in c.alloc /\ b \in Blocks
  BY DEF Chain, Shaped
<1>1. CASE c.mem[b].prev = NULL
  <2>1. d = c
    BY <1>0, <1>1 DEF move_to_first
  <2> QED
    BY <1>1, <2>1
<1>2. CASE c.mem[b].prev # NULL
  <2>1. i > 1 /\ c.mem[b].prev = p /\ p \in c.alloc /\ p \in Blocks /\ p # b
    BY <1>0, <1>2 DEF Chain, Shaped
  <2>2. c.head = L[1] /\ c.head \in c.alloc /\ c.head \in Blocks /\ c.head # b
    BY <1>0, <2>1 DEF Chain, Shaped
  <2>3. n = (IF i = k THEN NULL ELSE L[i + 1]) /\ (n # NULL <=> i # k)
        /\ (n # NULL => n \in c.alloc /\ n \in Blocks /\ n # b /\ n # p)
    BY <1>0, <2>1, StepsAre DEF Chain, Shaped
  <2>4. d = PutInFront(Unlink(c, b), b)
    BY <1>0, <1>2, <2>1, <2>2, <2>3 DEF move_to_first
  <2>15. n \in Links /\ p \in Links /\ b \in Links /\ c.head \in Links
    BY <1>0, <2>1, <2>2, <2>3 DEF Links
  <2> DEFINE u == Unlink(c, b)
             c1 == SetNext(c, p, n)
  <2>5. /\ Shaped(u) /\ u.alloc = c.alloc /\ u.head = c.head
        /\ u.tail = IF n = NULL THEN p ELSE c.tail
        /\ \A x \in Blocks : /\ u.mem[x].next = IF x = p THEN n ELSE c.mem[x].next
                             /\ u.mem[x].prev = IF x = n THEN p ELSE c.mem[x].prev
                             /\ u.mem[x].url = c.mem[x].url
                             /\ u.mem[x].refcnt = c.mem[x].refcnt
    <3>0. u = IF n # NULL THEN SetPrev(c1, n, p) ELSE [c1 EXCEPT !.tail = p]
      BY <2>1 DEF Unlink
    <3> HIDE DEF u, p, n, b
    <3>1. /\ Shaped(c1) /\ c1.alloc = c.alloc /\ c1.head = c.head /\ c1.tail = c.tail
          /\ \A x \in Blocks : /\ c1.mem[x].next = IF x = p THEN n ELSE c.mem[x].next
                               /\ c1.mem[x].prev = c.mem[x].prev
                               /\ c1.mem[x].url = c.mem[x].url
                               /\ c1.mem[x].refcnt = c.mem[x].refcnt
      BY <2>1, <2>15, SetNextIs
    <3> HIDE DEF c1
    <3>2. CASE n # NULL
      <4>1. u = SetPrev(c1, n, p) /\ n \in Blocks
        BY <3>0, <3>2, <2>3
      <4>2. /\ Shaped(u) /\ u.alloc = c1.alloc /\ u.head = c1.head /\ u.tail = c1.tail
            /\ \A x \in Blocks : /\ u.mem[x].prev = IF x = n THEN p ELSE c1.mem[x].prev
                                 /\ u.mem[x].next = c1.mem[x].next
                                 /\ u.mem[x].url = c1.mem[x].url
                                 /\ u.mem[x].refcnt = c1.mem[x].refcnt
        <5>1. Shaped(u) /\ u.alloc = c1.alloc /\ u.head = c1.head /\ u.tail = c1.tail
          BY <4>1, <3>1, <2>15, SetPrevIs
        <5>2. ASSUME NEW x \in Blocks
              PROVE  /\ u.mem[x].prev = IF x = n THEN p ELSE c1.mem[x].prev
                     /\ u.mem[x].next = c1.mem[x].next
                     /\ u.mem[x].url = c1.mem[x].url
                     /\ u.mem[x].refcnt = c1.mem[x].refcnt
          BY <4>1, <3>1, <2>15 DEF SetPrev, Shaped, Block
        <5> QED
          BY <5>1, <5>2
      <4> QED
        BY <4>2, <3>1, <3>2
    <3>3. CASE n = NULL
      <4>1. u = [c1 EXCEPT !.tail = p]
        BY <3>0, <3>3
      <4> QED
        BY <4>1, <3>1, <3>3, StepsAre DEF Shaped
    <3> QED
      BY <3>2, <3>3
  <2>6. /\ Shaped(d) /\ d.alloc = c.alloc /\ d.head = b /\ d.tail = u.tail
        /\ \A x \in Blocks : /\ d.mem[x].next = IF x = b THEN c.head ELSE u.mem[x].next
                             /\ d.mem[x].prev = IF x = b THEN NULL
                                               ELSE IF x = c.head THEN b ELSE u.mem[x].prev
                             /\ d.mem[x].url = c.mem[x].url
                             /\ d.mem[x].refcnt = c.mem[x].refcnt
    <3> DEFINE c2 == SetNext(u, b, u.head)
               c3 == SetPrev(c2, c2.head, b)
               c4 == SetPrev(c3, b, NULL)
    <3>0. d = [SetPrev(SetPrev(SetNext(u, b, u.head), u.head, b), b, NULL) EXCEPT !.head = b]
      BY <2>4 DEF PutInFront
    <3> HIDE DEF d, u, p, n, b
    <3>1. /\ Shaped(c2) /\ c2.alloc = c.alloc /\ c2.head = c.head /\ c2.tail = u.tail
          /\ \A x \in Blocks : /\ c2.mem[x].next = IF x = b THEN c.head ELSE u.mem[x].next
                               /\ c2.mem[x].prev = u.mem[x].prev
                               /\ c2.mem[x].url = c.mem[x].url
                               /\ c2.mem[x].refcnt = c.mem[x].refcnt
      BY <1>0, <2>5, <2>15, SetNextIs
    <3>2. d = [c4 EXCEPT !.head = b]
      BY <3>0, <3>1, <2>5
    <3> HIDE DEF c2
    <3>3. /\ Shaped(c3) /\ c3.alloc = c2.alloc /\ c3.head = c2.head /\ c3.tail = c2.tail
          /\ \A x \in Blocks : /\ c3.mem[x].prev = IF x = c.head THEN b ELSE c2.mem[x].prev
                               /\ c3.mem[x].next = c2.mem[x].next
                               /\ c3.mem[x].url = c2.mem[x].url
                               /\ c3.mem[x].refcnt = c2.mem[x].refcnt
      <4>1. Shaped(c2) /\ c2.head = c.head /\ c2.head \in Blocks
        BY <3>1, <2>2
      <4> QED
        <5>1. Shaped(c3) /\ c3.alloc = c2.alloc /\ c3.head = c2.head /\ c3.tail = c2.tail
          BY <4>1, <2>15, SetPrevIs
        <5>2. ASSUME NEW x \in Blocks
              PROVE  /\ c3.mem[x].prev = IF x = c2.head THEN b ELSE c2.mem[x].prev
                     /\ c3.mem[x].next = c2.mem[x].next
                     /\ c3.mem[x].url = c2.mem[x].url
                     /\ c3.mem[x].refcnt = c2.mem[x].refcnt
          BY <4>1, <2>15 DEF SetPrev, Shaped, Block
        <5> HIDE DEF c3
        <5> QED
          BY <4>1, <5>1, <5>2
    <3> HIDE DEF c3
    <3>4. /\ Shaped(c4) /\ c4.alloc = c3.alloc /\ c4.head = c3.head /\ c4.tail = c3.tail
          /\ \A x \in Blocks : /\ c4.mem[x].prev = IF x = b THEN NULL ELSE c3.mem[x].prev
                               /\ c4.mem[x].next = c3.mem[x].next
                               /\ c4.mem[x].url = c3.mem[x].url
                               /\ c4.mem[x].refcnt = c3.mem[x].refcnt
      BY <3>3, <1>0, SetPrevIs DEF Links
    <3> HIDE DEF c4
    <3>5. /\ Shaped(d) /\ d.alloc = c4.alloc /\ d.head = b /\ d.tail = c4.tail /\ d.mem = c4.mem
      BY <3>2, <3>4 DEF Shaped
    <3> QED
      BY <3>1, <3>3, <3>4, <3>5
  <2> DEFINE M == Raised(i, k, L)
  <2>7. \A j \in 1 .. k : M[j] = IF j = 1 THEN L[i] ELSE IF j <= i THEN L[j - 1] ELSE L[j]
    BY DEF Raised
  <2>8. M \in [1 .. k -> Blocks] /\ k \in Nat /\ i \in 2 .. k
    BY <1>0, <2>1 DEF Chain, Raised
  <2> HIDE DEF M, d, u, p, n
  <2>9. \A x, y \in 1 .. k : L[x] = L[y] => x = y
    BY DEF Chain
  <2>10. \A x, y \in 1 .. k : M[x] = M[y] => x = y
    BY <2>7, <2>8, <2>9
  <2>11. d.head = M[1] /\ d.tail = M[k]
    <3>1. d.tail = IF i = k THEN p ELSE L[k]
      BY <2>3, <2>5, <2>6, <2>8 DEF Chain
    <3> QED
      BY <3>1, <2>6, <2>7, <2>8 DEF b, p
  <2>12. ASSUME NEW j \in 1 .. k
         PROVE  /\ M[j] \in d.alloc
                /\ d.mem[M[j]].next = IF j = k THEN NULL ELSE M[j + 1]
                /\ d.mem[M[j]].prev \in {NULL, IF j = 1 THEN NULL ELSE M[j - 1]}
                /\ Whole(c, k, L) /\ j # 1 => d.mem[M[j]].prev = M[j - 1]
    <3>0. \A x \in 1 .. k : /\ L[x] \in c.alloc /\ L[x] \in Blocks
                            /\ c.mem[L[x]].next = IF x = k THEN NULL ELSE L[x + 1]
                            /\ c.mem[L[x]].prev \in {NULL, IF x = 1 THEN NULL ELSE L[x - 1]}
      BY DEF Chain
    <3>1. CASE j = 1
      <4>1. M[j] = b /\ M[2] = L[1] /\ j + 1 = 2 /\ j # k
        BY <3>1, <2>7, <2>8 DEF b
      <4> QED
        BY <4>1, <3>1, <1>0, <2>2, <2>6
    <3>2. CASE j \in 2 .. i
      <4>1. M[j] = L[j - 1] /\ j - 1 \in 1 .. k /\ L[j - 1] # b
        BY <3>2, <2>7, <2>8, <2>9 DEF b
      <4>2. d.mem[M[j]].next = IF j = k THEN NULL ELSE M[j + 1]
        <5>1. d.mem[M[j]].next = IF L[j - 1] = p THEN n ELSE c.mem[L[j - 1]].next
          BY <4>1, <3>0, <2>5, <2>6
        <5>2. CASE j = i
          <6>1. d.mem[M[j]].next = n
            BY <5>1, <5>2 DEF p
          <6>2. j # k => M[j + 1] = L[i + 1]
            BY <5>2, <2>7, <2>8
          <6> QED
            BY <6>1, <6>2, <5>2, <2>3
        <5>3. CASE j # i
          <6>1. L[j - 1] # p
            BY <5>3, <3>2, <4>1, <2>8, <2>9 DEF p
          <6>2. c.mem[L[j - 1]].next = L[j]
            BY <5>3, <3>0, <3>2, <4>1, <2>8
          <6>3. M[j + 1] = L[j] /\ j # k
            BY <5>3, <3>2, <2>7, <2>8
          <6> QED
            BY <6>1, <6>2, <6>3, <5>1
        <5> QED
          BY <5>2, <5>3
      <4>3. d.mem[M[j]].prev = IF L[j - 1] = c.head THEN b ELSE c.mem[L[j - 1]].prev
        <5>1. L[j - 1] # n
          BY <3>2, <2>3, <2>8, <2>9, <4>1, <3>0, StepsAre
        <5> QED
          BY <5>1, <4>1, <3>0, <2>5, <2>6
      <4>4. CASE j = 2
        BY <4>1, <4>2, <4>3, <4>4, <2>2, <2>6, <2>7, <2>8, <3>0 DEF b
      <4>5. CASE j # 2
        <5>1. M[j - 1] = L[j - 2] /\ j - 2 \in 1 .. k /\ L[j - 1] # L[1]
          BY <4>5, <3>2, <2>7, <2>8, <2>9, <4>1
        <5>2. d.mem[M[j]].prev = c.mem[L[j - 1]].prev
          BY <5>1, <4>3, <2>2
        <5>3. c.mem[L[j - 1]].prev \in {NULL, L[j - 2]}
          BY <5>1, <3>0, <4>1
        <5>4. Whole(c, k, L) => c.mem[L[j - 1]].prev = L[j - 2]
          BY <5>1, <4>1, <2>8 DEF Whole
        <5> QED
          BY <5>1, <5>2, <5>3, <5>4, <4>1, <4>2, <3>0, <2>6
      <4> QED
        BY <4>4, <4>5
    <3>3. CASE j > i
      <4>1. M[j] = L[j] /\ L[j] # b /\ L[j] # p /\ L[j] # c.head
            /\ (j # k => M[j + 1] = L[j + 1])
        BY <3>3, <2>2, <2>7, <2>8, <2>9 DEF b, p
      <4>2. d.mem[M[j]].next = IF j = k THEN NULL ELSE M[j + 1]
        BY <4>1, <3>0, <2>5, <2>6
      <4>3. d.mem[M[j]].prev = IF L[j] = n THEN p ELSE c.mem[L[j]].prev
        BY <4>1, <3>0, <2>5, <2>6
      <4>4. CASE j = i + 1
        <5>1. L[j] = n /\ M[j - 1] = p
          BY <4>4, <2>3, <2>7, <2>8 DEF p
        <5> QED
          <6>1. M[j] \in d.alloc /\ j # 1
            BY <4>1, <4>4, <3>0, <2>6, <2>8
          <6>2. d.mem[M[j]].prev = M[j - 1]
            BY <5>1, <4>3
          <6> QED
            BY <4>2, <6>1, <6>2
      <4>5. CASE j # i + 1
        <5>1. L[j] # n /\ M[j - 1] = L[j - 1]
          BY <4>5, <3>3, <2>3, <2>7, <2>8, <2>9, <3>0, StepsAre
        <5>2. Whole(c, k, L) => c.mem[L[j]].prev = L[j - 1]
          BY <3>3, <2>8 DEF Whole
        <5> QED
          <6>1. M[j] \in d.alloc
            BY <4>1, <3>0, <2>6
          <6>2. d.mem[M[j]].prev = c.mem[L[j]].prev /\ j # 1
            BY <5>1, <4>3, <3>3, <2>8
          <6>3. c.mem[L[j]].prev \in {NULL, L[j - 1]}
            BY <3>0, <6>2
          <6> QED
            BY <5>1, <5>2, <4>2, <6>1, <6>2, <6>3
      <4> QED
        BY <4>4, <4>5
    <3> QED
      BY <3>1, <3>2, <3>3, <2>8
  <2>13. Chain(d, k, M) /\ (Whole(c, k, L) => Whole(d, k, M))
    <3>1. Chain(d, k, M)
      BY <2>8, <2>10, <2>11, <2>12 DEF Chain
    <3>2. Whole(c, k, L) => Whole(d, k, M)
      BY <2>12, <2>8 DEF Whole
    <3> QED
      BY <3>1, <3>2
  <2>14. {M[j] : j \in 1 .. k} = {L[j] : j \in 1 .. k}
    <3>1. ASSUME NEW j \in 1 .. k
          PROVE  \E x \in 1 .. k : M[j] = L[x]
      BY <2>7, <2>8
    <3>2. ASSUME NEW j \in 1 .. k
          PROVE  \E x \in 1 .. k : L[j] = M[x]
      <4>1. CASE j = i
        BY <4>1, <2>7, <2>8
      <4>2. CASE j < i
        <5>1. j + 1 \in 1 .. k /\ M[j + 1] = L[j]
          BY <4>2, <2>7, <2>8
        <5> QED
          BY <5>1
      <4>3. CASE j > i
        BY <4>3, <2>7, <2>8
      <4> QED
        BY <4>1, <4>2, <4>3, <2>8
    <3> QED
      BY <3>1, <3>2
  <2> QED
    BY <1>2, <2>5, <2>6, <2>13, <2>14 DEF d, b, M, BlocksOf
<1> QED
  BY <1>1, <1>2

(* Moving a block changes no size.                                         *)
LEMMA LinksOnly ==
    ASSUME NEW c, NEW b, NEW to,
           c = [head |-> c.head, tail |-> c.tail, total_size |-> c.total_size,
                mem |-> c.mem, alloc |-> c.alloc, broken |-> c.broken],
           NEW d, d = SetNext(c, b, to) \/ d = SetPrev(c, b, to)
                  \/ d = [c EXCEPT !.tail = to] \/ d = [c EXCEPT !.head = to]
    PROVE  /\ d = [head |-> d.head, tail |-> d.tail, total_size |-> d.total_size,
                   mem |-> d.mem, alloc |-> d.alloc, broken |-> d.broken]
           /\ d.total_size = c.total_size
BY DEF SetNext, SetPrev

LEMMA MoveTotal ==
    ASSUME NEW c, NEW b, Shaped(c)
    PROVE  move_to_first(c, b).total_size = c.total_size
<1> DEFINE Rec(x) == x = [head |-> x.head, tail |-> x.tail, total_size |-> x.total_size,
                          mem |-> x.mem, alloc |-> x.alloc, broken |-> x.broken]
           p == c.mem[b].prev
           n == c.mem[b].next
           c1 == SetNext(c, p, n)
           u == Unlink(c, b)
           c2 == SetNext(u, b, u.head)
           c3 == SetPrev(c2, u.head, b)
           c4 == SetPrev(c3, b, NULL)
<1>1. Rec(c)
  BY DEF Shaped
<1>2. Rec(c1) /\ c1.total_size = c.total_size
  BY <1>1, LinksOnly
<1>3. Rec(u) /\ u.total_size = c1.total_size
  <2>1. u = SetPrev(c1, n, p) \/ u = [c1 EXCEPT !.tail = p]
    BY DEF Unlink
  <2> HIDE DEF c1, u, n, p
  <2> QED
    BY <1>2, <2>1, LinksOnly
<1>4. Rec(c2) /\ c2.total_size = u.total_size
  <2> HIDE DEF u
  <2> QED
    BY <1>3, LinksOnly
<1>5. Rec(c3) /\ c3.total_size = c2.total_size
  <2> HIDE DEF c2
  <2> QED
    BY <1>4, LinksOnly
<1>6. Rec(c4) /\ c4.total_size = c3.total_size
  <2> HIDE DEF c3
  <2> QED
    BY <1>5, LinksOnly
<1>7. /\ PutInFront(u, b).total_size = c4.total_size
      /\ Broken(c).total_size = c.total_size
  <2>1. PutInFront(u, b) = [c4 EXCEPT !.head = b]
    BY DEF PutInFront
  <2> HIDE DEF c4
  <2> QED
    BY <1>1, <1>6, <2>1 DEF Broken
<1> HIDE DEF u, c1, c2, c3, c4
<1>8. move_to_first(c, b) \in {c, Broken(c), PutInFront(u, b)}
  BY DEF move_to_first, u
<1> QED
  BY <1>2, <1>3, <1>4, <1>5, <1>6, <1>7, <1>8

-----------------------------------------------------------------------------
(* A new block in front of what is kept of the list.                       *)
Fronted(new, m, L) == [j \in 1 .. m + 1 |-> IF j = 1 THEN new ELSE L[j - 1]]

LEMMA FrontedIs ==
    ASSUME NEW c, NEW k, NEW L, Chain(c, k, L), NEW m \in 0 .. k,
           NEW d, NEW new \in Blocks,
           new \in d.alloc, d.head = new, d.tail = IF m = 0 THEN new ELSE L[m],
           d.mem[new].next = IF m = 0 THEN NULL ELSE L[1],
           d.mem[new].prev = NULL,
           \A i \in 1 .. m :
              /\ L[i] # new /\ L[i] \in d.alloc
              /\ d.mem[L[i]].next = IF i = m THEN NULL ELSE L[i + 1]
              /\ \/ d.mem[L[i]].prev = c.mem[L[i]].prev
                 \/ i = 1 /\ d.mem[L[i]].prev = new
    PROVE  /\ Chain(d, m + 1, Fronted(new, m, L))
           /\ Whole(c, k, L) /\ (m > 0 => d.mem[L[1]].prev = new)
                => Whole(d, m + 1, Fronted(new, m, L))
<1> DEFINE M == Fronted(new, m, L)
<1>1. /\ k \in Nat /\ m \in Nat /\ m + 1 \in Nat
      /\ \A i \in 1 .. m : L[i] \in Blocks /\ i \in 1 .. k
      /\ \A i, j \in 1 .. m : L[i] = L[j] => i = j
      /\ \A i \in 1 .. m : c.mem[L[i]].prev \in {NULL, IF i = 1 THEN NULL ELSE L[i - 1]}
  BY DEF Chain
<1>2. \A j \in 1 .. m + 1 : M[j] = IF j = 1 THEN new ELSE L[j - 1]
  BY DEF Fronted
<1>3. M \in [1 .. m + 1 -> Blocks]
  BY <1>1 DEF Fronted
<1> HIDE DEF M
<1>4. \A i, j \in 1 .. m + 1 : M[i] = M[j] => i = j
  <2> SUFFICES ASSUME NEW i \in 1 .. m + 1, NEW j \in 1 .. m + 1, M[i] = M[j] PROVE i = j
    OBVIOUS
  <2>1. CASE i = 1 \/ j = 1
    BY <1>1, <1>2, <2>1
  <2>2. CASE i # 1 /\ j # 1
    <3>1. i - 1 \in 1 .. m /\ j - 1 \in 1 .. m /\ L[i - 1] = L[j - 1]
      BY <1>1, <1>2, <2>2
    <3> QED
      BY <1>1, <3>1
  <2> QED
    BY <2>1, <2>2
<1>5. d.head = M[1] /\ d.tail = M[m + 1]
  BY <1>1, <1>2
<1>6. ASSUME NEW j \in 1 .. m + 1
      PROVE  /\ M[j] \in d.alloc
             /\ d.mem[M[j]].next = IF j = m + 1 THEN NULL ELSE M[j + 1]
             /\ d.mem[M[j]].prev \in {NULL, IF j = 1 THEN NULL ELSE M[j - 1]}
             /\ Whole(c, k, L) /\ (m > 0 => d.mem[L[1]].prev = new) /\ j # 1
                   => d.mem[M[j]].prev = M[j - 1]
  <2>1. CASE j = 1
    <3>1. M[j] = new /\ (j # m + 1 => M[j + 1] = L[1])
      BY <1>1, <1>2, <2>1
    <3> QED
      BY <1>1, <2>1, <3>1
  <2>2. CASE j = 2
    <3>1. M[j] = L[1] /\ 1 \in 1 .. m /\ M[j - 1] = new /\ (j # m + 1 => M[j + 1] = L[2])
      BY <1>1, <1>2, <2>2
    <3>2. d.mem[M[j]].next = IF j = m + 1 THEN NULL ELSE M[j + 1]
      BY <1>1, <2>2, <3>1
    <3>3. d.mem[M[j]].prev \in {NULL, new}
      BY <1>1, <3>1
    <3> QED
      BY <1>1, <2>2, <3>1, <3>2, <3>3
  <2>3. CASE j > 2
    <3>1. /\ M[j] = L[j - 1] /\ j - 1 \in 1 .. m /\ j - 1 # 1 /\ M[j - 1] = L[j - 2]
          /\ (j # m + 1 => M[j + 1] = L[j])
      BY <1>1, <1>2, <2>3
    <3>2. d.mem[M[j]].next = IF j = m + 1 THEN NULL ELSE M[j + 1]
      BY <1>1, <2>3, <3>1
    <3>3. d.mem[M[j]].prev = c.mem[L[j - 1]].prev
      BY <3>1
    <3>4. c.mem[L[j - 1]].prev \in {NULL, L[j - 2]}
      BY <1>1, <3>1
    <3>5. Whole(c, k, L) => c.mem[L[j - 1]].prev = L[j - 2]
      BY <1>1, <2>3, <3>1 DEF Whole
    <3> QED
      BY <3>1, <3>2, <3>3, <3>4, <3>5, <2>3
  <2> QED
    BY <1>1, <2>1, <2>2, <2>3
<1>7. Chain(d, m + 1, M)
  BY <1>1, <1>3, <1>4, <1>5, <1>6 DEF Chain
<1>8. Whole(c, k, L) /\ (m > 0 => d.mem[L[1]].prev = new) => Whole(d, m + 1, M)
  BY <1>1, <1>6 DEF Whole
<1> QED
  BY <1>7, <1>8 DEF M

-----------------------------------------------------------------------------
(* What a write makes of the cache.  A block with readers stays allocated, *)
(* and loses at most the list's reference.                                 *)
Written(c, k, L, d, new, u) ==
    /\ Shaped(d)
    /\ new \in Blocks
    /\ new \in c.alloc => (\E i \in 1 .. k : new = L[i]) /\ c.mem[new].refcnt = 1
    /\ d.mem[new].url = u /\ d.mem[new].refcnt = 1
    /\ \E m \in 0 .. k :
          /\ Chain(d, m + 1, Fronted(new, m, L))
          /\ \A i \in 1 .. m : L[i] # new /\ d.mem[L[i]].refcnt = c.mem[L[i]].refcnt
    /\ \A x \in c.alloc :
          x # new /\ ((\E i \in 1 .. k : x = L[i]) => c.mem[x].refcnt # 1)
             => /\ x \in d.alloc
                /\ d.mem[x].url = c.mem[x].url
                /\ d.mem[x].refcnt = c.mem[x].refcnt
                   \/ /\ \E i \in 1 .. k : x = L[i]
                      /\ d.mem[x].refcnt = c.mem[x].refcnt - 1

(* write_to_cache fills the block in, and leaves the links alone.          *)
LEMMA WriteToIs ==
    ASSUME NEW c, Shaped(c), NEW new \in Blocks, NEW u \in Urls
    PROVE  LET d == write_to_cache(c, new, u)
           IN  /\ Shaped(d) /\ d.total_size = c.total_size
               /\ d.head = c.head /\ d.tail = c.tail /\ d.alloc = c.alloc
               /\ \A x \in Blocks :
                     /\ d.mem[x].next = c.mem[x].next
                     /\ d.mem[x].prev = c.mem[x].prev
                     /\ d.mem[x].url = IF x = new THEN u ELSE c.mem[x].url
                     /\ d.mem[x].refcnt = IF x = new THEN 1 ELSE c.mem[x].refcnt
<1> DEFINE d == write_to_cache(c, new, u)
           filled == [c.mem[new] EXCEPT !.url = u, !.refcnt = 1]
<1>1. c.mem[new] \in Block /\ filled \in Block
  BY DEF Shaped, Block
<1>2. d = [c EXCEPT !.mem = [c.mem EXCEPT ![new] = filled]]
  BY <1>1 DEF write_to_cache, Shaped, Block
<1> HIDE DEF d
<1>3. /\ filled.next = c.mem[new].next /\ filled.prev = c.mem[new].prev
      /\ filled.url = u /\ filled.refcnt = 1
  BY <1>1 DEF Block
<1> HIDE DEF filled
<1>4. d.mem = [c.mem EXCEPT ![new] = filled]
  BY <1>2 DEF Shaped
<1>5. /\ Shaped(d) /\ d.head = c.head /\ d.tail = c.tail /\ d.alloc = c.alloc
      /\ d.total_size = c.total_size
  BY <1>1, <1>2 DEF Shaped
<1> QED
  BY <1>3, <1>4, <1>5 DEF Shaped, d

Resized(c, total) == [c EXCEPT !.total_size = total]

LEMMA InsertIs ==
    ASSUME NEW c, NEW k, NEW L, Shaped(c), Chain(c, k, L),
           NEW new \in Blocks \ c.alloc, NEW u \in Urls, NEW total,
           NEW f, f = Resized(insert_block(c, new), total)
    PROVE  LET d == write_to_cache(f, new, u)
           IN  /\ Written(c, k, L, d, new, u)
               /\ Whole(c, k, L) => Whole(d, k + 1, Fronted(new, k, L))
               /\ Chain(d, k + 1, Fronted(new, k, L))
               /\ \A i \in 1 .. k : L[i] # new /\ d.mem[L[i]].url = c.mem[L[i]].url
               /\ d.total_size = total
<1> DEFINE e == insert_block(c, new)
           d == write_to_cache(f, new, u)
<1>1. /\ k \in Nat /\ k \in 0 .. k
      /\ \A i \in 1 .. k : L[i] \in Blocks /\ L[i] \in c.alloc /\ L[i] # new /\ L[i] # NULL
      /\ c.head = IF k = 0 THEN NULL ELSE L[1]
      /\ c.tail = IF k = 0 THEN NULL ELSE L[k]
  <2>1. k \in Nat /\ \A i \in 1 .. k : L[i] \in Blocks /\ L[i] \in c.alloc /\ L[i] # NULL
    BY ChainParts
  <2>2. /\ c.head = IF k = 0 THEN NULL ELSE L[1]
        /\ c.tail = IF k = 0 THEN NULL ELSE L[k]
    BY DEF Chain
  <2> QED
    BY <2>1, <2>2
<1>2. c.head \in Links /\ NULL \in Links /\ (k > 0 => c.head \in Blocks)
  BY <1>1 DEF Links
<1>3. /\ Shaped(e) /\ e.alloc = c.alloc \cup {new} /\ e.head = new
      /\ e.tail = IF k = 0 THEN new ELSE c.tail
      /\ \A x \in Blocks :
            /\ e.mem[x].next = IF x = new THEN c.head ELSE c.mem[x].next
            /\ e.mem[x].prev = IF x = new THEN NULL
                              ELSE IF x = c.head THEN new ELSE c.mem[x].prev
            /\ x # new => e.mem[x].url = c.mem[x].url /\ e.mem[x].refcnt = c.mem[x].refcnt
  <2> DEFINE linked == IF c.head = NULL THEN [c EXCEPT !.tail = new]
                                        ELSE SetPrev(c, c.head, new)
  <2>1. /\ Shaped(linked) /\ linked.alloc = c.alloc /\ linked.head = c.head
        /\ linked.tail = IF k = 0 THEN new ELSE c.tail
        /\ \A x \in Blocks :
              /\ linked.mem[x].next = c.mem[x].next
              /\ linked.mem[x].prev = IF x = c.head THEN new ELSE c.mem[x].prev
              /\ linked.mem[x].url = c.mem[x].url
              /\ linked.mem[x].refcnt = c.mem[x].refcnt
    <3>1. CASE k = 0
      BY <1>1, <3>1, StepsAre DEF Shaped
    <3>2. CASE k # 0
      <4>1. linked = SetPrev(c, c.head, new) /\ c.head \in Blocks
        BY <1>1, <1>2, <3>2, StepsAre
      <4> QED
        BY <4>1, <3>2 DEF SetPrev, Shaped, Block, Links
    <3> QED
      BY <3>1, <3>2
  <2>2. e = [linked EXCEPT !.alloc = linked.alloc \cup {new},
                           !.mem = [linked.mem EXCEPT ![new] = [Unwritten EXCEPT !.next = c.head]],
                           !.head = new]
    BY DEF insert_block
  <2> HIDE DEF linked, e
  <2> QED
    BY <2>1, <2>2, <1>2 DEF Shaped, Block, Unwritten, Links
<1>11. f = [e EXCEPT !.total_size = total]
  BY DEF Resized
<1> HIDE DEF e
<1>4. /\ Shaped(f) /\ f.alloc = e.alloc /\ f.head = e.head /\ f.tail = e.tail
      /\ f.mem = e.mem /\ f.total_size = total
  BY <1>3, <1>11 DEF Shaped
<1>5. /\ Shaped(d) /\ d.alloc = f.alloc /\ d.head = f.head /\ d.tail = f.tail
      /\ d.total_size = f.total_size
      /\ \A x \in Blocks :
            /\ d.mem[x].next = f.mem[x].next
            /\ d.mem[x].prev = f.mem[x].prev
            /\ d.mem[x].url = IF x = new THEN u ELSE f.mem[x].url
            /\ d.mem[x].refcnt = IF x = new THEN 1 ELSE f.mem[x].refcnt
  BY <1>4, WriteToIs
<1> HIDE DEF d
<1>6. ASSUME NEW i \in 1 .. k
      PROVE  /\ L[i] # new /\ L[i] \in d.alloc
             /\ d.mem[L[i]].next = IF i = k THEN NULL ELSE L[i + 1]
             /\ \/ d.mem[L[i]].prev = c.mem[L[i]].prev
                \/ i = 1 /\ d.mem[L[i]].prev = new
             /\ d.mem[L[i]].refcnt = c.mem[L[i]].refcnt
             /\ d.mem[L[i]].url = c.mem[L[i]].url
  <2>1. c.mem[L[i]].next = IF i = k THEN NULL ELSE L[i + 1]
    BY DEF Chain
  <2>2. L[i] = c.head => i = 1
    BY <1>1 DEF Chain
  <2> QED
    BY <2>1, <2>2, <1>1, <1>3, <1>4, <1>5
<1>7. k > 0 => d.mem[L[1]].prev = new
  BY <1>1, <1>3, <1>4, <1>5
<1>8. /\ new \in d.alloc /\ d.head = new /\ d.tail = IF k = 0 THEN new ELSE L[k]
      /\ d.mem[new].next = IF k = 0 THEN NULL ELSE L[1]
      /\ d.mem[new].prev = NULL
  BY <1>1, <1>3, <1>4, <1>5
<1>9. /\ Chain(d, k + 1, Fronted(new, k, L))
      /\ Whole(c, k, L) => Whole(d, k + 1, Fronted(new, k, L))
  BY <1>1, <1>6, <1>7, <1>8, FrontedIs
<1>10. Written(c, k, L, d, new, u)
  <2>1. \A x \in c.alloc : /\ x \in d.alloc /\ d.mem[x].url = c.mem[x].url
                           /\ d.mem[x].refcnt = c.mem[x].refcnt
    BY <1>3, <1>4, <1>5 DEF Shaped
  <2>2. d.mem[new].url = u /\ d.mem[new].refcnt = 1
    BY <1>5
  <2>3. \E m \in 0 .. k :
          /\ Chain(d, m + 1, Fronted(new, m, L))
          /\ \A i \in 1 .. m : L[i] # new /\ d.mem[L[i]].refcnt = c.mem[L[i]].refcnt
    BY <1>1, <1>6, <1>9
  <2> QED
    BY <2>1, <2>2, <2>3, <1>5 DEF Written
<1> QED
  BY <1>4, <1>5, <1>6, <1>9, <1>10 DEF d, e

-----------------------------------------------------------------------------
(* What eviction gives up: the last n blocks lose the list's reference, and*)
(* are freed if it was their only one.                                     *)
Given(c, k, L, n) ==
    LET last == {L[i] : i \in k - n + 1 .. k}
        freed == {b \in last : c.mem[b].refcnt = 1}
    IN [c EXCEPT !.mem = [b \in Blocks |->
                            IF b \in freed THEN Unwritten
                            ELSE IF b \in last
                            THEN [c.mem[b] EXCEPT !.refcnt = c.mem[b].refcnt - 1]
                            ELSE c.mem[b]],
                 !.alloc = c.alloc \ freed]

LEMMA GivenStarts ==
    ASSUME NEW c, NEW k, NEW L, Shaped(c), Chain(c, k, L)
    PROVE  Given(c, k, L, 0) = c
<1>1. {L[i] : i \in k - 0 + 1 .. k} = {}
  BY DEF Chain
<1>2. Given(c, k, L, 0) = [c EXCEPT !.mem = [b \in Blocks |-> c.mem[b]], !.alloc = c.alloc]
  BY <1>1 DEF Given
<1> QED
  BY <1>2 DEF Shaped

LEMMA GivenGrows ==
    ASSUME NEW c, NEW k, NEW L, Shaped(c), Chain(c, k, L),
           \A i \in 1 .. k : c.mem[L[i]].refcnt >= 1,
           NEW n \in 0 .. k - 1
    PROVE  Given(c, k, L, n + 1) = decreref(Given(c, k, L, n), L[k - n])
<1> DEFINE last == {L[i] : i \in k - n + 1 .. k}
           freed == {b \in last : c.mem[b].refcnt = 1}
           last2 == {L[i] : i \in k - (n + 1) + 1 .. k}
           freed2 == {b \in last2 : c.mem[b].refcnt = 1}
           b0 == L[k - n]
           g == Given(c, k, L, n)
           h == Given(c, k, L, n + 1)
<1>1. k \in Nat /\ k - n \in 1 .. k /\ b0 \in Blocks /\ b0 \in c.alloc /\ c.mem[b0].refcnt >= 1
      /\ c.mem[b0] \in Block
  BY ChainParts DEF Shaped, Chain
<1>2. b0 \notin last
  BY <1>1 DEF Chain
<1>3. last2 = last \cup {b0}
  <2>1. \A i : i \in k - (n + 1) + 1 .. k <=> i \in k - n + 1 .. k \/ i = k - n
    BY <1>1
  <2> QED
    BY <2>1
<1>4. /\ g.mem = [b \in Blocks |-> IF b \in freed THEN Unwritten
                                  ELSE IF b \in last
                                  THEN [c.mem[b] EXCEPT !.refcnt = c.mem[b].refcnt - 1]
                                  ELSE c.mem[b]]
      /\ g.alloc = c.alloc \ freed
      /\ g = [c EXCEPT !.mem = g.mem, !.alloc = g.alloc]
  BY DEF Given, Shaped
<1>5. /\ h.mem = [b \in Blocks |-> IF b \in freed2 THEN Unwritten
                                  ELSE IF b \in last2
                                  THEN [c.mem[b] EXCEPT !.refcnt = c.mem[b].refcnt - 1]
                                  ELSE c.mem[b]]
      /\ h.alloc = c.alloc \ freed2
      /\ h = [c EXCEPT !.mem = h.mem, !.alloc = h.alloc]
  BY DEF Given, Shaped
<1>6. b0 \in g.alloc /\ g.mem[b0] = c.mem[b0]
  BY <1>1, <1>2, <1>4
<1> HIDE DEF g, h, last, last2
<1>7. CASE c.mem[b0].refcnt = 1
  <2>1. freed2 = freed \cup {b0}
    BY <1>3, <1>7
  <2>2. decreref(g, b0) = [g EXCEPT !.mem = [g.mem EXCEPT ![b0] = Unwritten],
                                    !.alloc = g.alloc \ {b0}]
    BY <1>6, <1>7 DEF decreref
  <2> HIDE DEF freed, freed2, b0
  <2>3. h.mem = [g.mem EXCEPT ![b0] = Unwritten]
    <3>1. ASSUME NEW b \in Blocks
          PROVE  h.mem[b] = IF b = b0 THEN Unwritten ELSE g.mem[b]
      <4>1. b \in freed2 <=> b \in freed \/ b = b0
        BY <2>1
      <4>2. b # b0 => (b \in last2 <=> b \in last)
        BY <1>3
      <4>3. h.mem[b] = IF b \in freed2 THEN Unwritten
                       ELSE IF b \in last2
                       THEN [c.mem[b] EXCEPT !.refcnt = c.mem[b].refcnt - 1]
                       ELSE c.mem[b]
        BY <1>5
      <4>4. g.mem[b] = IF b \in freed THEN Unwritten
                       ELSE IF b \in last
                       THEN [c.mem[b] EXCEPT !.refcnt = c.mem[b].refcnt - 1]
                       ELSE c.mem[b]
        BY <1>4
      <4> QED
        BY <4>1, <4>2, <4>3, <4>4
    <3> QED
      BY <3>1, <1>1, <1>4, <1>5
  <2>4. h.alloc = g.alloc \ {b0}
    BY <1>4, <1>5, <2>1
  <2>5. h = decreref(g, b0)
    BY <1>4, <1>5, <2>2, <2>3, <2>4 DEF Shaped
  <2> QED
    BY <2>5 DEF h, g, b0
<1>8. CASE c.mem[b0].refcnt # 1
  <2>1. freed2 = freed
    BY <1>3, <1>8
  <2>2. decreref(g, b0) =
            [g EXCEPT !.mem = [g.mem EXCEPT ![b0] = [g.mem[b0] EXCEPT !.refcnt = g.mem[b0].refcnt - 1]]]
    BY <1>6, <1>8 DEF decreref
  <2>3. b0 \notin freed2
    BY <1>8
  <2> HIDE DEF freed, freed2, b0
  <2>4. h.mem = [g.mem EXCEPT ![b0] = [g.mem[b0] EXCEPT !.refcnt = g.mem[b0].refcnt - 1]]
    <3>1. ASSUME NEW b \in Blocks
          PROVE  h.mem[b] = IF b = b0 THEN [g.mem[b0] EXCEPT !.refcnt = g.mem[b0].refcnt - 1]
                            ELSE g.mem[b]
      <4>1. b \in freed2 <=> b \in freed
        BY <2>1
      <4>2. (b # b0 => (b \in last2 <=> b \in last)) /\ (b = b0 => b \in last2 /\ b \notin freed2)
        BY <1>3, <2>3
      <4>3. h.mem[b] = IF b \in freed2 THEN Unwritten
                       ELSE IF b \in last2
                       THEN [c.mem[b] EXCEPT !.refcnt = c.mem[b].refcnt - 1]
                       ELSE c.mem[b]
        BY <1>5
      <4>4. g.mem[b] = IF b \in freed THEN Unwritten
                       ELSE IF b \in last
                       THEN [c.mem[b] EXCEPT !.refcnt = c.mem[b].refcnt - 1]
                       ELSE c.mem[b]
        BY <1>4
      <4>5. CASE b = b0
        BY <4>2, <4>3, <4>5, <1>6
      <4>6. CASE b # b0
        BY <4>1, <4>2, <4>3, <4>4, <4>6
      <4> QED
        BY <4>5, <4>6
    <3> QED
      BY <3>1, <1>1, <1>4, <1>5
  <2>5. h.alloc = g.alloc
    BY <1>4, <1>5, <2>1
  <2>6. h = decreref(g, b0)
    <3>1. g = [head |-> c.head, tail |-> c.tail, total_size |-> c.total_size,
               mem |-> g.mem, alloc |-> g.alloc, broken |-> c.broken]
      BY <1>4 DEF Shaped
    <3>2. h = [head |-> c.head, tail |-> c.tail, total_size |-> c.total_size,
               mem |-> h.mem, alloc |-> g.alloc, broken |-> c.broken]
      BY <1>5, <2>5 DEF Shaped
    <3>3. decreref(g, b0) = [g EXCEPT !.mem = h.mem]
      BY <2>2, <2>4
    <3> QED
      BY <3>1, <3>2, <3>3
  <2> QED
    BY <2>6 DEF h, g, b0
<1> QED
  BY <1>7, <1>8 DEF h, g, b0

LEMMA GiveUpIs ==
    ASSUME NEW c, NEW k, NEW L, Shaped(c), Chain(c, k, L),
           \A i \in 1 .. k : c.mem[L[i]].refcnt >= 1,
           NEW n \in 0 .. k,
           \A j \in 0 .. n - 1 : Backward(c)[j] = L[k - j]
    PROVE  GiveUp(c, n) = Given(c, k, L, n)
<1> DEFINE w == Backward(c)
           G == [j \in 0 .. n |-> Given(c, k, L, j)]
           Gives(g) == g = [j \in 0 .. n |-> IF j = 0 THEN c ELSE decreref(g[j - 1], w[j - 1])]
           H == CHOOSE g : Gives(g)
           Same == {j \in 0 .. n : H[j] = G[j]}
<1>0. k \in Nat /\ n \in Nat /\ n # -1
  BY DEF Chain
<1>1. ASSUME NEW j \in 0 .. n
      PROVE  G[j] = IF j = 0 THEN c ELSE decreref(G[j - 1], w[j - 1])
  <2>1. CASE j = 0
    BY <2>1, GivenStarts
  <2>2. CASE j # 0
    <3>1. j - 1 \in 0 .. k - 1 /\ j - 1 \in 0 .. n - 1 /\ j - 1 \in 0 .. n /\ (j - 1) + 1 = j
      BY <1>0, <2>2
    <3>2. Given(c, k, L, (j - 1) + 1) = decreref(Given(c, k, L, j - 1), L[k - (j - 1)])
      BY <3>1, GivenGrows
    <3> QED
      BY <3>1, <3>2, <2>2
  <2> QED
    BY <2>1, <2>2
<1>2. Gives(G)
  <2>1. G = [j \in 0 .. n |-> G[j]]
    OBVIOUS
  <2> HIDE DEF G
  <2> QED
    BY <1>1, <2>1
<1>3. Gives(H)
  <2> HIDE DEF Gives
  <2> QED
    BY <1>2
<1>4. GiveUp(c, n) = H[n]
  BY <1>0 DEF GiveUp
<1> HIDE DEF H, G
<1>5. \A j \in 0 .. n : H[j] = IF j = 0 THEN c ELSE decreref(H[j - 1], w[j - 1])
  BY <1>3
<1>6. 0 \in Same
  <2>1. 0 \in 0 .. n
    BY <1>0
  <2>2. H[0] = c /\ G[0] = c
    BY <1>1, <1>5, <2>1
  <2> QED
    BY <2>1, <2>2
<1>7. ASSUME NEW j \in 0 .. n - 1, j \in Same
      PROVE  j + 1 \in Same
  <2>1. j + 1 \in 0 .. n /\ (j + 1) - 1 = j /\ j + 1 # 0
    BY <1>0
  <2>2. G[j + 1] = decreref(G[j], w[j]) /\ H[j + 1] = decreref(H[j], w[j])
    BY <1>1, <1>5, <2>1
  <2> QED
    BY <2>1, <2>2, <1>7
<1>8. n \in Same
  <2> HIDE DEF Same
  <2> QED
    BY <1>0, <1>6, <1>7, UpTo
<1> QED
  BY <1>0, <1>4, <1>8 DEF G

(* Eviction stops inside the list, and has taken its last n blocks.        *)
LEMMA EvictionEndIs ==
    ASSUME NEW c, NEW k, NEW L, Shaped(c), Chain(c, k, L),
           \A i \in 1 .. k : c.mem[L[i]].refcnt >= 1, NEW size
    PROVE  LET n == EvictionEnd(c, size)
           IN  /\ n \in 0 .. k
               /\ GiveUp(c, n) = Given(c, k, L, n)
               /\ \/ Backward(c)[n] = NULL
                  \/ n < k /\ Backward(c)[n] = L[k - n]
               /\ Backward(c)[n] \in c.alloc => EvictedSize(c, n) >= size
               /\ \A j \in 0 .. n - 1 : Backward(c)[j] = L[k - j]
               /\ n > 0 => ~(EvictedSize(c, n - 1) >= size)
<1> DEFINE stops == {m \in Steps : \/ Backward(c)[m] \notin c.alloc
                                 \/ EvictedSize(c, m) >= size}
           n == EvictionEnd(c, size)
<1>1. k \in Nat /\ k \in Steps /\ NULL \notin c.alloc
  BY ChainParts, StepsAre DEF Shaped
<1>2. k \in stops
  <2>1. Backward(c)[k] = NULL
    BY <1>1, BackwardIs
  <2> QED
    BY <1>1, <2>1
<1>3. stops \in SUBSET Nat
  BY StepsAre
<1>4. n \in stops /\ \A m \in stops : n <= m
  <2>1. n = First(stops)
    BY DEF EvictionEnd
  <2> HIDE DEF stops, n
  <2> QED
    BY <1>2, <1>3, <2>1, FirstIs
<1> HIDE DEF n
<1>5. n \in 0 .. k /\ n \in Steps
  BY <1>1, <1>2, <1>3, <1>4
<1>6. ASSUME NEW j \in 0 .. n - 1
      PROVE  Backward(c)[j] = L[k - j]
  <2>1. j \in Steps /\ ~(n <= j)
    BY <1>1, <1>5, StepsAre
  <2>2. j \notin stops
    BY <1>4, <2>1
  <2>3. Backward(c)[j] \in c.alloc
    BY <2>1, <2>2
  <2> QED
    BY <1>1, <2>1, <2>3, BackwardIs
<1>7. GiveUp(c, n) = Given(c, k, L, n)
  BY <1>5, <1>6, GiveUpIs
<1>8. Backward(c)[n] \in c.alloc => EvictedSize(c, n) >= size
  BY <1>4
<1>9. n > 0 => ~(EvictedSize(c, n - 1) >= size)
  <2>1. n > 0 => n - 1 \in Steps /\ ~(n <= n - 1)
    BY <1>5, StepsAre
  <2> QED
    BY <1>4, <2>1
<1> QED
  BY <1>5, <1>6, <1>7, <1>8, <1>9, BackwardIs DEF n

(* The blocks after Given.                                                 *)
LEMMA GivenIs ==
    ASSUME NEW c, NEW k, NEW L, Shaped(c), Chain(c, k, L),
           \A i \in 1 .. k : c.mem[L[i]].refcnt >= 1,
           NEW n \in 0 .. k
    PROVE  LET g == Given(c, k, L, n)
           IN  /\ Shaped(g) /\ g.total_size = c.total_size
               /\ \A x \in Blocks : x \in c.alloc /\ x \notin g.alloc
                     => (\E i \in 1 .. k : x = L[i]) /\ c.mem[x].refcnt = 1
               /\ \A x \in c.alloc :
                     ((\E i \in 1 .. k : x = L[i]) => c.mem[x].refcnt # 1)
                     => /\ x \in g.alloc
                        /\ g.mem[x].url = c.mem[x].url
                        /\ \/ g.mem[x].refcnt = c.mem[x].refcnt
                           \/ /\ \E i \in 1 .. k : x = L[i]
                              /\ g.mem[x].refcnt = c.mem[x].refcnt - 1
               /\ g.alloc \subseteq c.alloc
               /\ \A i \in 1 .. k - n : L[i] \in g.alloc /\ g.mem[L[i]] = c.mem[L[i]]
<1> DEFINE last == {L[i] : i \in k - n + 1 .. k}
           freed == {b \in last : c.mem[b].refcnt = 1}
           g == Given(c, k, L, n)
<1>1. /\ k \in Nat /\ n \in Nat
      /\ \A i \in 1 .. k : L[i] \in Blocks /\ L[i] \in c.alloc
      /\ \A i, j \in 1 .. k : L[i] = L[j] => i = j
  BY DEF Chain
<1>2. \A b \in last : \E i \in 1 .. k : b = L[i]
  BY <1>1
<1>3. /\ g.mem = [b \in Blocks |-> IF b \in freed THEN Unwritten
                                  ELSE IF b \in last
                                  THEN [c.mem[b] EXCEPT !.refcnt = c.mem[b].refcnt - 1]
                                  ELSE c.mem[b]]
      /\ g.alloc = c.alloc \ freed
      /\ g = [c EXCEPT !.mem = g.mem, !.alloc = g.alloc]
  BY DEF Given, Shaped
<1>4. \A i \in 1 .. k - n : L[i] \notin last
  BY <1>1
<1> HIDE DEF g, last
<1>5. ASSUME NEW b \in Blocks
      PROVE  /\ g.mem[b] \in Block
             /\ b \notin freed => g.mem[b].url = c.mem[b].url
             /\ b \notin freed /\ b \in last => g.mem[b].refcnt = c.mem[b].refcnt - 1
             /\ b \notin last => g.mem[b] = c.mem[b]
  <2>1. c.mem[b] \in Block
    BY DEF Shaped
  <2>2. CASE b \in freed
    <3>1. Unwritten \in Block
      BY DEF Unwritten, Block, Links
    <3>2. g.mem[b] = Unwritten /\ b \in last
      BY <1>3, <2>2
    <3> QED
      BY <2>2, <3>1, <3>2
  <2>3. CASE b \notin freed /\ b \in last
    <3>1. g.mem[b] = [c.mem[b] EXCEPT !.refcnt = c.mem[b].refcnt - 1]
      BY <1>3, <2>3
    <3>2. c.mem[b].refcnt >= 1
      BY <1>2, <2>3
    <3> QED
      BY <2>1, <2>3, <3>1, <3>2 DEF Block
  <2>4. CASE b \notin last
    BY <1>3, <2>1, <2>4
  <2> QED
    BY <2>2, <2>3, <2>4
<1>6. Shaped(g) /\ g.total_size = c.total_size
  <2>1. g.mem \in [Blocks -> Block]
    BY <1>3, <1>5
  <2>2. /\ g = [head |-> c.head, tail |-> c.tail, total_size |-> c.total_size,
                mem |-> g.mem, alloc |-> g.alloc, broken |-> c.broken]
        /\ g.alloc \subseteq Blocks
    BY <1>3 DEF Shaped
  <2> QED
    BY <2>1, <2>2 DEF Shaped
<1>7. \A x \in Blocks : x \in c.alloc /\ x \notin g.alloc
                     => (\E i \in 1 .. k : x = L[i]) /\ c.mem[x].refcnt = 1
  BY <1>2, <1>3
<1>8. ASSUME NEW x \in c.alloc, (\E i \in 1 .. k : x = L[i]) => c.mem[x].refcnt # 1
      PROVE  /\ x \in g.alloc
             /\ g.mem[x].url = c.mem[x].url
             /\ \/ g.mem[x].refcnt = c.mem[x].refcnt
                \/ /\ \E i \in 1 .. k : x = L[i]
                   /\ g.mem[x].refcnt = c.mem[x].refcnt - 1
  <2>1. x \in Blocks /\ x \notin freed
    BY <1>2, <1>8 DEF Shaped
  <2> QED
    BY <1>2, <1>3, <1>5, <2>1
<1>9. g.alloc \subseteq c.alloc
  BY <1>3
<1>10. \A i \in 1 .. k - n : L[i] \in g.alloc /\ g.mem[L[i]] = c.mem[L[i]]
  <2> TAKE i \in 1 .. k - n
  <2>1. L[i] \in Blocks /\ L[i] \in c.alloc /\ L[i] \notin last
    BY <1>1, <1>4
  <2> QED
    BY <2>1, <1>3, <1>5
<1> QED
  BY <1>6, <1>7, <1>8, <1>9, <1>10 DEF g

(* What is left of the list, and the size of the cache.                    *)
Evicted(c, k, L, e, d, size, new) ==
    LET n == EvictionEnd(c, size)
        temp == Backward(c)[n]
        m == IF temp = NULL THEN 0 ELSE k - n
    IN  /\ Chain(d, m + 1, Fronted(new, m, L))
        /\ \A i \in 1 .. m : L[i] # new /\ d.mem[L[i]].url = c.mem[L[i]].url
        /\ Shaped(e)
        /\ e.total_size = IF temp = NULL THEN size
                          ELSE Replaced(c.total_size, EvictedSize(c, n), size)

LEMMA EvictIs ==
    ASSUME NEW c, NEW k, NEW L, Shaped(c), Chain(c, k, L),
           \A i \in 1 .. k : c.mem[L[i]].refcnt >= 1,
           NEW size, NEW u \in Urls,
           NEW new \in Blocks \ GiveUp(c, EvictionEnd(c, size)).alloc
    PROVE  LET e == evict_cache(c, size, new)
               d == write_to_cache(e, new, u)
           IN  /\ e.broken = FALSE
               /\ Written(c, k, L, d, new, u)
               /\ Evicted(c, k, L, e, d, size, new)
<1> DEFINE n == EvictionEnd(c, size)
           temp == Backward(c)[n]
           g == Given(c, k, L, n)
           m == IF temp = NULL THEN 0 ELSE k - n
           given == [g EXCEPT !.alloc = g.alloc \cup {new}, !.head = new]
           e == evict_cache(c, size, new)
           d == write_to_cache(e, new, u)
<1>1. /\ n \in 0 .. k /\ n # -1
      /\ GiveUp(c, n) = g
      /\ (temp = NULL \/ (n < k /\ temp = L[k - n]))
  <2>1. /\ n \in 0 .. k
        /\ GiveUp(c, n) = g
        /\ (temp = NULL \/ (n < k /\ temp = L[k - n]))
    BY EvictionEndIs
  <2> QED
    BY <2>1 DEF Chain
<1>2. /\ k \in Nat
      /\ \A i \in 1 .. k : L[i] \in Blocks /\ L[i] \in c.alloc /\ L[i] # NULL
  BY ChainParts
<1> HIDE DEF n
<1>3. /\ Shaped(g) /\ g.total_size = c.total_size
      /\ \A x \in Blocks : x \in c.alloc /\ x \notin g.alloc
             => (\E i \in 1 .. k : x = L[i]) /\ c.mem[x].refcnt = 1
      /\ \A x \in c.alloc :
             ((\E i \in 1 .. k : x = L[i]) => c.mem[x].refcnt # 1)
             => /\ x \in g.alloc
                /\ g.mem[x].url = c.mem[x].url
                /\ \/ g.mem[x].refcnt = c.mem[x].refcnt
                   \/ /\ \E i \in 1 .. k : x = L[i]
                      /\ g.mem[x].refcnt = c.mem[x].refcnt - 1
      /\ g.alloc \subseteq c.alloc
      /\ \A i \in 1 .. k - n : L[i] \in g.alloc /\ g.mem[L[i]] = c.mem[L[i]]
  BY <1>1, GivenIs
<1>4. new \in Blocks /\ new \notin g.alloc
  BY <1>1 DEF n
<1>5. e = IF temp = NULL
          THEN [given EXCEPT !.mem[new] = Unwritten, !.tail = new, !.total_size = size]
          ELSE [CutAt(given, temp) EXCEPT
                   !.mem[new] = [Unwritten EXCEPT !.next = c.head],
                   !.total_size = Replaced(CutAt(given, temp).total_size, EvictedSize(c, n), size)]
  <2>1. given.broken = FALSE /\ ~(temp \notin c.alloc \cup {NULL})
    BY <1>1, <1>2, <1>3 DEF Shaped
  <2> HIDE DEF g, temp
  <2> QED
    BY <1>1, <2>1 DEF evict_cache, n, temp
<1>6. /\ given.mem = g.mem /\ given.alloc = g.alloc \cup {new} /\ given.head = new
      /\ Shaped(given) /\ given.total_size = c.total_size
  <2>1. /\ g = [head |-> g.head, tail |-> g.tail, total_size |-> g.total_size,
                mem |-> g.mem, alloc |-> g.alloc, broken |-> g.broken]
        /\ g.mem \in [Blocks -> Block] /\ g.alloc \subseteq Blocks /\ g.broken = FALSE
        /\ g.total_size = c.total_size
    BY <1>3 DEF Shaped
  <2> HIDE DEF g
  <2> DEFINE r == [head |-> g.head, tail |-> g.tail, total_size |-> g.total_size,
                   mem |-> g.mem, alloc |-> g.alloc, broken |-> g.broken]
  <2>2. given = [r EXCEPT !.alloc = g.alloc \cup {new}, !.head = new]
    <3> HIDE DEF r
    <3> QED
      BY <2>1 DEF r
  <2>3. given = [head |-> new, tail |-> g.tail, total_size |-> g.total_size,
                 mem |-> g.mem, alloc |-> g.alloc \cup {new}, broken |-> g.broken]
    <3> HIDE DEF given
    <3> QED
      BY <2>2
  <2> HIDE DEF given
  <2> QED
    BY <1>4, <2>1, <2>3 DEF Shaped
<1> HIDE DEF g, given, e
<1>7. m \in 0 .. k /\ m \in 0 .. k - n /\ m <= k - n /\ k - n \in Nat
  BY <1>1, <1>2
<1>8. c.head = (IF k = 0 THEN NULL ELSE L[1]) /\ c.head \in Links
  <2>1. c.head = IF k = 0 THEN NULL ELSE L[1]
    BY DEF Chain
  <2> QED
    BY <2>1, <1>2 DEF Links
<1>9. ASSUME NEW i \in 1 .. m
      PROVE  /\ L[i] # new /\ L[i] \in g.alloc /\ L[i] \in Blocks
             /\ g.mem[L[i]].next = IF i = k THEN NULL ELSE L[i + 1]
             /\ g.mem[L[i]].prev = c.mem[L[i]].prev
             /\ g.mem[L[i]].refcnt = c.mem[L[i]].refcnt
             /\ g.mem[L[i]].url = c.mem[L[i]].url
  <2>1. i \in 1 .. k - n /\ i \in 1 .. k
    BY <1>7, <1>1, <1>2
  <2>2. c.mem[L[i]].next = IF i = k THEN NULL ELSE L[i + 1]
    BY <2>1 DEF Chain
  <2> QED
    BY <1>2, <1>3, <1>4, <2>1, <2>2
<1>10. /\ Shaped(e) /\ e.alloc = g.alloc \cup {new} /\ e.head = new
       /\ e.tail = IF m = 0 THEN new ELSE L[m]
       /\ e.mem[new].next = IF m = 0 THEN NULL ELSE L[1]
       /\ e.mem[new].prev = NULL
       /\ e.total_size = IF temp = NULL THEN size
                         ELSE Replaced(c.total_size, EvictedSize(c, n), size)
       /\ \A x \in Blocks \ {new} :
             /\ e.mem[x].next = IF m # 0 /\ x = L[m] THEN NULL ELSE g.mem[x].next
             /\ e.mem[x].prev = g.mem[x].prev
             /\ e.mem[x].url = g.mem[x].url
             /\ e.mem[x].refcnt = g.mem[x].refcnt
  <2>1. CASE temp = NULL
    <3>1. m = 0
      BY <2>1
    <3>2. Unwritten \in Block /\ Unwritten.next = NULL /\ Unwritten.prev = NULL
      BY DEF Unwritten, Block, Links
    <3>3. e = [given EXCEPT !.mem = [given.mem EXCEPT ![new] = Unwritten],
                            !.tail = new, !.total_size = size]
      BY <1>5, <2>1
    <3> HIDE DEF m
    <3> QED
      BY <1>4, <1>6, <2>1, <3>1, <3>2, <3>3 DEF Shaped
  <2>2. CASE temp # NULL
    <3>1. /\ m = k - n /\ m # 0 /\ temp = L[m] /\ temp \in Blocks /\ temp # new /\ k # 0
          /\ m \in 1 .. m
      BY <1>1, <1>2, <1>7, <1>9, <2>2
    <3> DEFINE c1 == SetNext(given, temp, NULL)
               c2 == CutAt(given, temp)
               first == [Unwritten EXCEPT !.next = c.head]
    <3>2. first \in Block /\ first.next = c.head /\ first.prev = NULL
      BY <1>8 DEF Unwritten, Block, Links
    <3> HIDE DEF m, temp, first
    <3>3. /\ Shaped(c1) /\ c1.head = given.head /\ c1.alloc = given.alloc
          /\ c1.total_size = given.total_size
          /\ \A x \in Blocks : /\ c1.mem[x].next = IF x = temp THEN NULL ELSE g.mem[x].next
                               /\ c1.mem[x].prev = g.mem[x].prev
                               /\ c1.mem[x].url = g.mem[x].url
                               /\ c1.mem[x].refcnt = g.mem[x].refcnt
      <4>1. Shaped(given) /\ temp \in Blocks /\ NULL \in Links
        BY <1>6, <3>1 DEF Links
      <4>2. /\ Shaped(c1) /\ c1.head = given.head /\ c1.alloc = given.alloc
            /\ c1.total_size = given.total_size
            /\ \A x \in Blocks : /\ c1.mem[x].next = IF x = temp THEN NULL ELSE given.mem[x].next
                                 /\ c1.mem[x].prev = given.mem[x].prev
                                 /\ c1.mem[x].url = given.mem[x].url
                                 /\ c1.mem[x].refcnt = given.mem[x].refcnt
        BY <4>1, SetNextIs
      <4> QED
        BY <1>6, <4>2
    <3>4. c2 = [c1 EXCEPT !.tail = temp]
      BY DEF CutAt
    <3> HIDE DEF c1
    <3>5. /\ Shaped(c2) /\ c2.head = new /\ c2.alloc = g.alloc \cup {new} /\ c2.tail = temp
          /\ c2.mem = c1.mem /\ c2.total_size = c.total_size
      BY <1>6, <3>3, <3>4 DEF Shaped
    <3>6. e = [c2 EXCEPT !.mem = [c2.mem EXCEPT ![new] = first],
                         !.total_size = Replaced(c2.total_size, EvictedSize(c, n), size)]
      BY <1>5, <2>2 DEF first
    <3> HIDE DEF c2
    <3>7. /\ Shaped(e) /\ e.head = c2.head /\ e.tail = c2.tail /\ e.alloc = c2.alloc
          /\ e.mem = [c2.mem EXCEPT ![new] = first]
          /\ e.total_size = Replaced(c2.total_size, EvictedSize(c, n), size)
      BY <1>4, <3>2, <3>5, <3>6 DEF Shaped
    <3>8. e.mem[new] = first /\ \A x \in Blocks \ {new} : e.mem[x] = c2.mem[x]
      BY <1>4, <3>5, <3>7 DEF Shaped
    <3> QED
      BY <1>8, <2>2, <3>1, <3>2, <3>3, <3>5, <3>7, <3>8
  <2> QED
    BY <2>1, <2>2
<1>11. /\ Shaped(d) /\ d.alloc = e.alloc /\ d.head = e.head /\ d.tail = e.tail
       /\ \A x \in Blocks :
            /\ d.mem[x].next = e.mem[x].next
            /\ d.mem[x].prev = e.mem[x].prev
            /\ d.mem[x].url = IF x = new THEN u ELSE e.mem[x].url
            /\ d.mem[x].refcnt = IF x = new THEN 1 ELSE e.mem[x].refcnt
  BY <1>4, <1>10, WriteToIs
<1> HIDE DEF d
<1>12. ASSUME NEW i \in 1 .. m
       PROVE  /\ L[i] # new /\ L[i] \in d.alloc
              /\ d.mem[L[i]].next = IF i = m THEN NULL ELSE L[i + 1]
              /\ d.mem[L[i]].prev = c.mem[L[i]].prev
              /\ d.mem[L[i]].refcnt = c.mem[L[i]].refcnt
              /\ d.mem[L[i]].url = c.mem[L[i]].url
  <2>1. m # 0 /\ m \in 1 .. k /\ i \in 1 .. k
    <3> HIDE DEF m
    <3> QED
      BY <1>2, <1>7
  <2>2. L[i] = L[m] <=> i = m
    BY <2>1 DEF Chain
  <2>3. d.mem[L[i]].next = IF i = m THEN NULL ELSE L[i + 1]
    <3>1. d.mem[L[i]].next = IF L[i] = L[m] THEN NULL ELSE g.mem[L[i]].next
      BY <1>9, <1>10, <1>11, <2>1
    <3>2. i # m => i # k
      BY <1>7, <2>1
    <3> HIDE DEF m
    <3> QED
      BY <1>9, <2>2, <3>1, <3>2
  <2> HIDE DEF m
  <2> QED
    BY <1>9, <1>10, <1>11, <2>3
<1>13. Chain(d, m + 1, Fronted(new, m, L))
  <2>1. /\ new \in d.alloc /\ d.head = new /\ d.tail = IF m = 0 THEN new ELSE L[m]
        /\ d.mem[new].next = IF m = 0 THEN NULL ELSE L[1]
        /\ d.mem[new].prev = NULL
    BY <1>4, <1>10, <1>11
  <2> HIDE DEF m
  <2> QED
    BY <2>1, <1>4, <1>7, <1>12, FrontedIs
<1>14. \A x \in c.alloc :
          x # new /\ ((\E i \in 1 .. k : x = L[i]) => c.mem[x].refcnt # 1)
             => /\ x \in d.alloc
                /\ d.mem[x].url = c.mem[x].url
                /\ d.mem[x].refcnt = c.mem[x].refcnt
                   \/ /\ \E i \in 1 .. k : x = L[i]
                      /\ d.mem[x].refcnt = c.mem[x].refcnt - 1
  <2> SUFFICES ASSUME NEW x \in c.alloc, x # new,
                      (\E i \in 1 .. k : x = L[i]) => c.mem[x].refcnt # 1
               PROVE  /\ x \in d.alloc
                      /\ d.mem[x].url = c.mem[x].url
                      /\ d.mem[x].refcnt = c.mem[x].refcnt
                         \/ /\ \E i \in 1 .. k : x = L[i]
                            /\ d.mem[x].refcnt = c.mem[x].refcnt - 1
    OBVIOUS
  <2>1. x \in Blocks
    BY DEF Shaped
  <2>2. d.mem[x].url = g.mem[x].url /\ d.mem[x].refcnt = g.mem[x].refcnt /\ (x \in g.alloc => x \in d.alloc)
    BY <2>1, <1>10, <1>11
  <2> QED
    BY <2>1, <2>2, <1>3
<1>15. Written(c, k, L, d, new, u)
  <2>1. new \in c.alloc => (\E i \in 1 .. k : new = L[i]) /\ c.mem[new].refcnt = 1
    BY <1>3, <1>4
  <2>2. \E mm \in 0 .. k :
          /\ Chain(d, mm + 1, Fronted(new, mm, L))
          /\ \A i \in 1 .. mm : L[i] # new /\ d.mem[L[i]].refcnt = c.mem[L[i]].refcnt
    <3> HIDE DEF m
    <3> QED
      BY <1>7, <1>12, <1>13
  <2> QED
    BY <1>4, <1>11, <1>14, <2>1, <2>2 DEF Written
<1>16. Evicted(c, k, L, e, d, size, new)
  BY <1>10, <1>12, <1>13 DEF Evicted, n
<1> QED
  BY <1>10, <1>15, <1>16 DEF e, d, Shaped

(* Forgetting what nobody reaches keeps the list, and what a thread holds. *)
LEMMA ForgetIs ==
    ASSUME NEW c, NEW k, NEW L, Shaped(c), Chain(c, k, L), NEW held, held \subseteq Links
    PROVE  LET d == Forget(c, held)
           IN  /\ Shaped(d) /\ Chain(d, k, L)
               /\ d.total_size = c.total_size
               /\ Whole(c, k, L) => Whole(d, k, L)
               /\ \A x \in c.alloc : (x \in held \/ \E i \in 1 .. k : x = L[i])
                     => x \in d.alloc /\ d.mem[x] = c.mem[x]
<1> DEFINE d == Forget(c, held)
           kept == c.alloc \cap Reachable(c, held)
<1>1. /\ k \in Nat
      /\ \A i \in 1 .. k : L[i] \in Blocks /\ L[i] \in c.alloc
  BY ChainParts
<1>2. ASSUME NEW x \in c.alloc, x \in held
      PROVE  x \in kept
  BY <1>2 DEF Reachable
<1>3. ASSUME NEW i \in 1 .. k
      PROVE  L[i] \in kept
  <2>1. L[i] \in Links
    BY <1>1 DEF Links
  <2>2. ASSUME NEW S \in SUBSET Links, {c.head, c.tail} \cup held \subseteq S, Closed(c, S)
        PROVE  L[i] \in S
    <3> DEFINE In == {j \in 0 .. k - 1 : L[j + 1] \in S}
    <3>1. k - 1 \in Nat /\ i - 1 \in 0 .. k - 1 /\ (i - 1) + 1 = i
      BY <1>1
    <3>2. 0 \in In
      BY <2>2, <3>1 DEF Chain
    <3>3. ASSUME NEW j \in 0 .. (k - 1) - 1, j \in In
          PROVE  j + 1 \in In
      <4>1. j + 1 \in 1 .. k /\ j + 1 # k /\ j + 1 \in 0 .. k - 1
        BY <1>1, <3>1
      <4>2. c.mem[L[j + 1]].next = L[(j + 1) + 1]
        BY <4>1 DEF Chain
      <4>3. L[j + 1] \in S \ {NULL}
        BY <3>3, <4>1, <1>1, StepsAre
      <4> QED
        BY <2>2, <4>1, <4>2, <4>3 DEF Closed
    <3>4. \A j \in 0 .. k - 1 : j \in In
      <4> HIDE DEF In
      <4> QED
        BY <3>1, <3>2, <3>3, UpTo
    <3> QED
      BY <3>1, <3>4
  <2> QED
    BY <1>1, <2>1, <2>2 DEF Reachable
<1> HIDE DEF kept
<1>4. d = [c EXCEPT !.alloc = kept,
                    !.mem = [b \in Blocks |-> IF b \in kept THEN c.mem[b] ELSE Unwritten]]
  BY DEF Forget, kept
<1>5. kept \subseteq c.alloc
  BY DEF kept
<1> HIDE DEF d
<1>6. Unwritten \in Block
  BY DEF Unwritten, Block, Links
<1>7. /\ Shaped(d) /\ d.head = c.head /\ d.tail = c.tail /\ d.alloc = kept
      /\ d.total_size = c.total_size
      /\ \A x \in kept : d.mem[x] = c.mem[x]
  BY <1>4, <1>5, <1>6 DEF Shaped
<1>8. Chain(d, k, L)
  BY <1>3, <1>7 DEF Chain
<1>9. Whole(c, k, L) => Whole(d, k, L)
  <2>1. \A i \in 2 .. k : i \in 1 .. k
    OBVIOUS
  <2> QED
    BY <1>3, <1>7, <2>1 DEF Whole
<1> QED
  BY <1>2, <1>3, <1>7, <1>8, <1>9 DEF d

-----------------------------------------------------------------------------
(* The inductive invariant.  Blocks that are not listed may have one       *)
(* reference too many: a list that was cut short is not freed.             *)
Refs(k, L) ==
    /\ \A b \in Blocks : Readers(b) # {} =>
          b \in cache.alloc /\ cache.mem[b].refcnt >= Cardinality(Readers(b))
    /\ \A i \in 1 .. k : cache.mem[L[i]].refcnt = 1 + Cardinality(Readers(L[i]))

ThreadInv ==
    /\ pc \in [Threads -> {"idle", "find", "fetch", "refind", "write",
                           "read", "send", "release"}]
    /\ uri \in [Threads -> Urls \cup {NULL}]
    /\ find_block \in [Threads -> Links]
    /\ answer \in [Threads -> Urls \cup {NULL}]
    /\ \A t \in Threads :
          /\ pc[t] # "idle" => uri[t] \in Urls
          /\ answer[t] \in {NULL, uri[t]}
          /\ pc[t] \in {"send", "release"} =>
                find_block[t] \in Blocks /\ cache.mem[find_block[t]].url = uri[t]

ListInv == \E k, L : Chain(cache, k, L) /\ Refs(k, L)

IInv == Shaped(cache) /\ ThreadInv /\ ListInv

LEMMA ReadersFinite ==
    \A b : /\ IsFiniteSet(Readers(b))
           /\ Cardinality(Readers(b)) \in Nat
           /\ Cardinality(Readers(b)) = 0 <=> Readers(b) = {}
<1> TAKE b
<1>1. Readers(b) \in SUBSET Threads
  BY DEF Readers
<1>2. IsFiniteSet(Readers(b))
  BY <1>1, FS_Subset, ThreadsAssumption
<1> QED
  BY <1>2, FS_CardinalityType, FS_EmptySet

(* The list read off the walk is L, in this state and in the next.         *)
LEMMA WalkedIs ==
    ASSUME NEW c, NEW k, NEW L, Chain(c, k, L)
    PROVE  LET w == Forward(c)
               len == First({n \in Steps : w[n] = NULL})
           IN  [n \in 1 .. (IF len = -1 THEN Cardinality(Blocks) ELSE len) |-> w[n - 1]] = L
<1> DEFINE F == [n \in Steps |-> IF n < k THEN L[n + 1] ELSE NULL]
           stops == {n \in Steps : F[n] = NULL}
<1>1. k \in Nat /\ k \in Steps /\ \A i \in 1 .. k : L[i] # NULL /\ i - 1 \in Steps
  BY ChainParts, StepsAre
<1>2. k \in stops /\ stops \in SUBSET Nat
  BY <1>1, StepsAre
<1>3. \A n \in stops : k <= n
  <2>1. \A n \in Steps : n < k => F[n] # NULL
    BY <1>1, StepsAre
  <2> QED
    BY <1>1, <2>1, StepsAre
<1>4. First(stops) = k
  <2>1. First(stops) \in stops /\ First(stops) <= k
    <3> HIDE DEF stops
    <3> QED
      BY <1>2, FirstIs
  <2>2. First(stops) \in Nat /\ k <= First(stops)
    <3> HIDE DEF stops
    <3> QED
      BY <1>2, <1>3, <2>1
  <2> HIDE DEF stops
  <2> QED
    BY <1>1, <2>1, <2>2
<1>5. Forward(c) = F
  BY ForwardIs
<1>6. \A n \in 1 .. k : F[n - 1] = L[n]
  BY <1>1
<1>7. L = [n \in 1 .. k |-> L[n]]
  BY DEF Chain
<1> HIDE DEF F
<1>8. [n \in 1 .. k |-> F[n - 1]] = L
  BY <1>6, <1>7
<1> DEFINE len == First({n \in Steps : Forward(c)[n] = NULL})
<1>9. len = k
  BY <1>4, <1>5
<1>10. (IF len = -1 THEN Cardinality(Blocks) ELSE len) = k
  <2> HIDE DEF len
  <2> QED
    BY <1>1, <1>9
<1> QED
  BY <1>5, <1>8, <1>10

LEMMA ListIs ==
    ASSUME NEW k, NEW L
    PROVE  /\ Chain(cache, k, L) => List = L /\ Len(L) = k
           /\ Chain(cache', k, L) => List' = L /\ Len(L) = k
<1>1. Chain(cache, k, L) => List = L
  BY WalkedIs DEF List
<1>2. Chain(cache', k, L) => List' = L
  BY WalkedIs DEF List
<1>3. \A c : Chain(c, k, L) => Len(L) = k
  BY DEF Chain
<1> QED
  BY <1>1, <1>2, <1>3

LEMMA Initially == Init => IInv
<1> SUFFICES ASSUME Init PROVE IInv
  OBVIOUS
<1>1. Shaped(cache)
  BY DEF Init, init_cache, Shaped, Unwritten, Block, Links
<1>2. ThreadInv
  BY DEF Init, ThreadInv, Links
<1>3. Chain(cache, 0, [i \in 1 .. 0 |-> NULL])
  BY DEF Init, init_cache, Chain
<1>4. \A b : Readers(b) = {}
  BY DEF Init, Readers
<1>5. Refs(0, [i \in 1 .. 0 |-> NULL])
  BY <1>4 DEF Refs
<1> QED
  BY <1>1, <1>2, <1>3, <1>5 DEF IInv, ListInv

-----------------------------------------------------------------------------
(* Steps that leave the cache alone: the list stays, and the references    *)
(* too if nobody starts or ends to send.                                   *)
SameReaders == \A b \in Blocks : Readers(b)' = Readers(b)

LEMMA CacheFrame ==
    ASSUME IInv, cache' = cache, SameReaders, ThreadInv'
    PROVE  IInv'
<1>1. Shaped(cache')
  BY DEF IInv
<1>2. PICK k, L : Chain(cache, k, L) /\ Refs(k, L)
  BY DEF IInv, ListInv
<1>3. Chain(cache', k, L)
  BY <1>2
<1>4. \A i \in 1 .. k : L[i] \in Blocks
  BY <1>2 DEF Chain
<1>5. Refs(k, L)'
  BY <1>2, <1>4 DEF Refs, SameReaders
<1> QED
  BY <1>1, <1>3, <1>5 DEF IInv, ListInv

(* A thread that neither sends before nor after a step.                    *)
LEMMA OtherReaders ==
    ASSUME ThreadInv, NEW t \in Threads, NEW place,
           pc[t] \notin {"send", "release"}, place \notin {"send", "release"},
           pc' = [pc EXCEPT ![t] = place],
           \A s \in Threads \ {t} : find_block'[s] = find_block[s]
    PROVE  SameReaders
<1> SUFFICES ASSUME NEW b \in Blocks PROVE Readers(b)' = Readers(b)
  BY DEF SameReaders
<1>1. pc'[t] = place /\ \A s \in Threads \ {t} : pc'[s] = pc[s]
  BY DEF ThreadInv
<1> QED
  BY <1>1 DEF Readers

LEMMA AcceptStep ==
    ASSUME IInv, NEW t \in Threads, NEW u \in Urls, Accept(t, u)
    PROVE  IInv'
<1>1. ThreadInv'
  BY DEF IInv, ThreadInv, Accept, At, Goto, Links
<1>2. SameReaders
  BY OtherReaders DEF IInv, Accept, At, Goto, ThreadInv
<1> QED
  BY <1>1, <1>2, CacheFrame DEF Accept

LEMMA LookStep ==
    ASSUME IInv, NEW t \in Threads, NEW missing \in {"fetch", "write"},
           pc[t] \in {"find", "refind"}, Look(t, "read", missing)
    PROVE  /\ IInv'
           /\ cache' = cache /\ find_block'[t] \in Listed(cache) \cup {NULL}
           /\ pc'[t] = "read" => find_block'[t] # NULL /\ cache.mem[find_block'[t]].url = uri[t]
<1>1. PICK k, L : Chain(cache, k, L) /\ Refs(k, L)
  BY DEF IInv, ListInv
<1>0. Shaped(cache) /\ Chain(cache, k, L)
  BY <1>1 DEF IInv
<1> DEFINE found == find_cache(cache, uri[t])
<1>2. /\ ~found.broken
      /\ \/ found.block = NULL
         \/ \E i \in 1 .. k : /\ found.block = L[i]
                              /\ cache.mem[L[i]].url = uri[t]
  BY <1>0, FindIs
<1> HIDE DEF found
<1>3. found.block \in Listed(cache) \cup {NULL} /\ found.block \in Links
  BY <1>1, <1>2, ListedIs, ChainParts DEF Links, BlocksOf
<1>4. /\ find_block' = [find_block EXCEPT ![t] = found.block]
      /\ pc' = [pc EXCEPT ![t] = IF found.block # NULL THEN "read" ELSE missing]
      /\ cache' = cache /\ uri' = uri /\ answer' = answer
  BY <1>2 DEF Look, Goto, found
<1>5. ThreadInv'
  BY <1>3, <1>4 DEF IInv, ThreadInv
<1>6. SameReaders
  <2>1. ThreadInv
    BY DEF IInv
  <2>2. \A s \in Threads \ {t} : find_block'[s] = find_block[s]
    BY <2>1, <1>4 DEF ThreadInv
  <2> QED
    BY <1>4, <2>1, <2>2, OtherReaders
<1>7. find_block'[t] = found.block /\ pc'[t] = IF found.block # NULL THEN "read" ELSE missing
  BY <1>4 DEF IInv, ThreadInv
<1> QED
  BY <1>2, <1>3, <1>4, <1>5, <1>6, <1>7, CacheFrame

LEMMA FetchStep ==
    ASSUME IInv, NEW t \in Threads, FetchFails(t) \/ Fetch(t)
    PROVE  IInv'
<1>1. ThreadInv'
  BY DEF IInv, ThreadInv, FetchFails, Fetch, At, Goto
<1>2. SameReaders
  BY OtherReaders DEF IInv, FetchFails, Fetch, At, Goto
<1> QED
  BY <1>1, <1>2, CacheFrame DEF FetchFails, Fetch

-----------------------------------------------------------------------------
(* Steps that take and give back references.                               *)
LEMMA ChainFrame ==
    ASSUME NEW c, NEW k, NEW L, Chain(c, k, L), NEW d,
           d.head = c.head, d.tail = c.tail,
           \A i \in 1 .. k : /\ L[i] \in d.alloc
                            /\ d.mem[L[i]].next = c.mem[L[i]].next
                            /\ d.mem[L[i]].prev = c.mem[L[i]].prev
    PROVE  Chain(d, k, L)
BY DEF Chain

LEMMA IncrefIs ==
    ASSUME NEW c, Shaped(c), NEW b \in c.alloc
    PROVE  LET d == increref(c, b)
           IN  /\ Shaped(d)
               /\ d.head = c.head /\ d.tail = c.tail /\ d.alloc = c.alloc
               /\ d.total_size = c.total_size
               /\ \A x \in Blocks :
                     /\ d.mem[x].next = c.mem[x].next
                     /\ d.mem[x].prev = c.mem[x].prev
                     /\ d.mem[x].url = c.mem[x].url
                     /\ d.mem[x].refcnt = IF x = b THEN c.mem[x].refcnt + 1 ELSE c.mem[x].refcnt
<1> DEFINE d == increref(c, b)
           more == [c.mem[b] EXCEPT !.refcnt = c.mem[b].refcnt + 1]
<1>1. b \in Blocks /\ c.mem[b] \in Block
  BY DEF Shaped
<1>2. d = [c EXCEPT !.mem = [c.mem EXCEPT ![b] = more]]
  BY <1>1 DEF increref
<1>3. /\ more \in Block /\ more.next = c.mem[b].next /\ more.prev = c.mem[b].prev
      /\ more.url = c.mem[b].url /\ more.refcnt = c.mem[b].refcnt + 1
  BY <1>1 DEF Block
<1> HIDE DEF d, more
<1>4. /\ Shaped(d) /\ d.head = c.head /\ d.tail = c.tail /\ d.alloc = c.alloc
      /\ d.total_size = c.total_size /\ d.mem = [c.mem EXCEPT ![b] = more]
  BY <1>1, <1>2, <1>3 DEF Shaped
<1> QED
  BY <1>1, <1>3, <1>4 DEF Shaped, d

LEMMA DecrefIs ==
    ASSUME NEW c, Shaped(c), NEW b \in c.alloc, c.mem[b].refcnt >= 1
    PROVE  LET d == decreref(c, b)
           IN  /\ Shaped(d)
               /\ d.head = c.head /\ d.tail = c.tail /\ d.total_size = c.total_size
               /\ d.alloc = IF c.mem[b].refcnt = 1 THEN c.alloc \ {b} ELSE c.alloc
               /\ \A x \in Blocks : x # b => d.mem[x] = c.mem[x]
               /\ c.mem[b].refcnt # 1 =>
                     /\ d.mem[b].next = c.mem[b].next
                     /\ d.mem[b].prev = c.mem[b].prev
                     /\ d.mem[b].url = c.mem[b].url
                     /\ d.mem[b].refcnt = c.mem[b].refcnt - 1
<1> DEFINE d == decreref(c, b)
           less == IF c.mem[b].refcnt = 1 THEN Unwritten
                   ELSE [c.mem[b] EXCEPT !.refcnt = c.mem[b].refcnt - 1]
           left == IF c.mem[b].refcnt = 1 THEN c.alloc \ {b} ELSE c.alloc
<1>1. b \in Blocks /\ c.mem[b] \in Block
  BY DEF Shaped
<1>2. d = [c EXCEPT !.mem = [c.mem EXCEPT ![b] = less], !.alloc = left]
  <2>1. CASE c.mem[b].refcnt = 1
    BY <2>1 DEF decreref
  <2>2. CASE c.mem[b].refcnt # 1
    <3>1. d = [c EXCEPT !.mem = [c.mem EXCEPT ![b] = less]]
      BY <2>2 DEF decreref
    <3>2. left = c.alloc
      BY <2>2
    <3> HIDE DEF d, less, left
    <3> QED
      BY <3>1, <3>2 DEF Shaped
  <2> QED
    BY <2>1, <2>2
<1>3. /\ less \in Block
      /\ c.mem[b].refcnt # 1 => /\ less.next = c.mem[b].next /\ less.prev = c.mem[b].prev
                                /\ less.url = c.mem[b].url
                                /\ less.refcnt = c.mem[b].refcnt - 1
  <2>1. CASE c.mem[b].refcnt = 1
    BY <2>1 DEF Unwritten, Block, Links
  <2>2. CASE c.mem[b].refcnt # 1
    BY <1>1, <2>2 DEF Block
  <2> QED
    BY <2>1, <2>2
<1>4. left \subseteq Blocks
  BY DEF Shaped
<1> HIDE DEF d, less, left
<1>5. /\ Shaped(d) /\ d.head = c.head /\ d.tail = c.tail /\ d.alloc = left
      /\ d.total_size = c.total_size /\ d.mem = [c.mem EXCEPT ![b] = less]
  BY <1>1, <1>2, <1>3, <1>4 DEF Shaped
<1> QED
  BY <1>1, <1>3, <1>5 DEF Shaped, d, left

(* A step that leaves a list that can be walked both ways as one.          *)
KeepsWhole == \E k, L, j, M : /\ Chain(cache, k, L) /\ Chain(cache', j, M)
                              /\ Whole(cache, k, L) => Whole(cache', j, M)

LEMMA ReadStep ==
    ASSUME IInv, NEW t \in Threads, Read(t),
           find_block[t] \in Listed(cache), cache.mem[find_block[t]].url = uri[t]
    PROVE  IInv' /\ KeepsWhole
<1>1. PICK k, L : Chain(cache, k, L) /\ Refs(k, L)
  BY DEF IInv, ListInv
<1> DEFINE b == find_block[t]
           moved == move_to_first(cache, b)
<1>2. Shaped(cache) /\ ThreadInv /\ \A i \in 1 .. k : L[i] \in Blocks /\ L[i] \in cache.alloc
  BY <1>1, ChainParts DEF IInv
<1>3. PICK i0 \in 1 .. k : b = L[i0]
  BY <1>1, ListedIs DEF BlocksOf
<1>4. /\ Shaped(moved) /\ moved.alloc = cache.alloc
      /\ \A x \in Blocks : /\ moved.mem[x].url = cache.mem[x].url
                           /\ moved.mem[x].refcnt = cache.mem[x].refcnt
      /\ \E M : /\ Chain(moved, k, M)
                /\ BlocksOf(k, M) = BlocksOf(k, L)
                /\ Whole(cache, k, L) => Whole(moved, k, M)
  <2> DEFINE d == move_to_first(cache, L[i0])
  <2>1. Shaped(cache) /\ Chain(cache, k, L)
    BY <1>1, <1>2
  <2>2. /\ Shaped(d) /\ d.alloc = cache.alloc
        /\ \A x \in Blocks : /\ d.mem[x].url = cache.mem[x].url
                             /\ d.mem[x].refcnt = cache.mem[x].refcnt
        /\ \E M : /\ Chain(d, k, M)
                  /\ BlocksOf(k, M) = BlocksOf(k, L)
                  /\ Whole(cache, k, L) => Whole(d, k, M)
    BY <2>1, MoveIs
  <2>3. moved = d
    BY <1>3
  <2> HIDE DEF d, moved
  <2> QED
    BY <2>2, <2>3
<1>5. PICK M : /\ Chain(moved, k, M)
               /\ BlocksOf(k, M) = BlocksOf(k, L)
               /\ Whole(cache, k, L) => Whole(moved, k, M)
  BY <1>4
<1>6. /\ cache' = increref(moved, b)
      /\ pc[t] = "read" /\ pc' = [pc EXCEPT ![t] = "send"]
      /\ uri' = uri /\ find_block' = find_block /\ answer' = answer
  <2>1. ~moved.broken
    BY <1>4 DEF Shaped
  <2> QED
    BY <2>1 DEF Read, At, Goto
<1> HIDE DEF moved
<1>7. b \in moved.alloc /\ b \in Blocks
  BY <1>2, <1>3, <1>4
<1>8. /\ Shaped(cache') /\ cache'.head = moved.head /\ cache'.tail = moved.tail
      /\ cache'.alloc = cache.alloc
      /\ \A x \in Blocks :
            /\ cache'.mem[x].next = moved.mem[x].next
            /\ cache'.mem[x].prev = moved.mem[x].prev
            /\ cache'.mem[x].url = cache.mem[x].url
            /\ cache'.mem[x].refcnt = IF x = b THEN cache.mem[x].refcnt + 1
                                      ELSE cache.mem[x].refcnt
  BY <1>4, <1>6, <1>7, IncrefIs
<1>9. Chain(cache', k, M)
  <2>1. \A i \in 1 .. k : M[i] \in Blocks /\ M[i] \in moved.alloc
    BY <1>5, ChainParts
  <2> QED
    BY <2>1, <1>4, <1>5, <1>8, ChainFrame
<1>10. /\ Readers(b)' = Readers(b) \cup {t} /\ t \notin Readers(b)
       /\ \A x : x # b => Readers(x)' = Readers(x)
  BY <1>2, <1>6 DEF Readers, ThreadInv
<1>11. Cardinality(Readers(b)') = Cardinality(Readers(b)) + 1
  BY <1>10, ReadersFinite, FS_AddElement
<1>12. \A i \in 1 .. k : cache.mem[L[i]].refcnt = 1 + Cardinality(Readers(L[i]))
  BY <1>1 DEF Refs
<1>13. ASSUME NEW x \in Blocks, Readers(x)' # {}
       PROVE  x \in cache'.alloc /\ cache'.mem[x].refcnt >= Cardinality(Readers(x)')
  <2>1. CASE x = b
    <3>1. cache.mem[b].refcnt = 1 + Cardinality(Readers(b))
      BY <1>3, <1>12
    <3>2. cache'.mem[b].refcnt = cache.mem[b].refcnt + 1 /\ b \in cache'.alloc
      BY <1>7, <1>4, <1>8
    <3>3. Cardinality(Readers(b)) \in Nat
      BY ReadersFinite
    <3>4. cache'.mem[b].refcnt >= Cardinality(Readers(b)')
      <4> HIDE DEF b
      <4> QED
        BY <3>1, <3>2, <3>3, <1>11
    <3>5. Readers(x)' = Readers(b)'
      BY <2>1, <1>6 DEF Readers
    <3> QED
      BY <2>1, <3>2, <3>4, <3>5
  <2>2. CASE x # b
    BY <2>2, <1>1, <1>8, <1>10, <1>13 DEF Refs
  <2> QED
    BY <2>1, <2>2
<1>14. ASSUME NEW i \in 1 .. k
       PROVE  cache'.mem[M[i]].refcnt = 1 + Cardinality(Readers(M[i])')
  <2>1. PICK j \in 1 .. k : M[i] = L[j]
    BY <1>5 DEF BlocksOf
  <2>2. CASE L[j] = b
    <3>1. cache.mem[b].refcnt = 1 + Cardinality(Readers(b))
      BY <2>2, <1>12
    <3>2. cache'.mem[b].refcnt = cache.mem[b].refcnt + 1
      BY <1>7, <1>8
    <3>3. Cardinality(Readers(b)) \in Nat
      BY ReadersFinite
    <3>4. cache'.mem[b].refcnt = 1 + Cardinality(Readers(b)')
      <4> HIDE DEF b
      <4> QED
        BY <3>1, <3>2, <3>3, <1>11
    <3>5. Readers(M[i])' = Readers(b)' /\ M[i] = b
      BY <2>1, <2>2, <1>6 DEF Readers
    <3> QED
      BY <3>4, <3>5
  <2>3. CASE L[j] # b
    BY <2>1, <2>3, <1>2, <1>8, <1>10, <1>12
  <2> QED
    BY <2>2, <2>3
<1>15. Refs(k, M)'
  BY <1>13, <1>14 DEF Refs
<1>16. ThreadInv'
  BY <1>2, <1>6, <1>7, <1>8 DEF ThreadInv
<1>17. Whole(cache, k, L) => Whole(cache', k, M)
  <2>1. k \in Nat /\ \A i \in 1 .. k : M[i] \in Blocks
    BY <1>5, ChainParts
  <2>2. \A i \in 2 .. k : cache'.mem[M[i]].prev = moved.mem[M[i]].prev
    BY <1>8, <2>1
  <2> QED
    BY <1>5, <2>2 DEF Whole
<1> QED
  BY <1>1, <1>8, <1>9, <1>15, <1>16, <1>17 DEF IInv, ListInv, KeepsWhole

(* A thread that sends its block has a reference to it.                    *)
LEMMA HasReference ==
    ASSUME IInv, NEW t \in Threads, pc[t] \in {"send", "release"}
    PROVE  /\ find_block[t] \in cache.alloc /\ find_block[t] \in Blocks
           /\ t \in Readers(find_block[t])
           /\ cache.mem[find_block[t]].url = uri[t]
           /\ cache.mem[find_block[t]].refcnt >= Cardinality(Readers(find_block[t]))
<1>1. PICK k, L : Chain(cache, k, L) /\ Refs(k, L)
  BY DEF IInv, ListInv
<1>2. t \in Readers(find_block[t])
  BY DEF Readers
<1>3. find_block[t] \in Blocks /\ cache.mem[find_block[t]].url = uri[t]
  BY DEF IInv, ThreadInv
<1> QED
  BY <1>1, <1>2, <1>3 DEF Refs

LEMMA SendStep ==
    ASSUME IInv, NEW t \in Threads, Send(t)
    PROVE  IInv' /\ cache' = cache
<1>1. /\ find_block[t] \in cache.alloc /\ find_block[t] \in Blocks
      /\ cache.mem[find_block[t]].url = uri[t]
  BY HasReference DEF Send, At
<1>2. /\ answer' = [answer EXCEPT ![t] = uri[t]] /\ cache' = cache
      /\ pc[t] = "send" /\ pc' = [pc EXCEPT ![t] = "release"]
      /\ uri' = uri /\ find_block' = find_block
  BY <1>1 DEF Send, At, Goto
<1>3. ThreadInv
  BY DEF IInv
<1>4. ThreadInv'
  BY <1>2, <1>3 DEF ThreadInv
<1>5. SameReaders
  BY <1>2, <1>3 DEF SameReaders, Readers, ThreadInv
<1> QED
  BY <1>2, <1>4, <1>5, CacheFrame

LEMMA ReleaseStep ==
    ASSUME IInv, NEW t \in Threads, Release(t)
    PROVE  IInv' /\ KeepsWhole
<1> DEFINE b == find_block[t]
<1>1. PICK k, L : Chain(cache, k, L) /\ Refs(k, L)
  BY DEF IInv, ListInv
<1>2. /\ pc[t] = "release" /\ pc' = [pc EXCEPT ![t] = "idle"]
      /\ cache' = decreref(cache, b)
      /\ uri' = uri /\ find_block' = find_block /\ answer' = answer
  BY DEF Release, At, Goto
<1>3. /\ b \in cache.alloc /\ b \in Blocks /\ t \in Readers(b)
      /\ cache.mem[b].refcnt >= Cardinality(Readers(b))
  BY <1>2, HasReference
<1>4. /\ Cardinality(Readers(b)) \in Nat /\ Cardinality(Readers(b)) >= 1
      /\ cache.mem[b].refcnt \in Nat /\ IsFiniteSet(Readers(b))
  BY <1>3, ReadersFinite DEF IInv, Shaped, Block
<1>5. /\ Shaped(cache') /\ cache'.head = cache.head /\ cache'.tail = cache.tail
      /\ cache'.alloc = IF cache.mem[b].refcnt = 1 THEN cache.alloc \ {b} ELSE cache.alloc
      /\ \A x \in Blocks : x # b => cache'.mem[x] = cache.mem[x]
      /\ cache.mem[b].refcnt # 1 =>
            /\ cache'.mem[b].next = cache.mem[b].next
            /\ cache'.mem[b].prev = cache.mem[b].prev
            /\ cache'.mem[b].url = cache.mem[b].url
            /\ cache'.mem[b].refcnt = cache.mem[b].refcnt - 1
  <2>1. Shaped(cache) /\ cache.mem[b].refcnt >= 1
    BY <1>3, <1>4 DEF IInv
  <2> QED
    BY <1>2, <1>3, <2>1, DecrefIs
<1>6. /\ Readers(b)' = Readers(b) \ {t}
      /\ \A x \in Blocks : x # b => Readers(x)' = Readers(x)
  BY <1>2 DEF Readers, IInv, ThreadInv
<1>7. Cardinality(Readers(b)') = Cardinality(Readers(b)) - 1
  BY <1>3, <1>4, <1>6, FS_RemoveElement
<1>8. /\ \A i \in 1 .. k : L[i] \in Blocks /\ L[i] \in cache.alloc
      /\ \A i \in 1 .. k : cache.mem[L[i]].refcnt = 1 + Cardinality(Readers(L[i]))
  BY <1>1, ChainParts DEF Refs
<1>9. (\E i \in 1 .. k : L[i] = b) => cache.mem[b].refcnt # 1
  BY <1>4, <1>8
<1>10. \A i \in 1 .. k : /\ L[i] \in cache'.alloc
                        /\ cache'.mem[L[i]].next = cache.mem[L[i]].next
                        /\ cache'.mem[L[i]].prev = cache.mem[L[i]].prev
  BY <1>5, <1>8, <1>9
<1>11. Chain(cache', k, L)
  BY <1>1, <1>5, <1>10, ChainFrame
<1>12. Readers(b)' # {} => cache.mem[b].refcnt # 1
  <2>1. Readers(b)' # {} => Cardinality(Readers(b)') # 0
    BY <1>4, <1>6, FS_RemoveElement, FS_EmptySet
  <2> HIDE DEF b
  <2> QED
    BY <2>1, <1>3, <1>4, <1>7
<1>13. ASSUME NEW x \in Blocks, Readers(x)' # {}
       PROVE  x \in cache'.alloc /\ cache'.mem[x].refcnt >= Cardinality(Readers(x)')
  <2>1. CASE x = b
    <3>1. Readers(x)' = Readers(b)'
      BY <2>1, <1>2 DEF Readers
    <3>2. cache.mem[b].refcnt # 1
      BY <1>12, <1>13, <3>1
    <3>3. cache'.mem[b].refcnt >= Cardinality(Readers(b)') /\ b \in cache'.alloc
      BY <1>3, <1>4, <1>5, <1>7, <3>2
    <3> QED
      BY <2>1, <3>1, <3>3
  <2>2. CASE x # b
    BY <2>2, <1>1, <1>5, <1>6, <1>13 DEF Refs
  <2> QED
    BY <2>1, <2>2
<1>14. ASSUME NEW i \in 1 .. k
       PROVE  cache'.mem[L[i]].refcnt = 1 + Cardinality(Readers(L[i])')
  <2>1. CASE L[i] = b
    <3>1. Readers(L[i])' = Readers(b)'
      BY <2>1, <1>2 DEF Readers
    <3>2. cache'.mem[b].refcnt = cache.mem[b].refcnt - 1
      BY <1>5, <1>9, <2>1
    <3>3. cache.mem[b].refcnt = 1 + Cardinality(Readers(b))
      BY <1>8, <2>1
    <3>4. cache'.mem[b].refcnt = 1 + Cardinality(Readers(b)')
      BY <3>2, <3>3, <1>4, <1>7
    <3> QED
      BY <2>1, <3>1, <3>4
  <2>2. CASE L[i] # b
    BY <2>2, <1>5, <1>6, <1>8
  <2> QED
    BY <2>1, <2>2
<1>15. Refs(k, L)'
  BY <1>13, <1>14 DEF Refs
<1>16. ThreadInv'
  <2>1. ThreadInv
    BY DEF IInv
  <2>2. ASSUME NEW s \in Threads, pc'[s] \in {"send", "release"}
        PROVE  find_block[s] \in Blocks /\ cache'.mem[find_block[s]].url = uri[s]
    <3>1. s # t /\ pc[s] \in {"send", "release"}
      BY <1>2, <2>1, <2>2 DEF ThreadInv
    <3>2. find_block[s] \in Blocks /\ cache.mem[find_block[s]].url = uri[s]
      BY <2>1, <3>1 DEF ThreadInv
    <3>3. find_block[s] = b => s \in Readers(b)'
      BY <2>2, <1>2 DEF Readers
    <3> QED
      BY <1>5, <1>12, <3>2, <3>3
  <2>3. pc' \in [Threads -> {"idle", "find", "fetch", "refind", "write",
                             "read", "send", "release"}]
        /\ \A s \in Threads : pc'[s] # "idle" => pc[s] # "idle"
    BY <1>2, <2>1 DEF ThreadInv
  <2> QED
    BY <1>2, <2>1, <2>2, <2>3 DEF ThreadInv
<1>17. Whole(cache, k, L) => Whole(cache', k, L)
  <2>1. \A i \in 2 .. k : i \in 1 .. k
    OBVIOUS
  <2> QED
    BY <1>10, <2>1 DEF Whole
<1> QED
  BY <1>1, <1>5, <1>11, <1>15, <1>16, <1>17 DEF IInv, ListInv, KeepsWhole

-----------------------------------------------------------------------------
(* Caching a response.                                                     *)
LEMMA InsertedIs ==
    ASSUME NEW c, NEW k, NEW L, Shaped(c), Chain(c, k, L),
           NEW u \in Urls, NEW new \in Mallocable(c, SizeOf[u]), HasRoom(c, SizeOf[u])
    PROVE  LET d == find_cache_to_write(c, u, new)
           IN  /\ Written(c, k, L, d, new, u) /\ Shaped(d)
               /\ Chain(d, k + 1, Fronted(new, k, L))
               /\ Whole(c, k, L) => Whole(d, k + 1, Fronted(new, k, L))
               /\ \A i \in 1 .. k : L[i] # new /\ d.mem[L[i]].url = c.mem[L[i]].url
               /\ d.total_size = c.total_size + SizeOf[u]
<1> DEFINE e == insert_block(c, new)
           f == [e EXCEPT !.total_size = e.total_size + SizeOf[u]]
<1>1. new \in Blocks \ c.alloc
  BY DEF Mallocable
<1>2. e.broken = FALSE /\ f.broken = e.broken /\ e.total_size = c.total_size
  BY DEF insert_block, SetPrev, Shaped
<1>3. find_cache_to_write(c, u, new) = write_to_cache(f, new, u)
  BY <1>2 DEF find_cache_to_write
<1>4. /\ Written(c, k, L, write_to_cache(f, new, u), new, u)
      /\ Whole(c, k, L) => Whole(write_to_cache(f, new, u), k + 1, Fronted(new, k, L))
      /\ Chain(write_to_cache(f, new, u), k + 1, Fronted(new, k, L))
      /\ \A i \in 1 .. k : /\ L[i] # new
                          /\ write_to_cache(f, new, u).mem[L[i]].url = c.mem[L[i]].url
      /\ write_to_cache(f, new, u).total_size = e.total_size + SizeOf[u]
  <2>1. PICK total : total = e.total_size + SizeOf[u]
    OBVIOUS
  <2>2. f = Resized(insert_block(c, new), total)
    BY <2>1 DEF Resized
  <2> HIDE DEF f, e
  <2> QED
    BY <1>1, <2>1, <2>2, InsertIs
<1> QED
  BY <1>2, <1>3, <1>4 DEF Written

LEMMA WriteIs ==
    ASSUME NEW c, NEW k, NEW L, Shaped(c), Chain(c, k, L),
           \A i \in 1 .. k : c.mem[L[i]].refcnt >= 1,
           NEW u \in Urls, NEW new \in Mallocable(c, SizeOf[u])
    PROVE  Written(c, k, L, find_cache_to_write(c, u, new), new, u)
<1> DEFINE size == SizeOf[u]
<1>1. CASE HasRoom(c, size)
  BY <1>1, InsertedIs
<1>2. CASE ~HasRoom(c, size)
  <2>1. new \in Blocks \ GiveUp(c, EvictionEnd(c, size)).alloc
    BY <1>2 DEF Mallocable
  <2>2. /\ evict_cache(c, size, new).broken = FALSE
        /\ Written(c, k, L, write_to_cache(evict_cache(c, size, new), new, u), new, u)
    BY <2>1, EvictIs
  <2>3. find_cache_to_write(c, u, new) = write_to_cache(evict_cache(c, size, new), new, u)
    BY <1>2, <2>2 DEF find_cache_to_write
  <2> QED
    BY <2>2, <2>3
<1> QED
  BY <1>1, <1>2

(* The list is as large as total_size says, and fits.                      *)
Sized(c, k, L) ==
    /\ \A i \in 1 .. k : c.mem[L[i]].url \in Urls
    /\ c.total_size = Total(c, BlocksOf(k, L))
    /\ c.total_size < MAX_CACHE_SIZE

LEMMA FrontedSized ==
    ASSUME NEW c, NEW k, NEW L, Chain(c, k, L), Sized(c, k, L), NEW m \in 0 .. k,
           NEW d, NEW new, NEW u \in Urls, Chain(d, m + 1, Fronted(new, m, L)),
           d.mem[new].url = u,
           \A i \in 1 .. m : L[i] # new /\ d.mem[L[i]].url = c.mem[L[i]].url,
           d.total_size = SizeOf[u] + Total(c, BlocksOf(m, L)),
           d.total_size < MAX_CACHE_SIZE
    PROVE  Sized(d, m + 1, Fronted(new, m, L))
<1> DEFINE M == Fronted(new, m, L)
           old == BlocksOf(m, L)
           S == BlocksOf(m + 1, M)
<1>1. /\ k \in Nat /\ m \in Nat /\ m + 1 \in Nat
      /\ \A i \in 1 .. m : i \in 1 .. k /\ i + 1 \in 1 .. m + 1 /\ L[i] \in Blocks
  BY DEF Chain
<1>2. \A j \in 1 .. m + 1 : M[j] = (IF j = 1 THEN new ELSE L[j - 1]) /\ M[j] \in Blocks
  BY DEF Fronted, Chain
<1> HIDE DEF M
<1>3. M[1] = new /\ new \in Blocks /\ \A i \in 1 .. m : M[i + 1] = L[i]
  <2>1. 1 \in 1 .. m + 1 /\ \A i \in 1 .. m : i + 1 # 1 /\ (i + 1) - 1 = i
    BY <1>1
  <2> QED
    BY <1>1, <1>2, <2>1
<1>4. \A j \in 1 .. m + 1 : j = 1 \/ (j - 1 \in 1 .. m /\ M[j] = L[j - 1])
  BY <1>1, <1>2
<1>5. S = old \cup {new}
  <2>1. ASSUME NEW b \in old \cup {new}
        PROVE  b \in S
    <3>1. 1 \in 1 .. m + 1
      BY <1>1
    <3> QED
      BY <1>1, <1>3, <3>1 DEF BlocksOf
  <2>2. \A b \in S : b \in old \cup {new}
    BY <1>3, <1>4 DEF BlocksOf
  <2> QED
    BY <2>1, <2>2
<1>6. /\ new \notin old /\ old \in SUBSET Blocks
      /\ \A b \in old : c.mem[b].url \in Urls /\ d.mem[b].url = c.mem[b].url
  BY <1>1 DEF BlocksOf, Sized
<1> HIDE DEF S, old
<1>7. S \in SUBSET Blocks /\ new \in S /\ S \ {new} = old /\ \A b \in S : d.mem[b].url \in Urls
  BY <1>3, <1>5, <1>6
<1>8. Total(d, S) = SizeOf[u] + Total(d, old)
  BY <1>7, TotalParts
<1>9. Total(d, old) = Total(c, old)
  BY <1>6, TotalSame
<1>10. \A j \in 1 .. m + 1 : d.mem[M[j]].url \in Urls
  BY <1>7 DEF S, BlocksOf
<1> QED
  BY <1>8, <1>9, <1>10 DEF Sized, S, M, old

(* An eviction gives up the blocks behind place i, and is left with the    *)
(* first m: none, where the walk meets a block without a prev.             *)
Behind(c, k, L, i) == Total(c, BlocksOf(k, L)) - Total(c, BlocksOf(i, L))

GivesUp(c, k, L, m, i, size) ==
    /\ i < k => Behind(c, k, L, i + 1) < size
    /\ \A j \in i + 2 .. k : c.mem[L[j]].prev # NULL
    /\ IF m # 0 THEN /\ m = i
                     /\ Behind(c, k, L, i) >= size
                     /\ i < k => c.mem[L[i + 1]].prev # NULL
       ELSE i = 0 \/ (i < k /\ c.mem[L[i + 1]].prev = NULL)

(* What a write makes of the list and its size.                            *)
Stored(c, k, L, d, m, new, u) ==
    /\ Chain(d, m + 1, Fronted(new, m, L))
    /\ d.mem[new].url = u
    /\ \A i \in 1 .. m : d.mem[L[i]].url = c.mem[L[i]].url
    /\ Sized(d, m + 1, Fronted(new, m, L))
    /\ IF HasRoom(c, SizeOf[u]) THEN m = k ELSE \E i \in 0 .. k : GivesUp(c, k, L, m, i, SizeOf[u])

LEMMA TotalOfPart ==
    ASSUME NEW c, NEW k, NEW L, Chain(c, k, L), Sized(c, k, L), NEW m \in 0 .. k
    PROVE  /\ Total(c, BlocksOf(m, L)) \in Nat
           /\ Total(c, BlocksOf(0, L)) = 0
<1>1. BlocksOf(m, L) \in SUBSET Blocks /\ \A b \in BlocksOf(m, L) : c.mem[b].url \in Urls
  <2>1. k \in Nat /\ \A i \in 1 .. m : i \in 1 .. k /\ L[i] \in Blocks
    BY DEF Chain
  <2> QED
    BY <2>1 DEF BlocksOf, Sized
<1>2. BlocksOf(0, L) = {}
  BY DEF BlocksOf
<1> QED
  BY <1>1, <1>2, TotalParts

LEMMA EvictionGivesUp ==
    ASSUME NEW c, NEW k, NEW L, Shaped(c), Chain(c, k, L), Sized(c, k, L),
           \A i \in 1 .. k : c.mem[L[i]].refcnt >= 1, NEW size \in Nat
    PROVE  LET n == EvictionEnd(c, size)
               m == IF Backward(c)[n] = NULL THEN 0 ELSE k - n
           IN  GivesUp(c, k, L, m, k - n, size)
<1> DEFINE n == EvictionEnd(c, size)
           m == IF Backward(c)[n] = NULL THEN 0 ELSE k - n
<1>1. /\ n \in 0 .. k
      /\ Backward(c)[n] = NULL \/ (n < k /\ Backward(c)[n] = L[k - n])
      /\ Backward(c)[n] \in c.alloc => EvictedSize(c, n) >= size
      /\ \A j \in 0 .. n - 1 : Backward(c)[j] = L[k - j]
      /\ n > 0 => ~(EvictedSize(c, n - 1) >= size)
  BY EvictionEndIs
<1>2. /\ k \in Nat /\ n \in Steps /\ n \in Nat
      /\ \A i \in 1 .. k : L[i] # NULL /\ L[i] \in c.alloc
      /\ n > 0 => n - 1 \in Steps /\ n - 1 \in 0 .. k
  BY <1>1, ChainParts, StepsAre
<1>3. Backward(c)[n] # NULL
          <=> n < k /\ \A j \in k - n + 1 .. k : c.mem[L[j]].prev # NULL
  BY <1>2, BackwardIs
<1> HIDE DEF n
<1>4. \A x \in 0 .. n : EvictedSize(c, x) \in Nat /\ EvictedSize(c, x) = Behind(c, k, L, k - x)
  <2> TAKE x \in 0 .. n
  <2>1. x \in 0 .. k /\ k - x \in 0 .. k /\ k \in 0 .. k /\ \A j \in 0 .. x - 1 : j \in 0 .. n - 1
    BY <1>1, <1>2
  <2>2. /\ EvictedSize(c, x) \in Nat
        /\ Total(c, BlocksOf(k - x, L)) + EvictedSize(c, x) = Total(c, BlocksOf(k, L))
    BY <1>1, <2>1, EvictedIs DEF Sized
  <2>3. Total(c, BlocksOf(k - x, L)) \in Nat /\ Total(c, BlocksOf(k, L)) \in Nat
    BY <2>1, TotalOfPart
  <2> QED
    BY <2>2, <2>3 DEF Behind
<1>5. k - n < k => Behind(c, k, L, (k - n) + 1) < size
  <2> SUFFICES ASSUME k - n < k PROVE Behind(c, k, L, (k - n) + 1) < size
    OBVIOUS
  <2>1. n > 0 /\ n - 1 \in 0 .. n /\ k - (n - 1) = (k - n) + 1
    BY <1>2
  <2>2. EvictedSize(c, n - 1) \in Nat /\ EvictedSize(c, n - 1) = Behind(c, k, L, (k - n) + 1)
    BY <1>4, <2>1
  <2> QED
    BY <1>1, <2>1, <2>2
<1>6. ASSUME NEW j \in (k - n) + 2 .. k PROVE c.mem[L[j]].prev # NULL
  <2>1. n > 0 /\ n - 1 \in 0 .. n - 1 /\ k - (n - 1) \in 1 .. k /\ j \in k - (n - 1) + 1 .. k
    BY <1>1, <1>2
  <2>2. Backward(c)[n - 1] # NULL
    BY <1>1, <1>2, <2>1
  <2> QED
    BY <1>2, <2>1, <2>2, BackwardIs
<1>7. CASE Backward(c)[n] # NULL
  <2>1. n < k /\ m = k - n /\ k - n \in 1 .. k /\ n \in 0 .. n
    BY <1>1, <1>2, <1>7
  <2>2. Behind(c, k, L, k - n) >= size
    BY <1>1, <1>2, <1>4, <1>7, <2>1
  <2>3. k - n < k => c.mem[L[(k - n) + 1]].prev # NULL
    <3>1. k - n < k => (k - n) + 1 \in k - n + 1 .. k
      BY <1>2
    <3> QED
      BY <1>3, <1>7, <3>1
  <2>4. m # 0
    BY <2>1
  <2> QED
    BY <1>5, <1>6, <2>1, <2>2, <2>3, <2>4 DEF GivesUp, n
<1>8. CASE Backward(c)[n] = NULL
  <2>1. m = 0
    BY <1>8
  <2>2. k - n = 0 \/ (k - n < k /\ c.mem[L[(k - n) + 1]].prev = NULL)
    <3> SUFFICES ASSUME k - n # 0 PROVE k - n < k /\ c.mem[L[(k - n) + 1]].prev = NULL
      OBVIOUS
    <3>1. n < k
      BY <1>1, <1>2
    <3>2. PICK j \in k - n + 1 .. k : c.mem[L[j]].prev = NULL
      BY <1>3, <1>8, <3>1
    <3>3. j \notin (k - n) + 2 .. k
      BY <1>6, <3>2
    <3>4. j = (k - n) + 1 /\ j <= k
      BY <1>2, <3>3
    <3> QED
      BY <1>2, <3>2, <3>4
  <2> QED
    BY <1>5, <1>6, <2>1, <2>2 DEF GivesUp, n
<1> QED
  BY <1>7, <1>8 DEF n

LEMMA WriteStores ==
    ASSUME NEW c, NEW k, NEW L, Shaped(c), Chain(c, k, L), Sized(c, k, L),
           \A i \in 1 .. k : c.mem[L[i]].refcnt >= 1,
           NEW u \in Urls, Cacheable(u), NEW new \in Mallocable(c, SizeOf[u])
    PROVE  \E m \in 0 .. k : Stored(c, k, L, find_cache_to_write(c, u, new), m, new, u)
<1> DEFINE size == SizeOf[u]
           d == find_cache_to_write(c, u, new)
<1>0. /\ size \in Nat /\ size < MAX_CACHE_SIZE /\ MAX_CACHE_SIZE \in Nat
      /\ k \in Nat /\ k \in 0 .. k
  BY CacheAssumption DEF Cacheable, Chain
<1>1. CASE HasRoom(c, size)
  <2>1. /\ Chain(d, k + 1, Fronted(new, k, L))
        /\ d.total_size = c.total_size + size
        /\ \A i \in 1 .. k : L[i] # new /\ d.mem[L[i]].url = c.mem[L[i]].url
        /\ d.mem[new].url = u
    <3>1. /\ Written(c, k, L, d, new, u)
          /\ Chain(d, k + 1, Fronted(new, k, L))
          /\ d.total_size = c.total_size + size
          /\ \A i \in 1 .. k : L[i] # new /\ d.mem[L[i]].url = c.mem[L[i]].url
      BY <1>1, InsertedIs
    <3> QED
      BY <3>1 DEF Written
  <2>2. Total(c, BlocksOf(k, L)) \in Nat /\ c.total_size = Total(c, BlocksOf(k, L))
    BY <1>0, TotalOfPart DEF Sized
  <2> HIDE DEF d
  <2>3. /\ d.total_size = size + Total(c, BlocksOf(k, L))
        /\ d.total_size < MAX_CACHE_SIZE
    BY <1>0, <1>1, <2>1, <2>2 DEF HasRoom
  <2>4. Sized(d, k + 1, Fronted(new, k, L))
    BY <1>0, <2>1, <2>3, FrontedSized
  <2> QED
    BY <1>0, <1>1, <2>1, <2>4 DEF Stored, d
<1>2. CASE ~HasRoom(c, size)
  <2> DEFINE e == evict_cache(c, size, new)
             n == EvictionEnd(c, size)
             temp == Backward(c)[n]
             m == IF temp = NULL THEN 0 ELSE k - n
             evicted == EvictedSize(c, n)
             whole == Total(c, BlocksOf(k, L))
             kept == Total(c, BlocksOf(m, L))
  <2>1. new \in Blocks \ GiveUp(c, n).alloc
    BY <1>2 DEF Mallocable
  <2>2. /\ e.broken = FALSE
        /\ Written(c, k, L, write_to_cache(e, new, u), new, u)
        /\ Evicted(c, k, L, e, write_to_cache(e, new, u), size, new)
    BY <2>1, EvictIs
  <2>3. d = write_to_cache(e, new, u)
    BY <1>2, <2>2 DEF find_cache_to_write
  <2> HIDE DEF d, e
  <2>4. /\ Chain(d, m + 1, Fronted(new, m, L))
        /\ \A i \in 1 .. m : L[i] # new /\ d.mem[L[i]].url = c.mem[L[i]].url
        /\ Shaped(e)
        /\ e.total_size = IF temp = NULL THEN size ELSE Replaced(c.total_size, evicted, size)
    BY <2>2, <2>3 DEF Evicted
  <2>5. d.total_size = e.total_size /\ d.mem[new].url = u /\ new \in Blocks
    BY <2>1, <2>2, <2>3, <2>4, WriteToIs DEF Written
  <2>6. /\ n \in 0 .. k
        /\ \/ Backward(c)[n] = NULL
           \/ n < k /\ Backward(c)[n] = L[k - n]
        /\ Backward(c)[n] \in c.alloc => EvictedSize(c, n) >= size
        /\ \A j \in 0 .. n - 1 : Backward(c)[j] = L[k - j]
    BY EvictionEndIs
  <2> HIDE DEF n
  <2>7. /\ evicted \in Nat
        /\ Total(c, BlocksOf(k - n, L)) + evicted = whole
    BY <2>6, EvictedIs DEF Sized
  <2>8. m \in 0 .. k /\ m <= k
    BY <1>0, <2>6
  <2>9. whole \in Nat /\ kept \in Nat /\ Total(c, BlocksOf(0, L)) = 0 /\ c.total_size = whole
        /\ c.total_size < MAX_CACHE_SIZE
    <3> HIDE DEF m
    <3> QED
      BY <1>0, <2>8, TotalOfPart DEF Sized
  <2>10. /\ d.total_size = size + kept
         /\ d.total_size < MAX_CACHE_SIZE
    <3>1. CASE temp = NULL
      <4>1. m = 0 /\ kept = 0
        BY <3>1, <2>9
      <4>2. d.total_size = size
        BY <3>1, <2>4, <2>5
      <4> HIDE DEF m, kept
      <4> QED
        BY <1>0, <4>1, <4>2
    <3>2. CASE temp # NULL
      <4>1. m = k - n /\ evicted >= size
        <5>1. k - n \in 1 .. k
          BY <1>0, <3>2, <2>6
        <5> QED
          BY <3>2, <2>6, <5>1, ChainParts
      <4>2. kept + evicted = whole
        BY <2>7, <4>1
      <4>3. d.total_size = c.total_size - (evicted - size)
        BY <3>2, <2>4, <2>5 DEF Replaced
      <4> HIDE DEF m, kept, evicted, whole
      <4> QED
        BY <1>0, <2>7, <2>9, <4>1, <4>2, <4>3
    <3> QED
      BY <3>1, <3>2
  <2>13. k - n \in 0 .. k /\ GivesUp(c, k, L, m, k - n, size)
    <3>1. GivesUp(c, k, L, m, k - n, size)
      BY <1>0, EvictionGivesUp DEF n
    <3> QED
      BY <1>0, <2>6, <3>1
  <2> HIDE DEF m
  <2>11. Sized(d, m + 1, Fronted(new, m, L))
    BY <2>4, <2>5, <2>8, <2>10, FrontedSized
  <2>12. Stored(c, k, L, d, m, new, u)
    BY <1>2, <2>4, <2>5, <2>11, <2>13 DEF Stored
  <2> QED
    BY <2>8, <2>12 DEF d
<1> QED
  BY <1>1, <1>2

LEMMA WriteStep ==
    ASSUME IInv, NEW t \in Threads, Write(t)
    PROVE  IInv'
<1>1. PICK k, L : Chain(cache, k, L) /\ Refs(k, L)
  BY DEF IInv, ListInv
<1>2. /\ pc[t] = "write" /\ pc' = [pc EXCEPT ![t] = "idle"]
      /\ uri' = uri /\ find_block' = find_block
      /\ answer' = [answer EXCEPT ![t] = uri[t]]
  BY DEF Write, At, Goto
<1>3. Shaped(cache) /\ ThreadInv /\ uri[t] \in Urls
  BY <1>2 DEF IInv, ThreadInv
<1>4. SameReaders
  <2>1. \A s \in Threads \ {t} : find_block'[s] = find_block[s]
    BY <1>2
  <2> QED
    BY <1>2, <1>3, <2>1, OtherReaders
<1>5. CASE cache' = cache
  <2>1. ThreadInv'
    BY <1>2, <1>3, <1>5 DEF ThreadInv
  <2> QED
    BY <1>4, <1>5, <2>1, CacheFrame
<1>6. ASSUME NEW new \in Mallocable(cache, SizeOf[uri[t]]),
             cache' = Forget(find_cache_to_write(cache, uri[t], new), Held)
      PROVE  IInv'
  <2> DEFINE d == find_cache_to_write(cache, uri[t], new)
             u == uri[t]
  <2>1. /\ k \in Nat
        /\ \A i \in 1 .. k : L[i] \in Blocks /\ L[i] \in cache.alloc
        /\ \A i \in 1 .. k : cache.mem[L[i]].refcnt = 1 + Cardinality(Readers(L[i]))
        /\ \A i \in 1 .. k : cache.mem[L[i]].refcnt >= 1
    <3>1. \A i \in 1 .. k : cache.mem[L[i]].refcnt = 1 + Cardinality(Readers(L[i]))
      BY <1>1 DEF Refs
    <3>2. \A i \in 1 .. k : Cardinality(Readers(L[i])) \in Nat
      BY ReadersFinite
    <3> QED
      BY <1>1, <3>1, <3>2, ChainParts
  <2>2. Written(cache, k, L, d, new, uri[t])
    BY <1>1, <1>3, <1>6, <2>1, WriteIs
  <2>3. Shaped(d) /\ Held \subseteq Links
    BY <1>3, <2>2 DEF Written, Held, ThreadInv
  <2>4. PICK m \in 0 .. k :
            /\ Chain(d, m + 1, Fronted(new, m, L))
            /\ \A i \in 1 .. m : L[i] # new /\ d.mem[L[i]].refcnt = cache.mem[L[i]].refcnt
    BY <2>2 DEF Written
  <2> DEFINE M == Fronted(new, m, L)
  <2>5. /\ Shaped(cache') /\ Chain(cache', m + 1, M)
        /\ \A x \in d.alloc : (x \in Held \/ \E i \in 1 .. m + 1 : x = M[i])
                => x \in cache'.alloc /\ cache'.mem[x] = d.mem[x]
    BY <1>6, <2>3, <2>4, ForgetIs
  <2>6. /\ new \in Blocks
        /\ new \in cache.alloc => (\E i \in 1 .. k : new = L[i]) /\ cache.mem[new].refcnt = 1
        /\ d.mem[new].url = uri[t] /\ d.mem[new].refcnt = 1
        /\ \A x \in cache.alloc :
              x # new /\ ((\E i \in 1 .. k : x = L[i]) => cache.mem[x].refcnt # 1)
                 => /\ x \in d.alloc
                    /\ d.mem[x].url = cache.mem[x].url
                    /\ d.mem[x].refcnt = cache.mem[x].refcnt
                       \/ /\ \E i \in 1 .. k : x = L[i]
                          /\ d.mem[x].refcnt = cache.mem[x].refcnt - 1
    BY <2>2 DEF Written
  <2> HIDE DEF d
  <2>7. ASSUME NEW x \in Blocks, Readers(x) # {}
        PROVE  /\ x # new /\ x \in cache'.alloc
               /\ cache'.mem[x].url = cache.mem[x].url
               /\ cache'.mem[x].refcnt >= Cardinality(Readers(x))
    <3>1. /\ x \in cache.alloc /\ cache.mem[x].refcnt >= Cardinality(Readers(x))
          /\ Cardinality(Readers(x)) \in Nat /\ Cardinality(Readers(x)) # 0
          /\ cache.mem[x].refcnt \in Nat
      BY <1>1, <1>3, <2>7, ReadersFinite DEF Refs, Shaped, Block
    <3>2. (\E i \in 1 .. k : x = L[i]) =>
              /\ cache.mem[x].refcnt = 1 + Cardinality(Readers(x))
              /\ cache.mem[x].refcnt # 1
      BY <2>1, <3>1
    <3>3. x # new
      BY <2>6, <3>1, <3>2
    <3>4. /\ x \in d.alloc
          /\ d.mem[x].url = cache.mem[x].url
          /\ \/ d.mem[x].refcnt = cache.mem[x].refcnt
             \/ /\ \E i \in 1 .. k : x = L[i]
                /\ d.mem[x].refcnt = cache.mem[x].refcnt - 1
      BY <2>6, <3>1, <3>2, <3>3
    <3>5. x \in Held
      BY <2>7 DEF Readers, Held
    <3>6. d.mem[x].refcnt >= Cardinality(Readers(x))
      BY <3>1, <3>2, <3>4
    <3> QED
      BY <2>5, <3>3, <3>4, <3>5, <3>6
  <2>8. ASSUME NEW j \in 1 .. m + 1
        PROVE  cache'.mem[M[j]].refcnt = 1 + Cardinality(Readers(M[j]))
    <3>1. M[j] = IF j = 1 THEN new ELSE L[j - 1]
      BY DEF Fronted
    <3>2. M[j] \in d.alloc
      BY <2>4 DEF Chain
    <3>3. cache'.mem[M[j]] = d.mem[M[j]]
      BY <2>5, <3>2
    <3>4. CASE j = 1
      <4>1. Readers(new) = {}
        BY <2>6, <2>7
      <4>2. Cardinality(Readers(new)) = 0
        BY <4>1, ReadersFinite
      <4> QED
        BY <2>6, <3>1, <3>3, <3>4, <4>2
    <3>5. CASE j # 1
      <4>1. j - 1 \in 1 .. m /\ j - 1 \in 1 .. k /\ M[j] = L[j - 1]
        BY <2>1, <3>1, <3>5
      <4> QED
        BY <2>1, <2>4, <3>3, <4>1
    <3> QED
      BY <3>4, <3>5
  <2>9. \A x \in Blocks : Readers(x)' = Readers(x)
    BY <1>4 DEF SameReaders
  <2> HIDE DEF M
  <2>10. Refs(m + 1, M)'
    <3>1. \A x \in Blocks : Readers(x)' # {} =>
              x \in cache'.alloc /\ cache'.mem[x].refcnt >= Cardinality(Readers(x)')
      BY <2>7, <2>9
    <3>2. \A j \in 1 .. m + 1 : M[j] \in Blocks
      BY <2>5 DEF Chain
    <3>3. \A j \in 1 .. m + 1 : cache'.mem[M[j]].refcnt = 1 + Cardinality(Readers(M[j])')
      BY <2>8, <2>9, <3>2
    <3> QED
      BY <3>1, <3>3 DEF Refs
  <2>11. ThreadInv'
    <3>1. ASSUME NEW s \in Threads, pc'[s] \in {"send", "release"}
          PROVE  find_block[s] \in Blocks /\ cache'.mem[find_block[s]].url = uri[s]
      <4>1. s # t /\ pc[s] \in {"send", "release"}
        BY <1>2, <1>3, <3>1 DEF ThreadInv
      <4>2. find_block[s] \in Blocks /\ cache.mem[find_block[s]].url = uri[s]
        BY <1>3, <4>1 DEF ThreadInv
      <4>3. Readers(find_block[s]) # {}
        BY <4>1 DEF Readers
      <4> QED
        BY <2>7, <4>2, <4>3
    <3>2. pc' \in [Threads -> {"idle", "find", "fetch", "refind", "write",
                               "read", "send", "release"}]
          /\ \A s \in Threads : pc'[s] # "idle" => pc[s] # "idle"
      BY <1>2, <1>3 DEF ThreadInv
    <3>3. answer' \in [Threads -> Urls \cup {NULL}]
          /\ \A s \in Threads : answer'[s] \in {NULL, uri[s]}
      BY <1>2, <1>3 DEF ThreadInv
    <3> QED
      BY <1>2, <1>3, <3>1, <3>2, <3>3 DEF ThreadInv
  <2> QED
    BY <2>5, <2>10, <2>11 DEF IInv, ListInv
<1> QED
  BY <1>5, <1>6 DEF Write

(* With room for it, the response only goes in front of the list.          *)
LEMMA WriteKeepsWhole ==
    ASSUME IInv, NEW t \in Threads, Write(t), HasRoom(cache, SizeOf[uri[t]])
    PROVE  cache' = cache \/ KeepsWhole
<1>1. PICK k, L : Chain(cache, k, L)
  BY DEF IInv, ListInv
<1>2. Shaped(cache) /\ uri[t] \in Urls /\ Held \subseteq Links
  BY DEF IInv, ThreadInv, Write, At, Held
<1> SUFFICES ASSUME NEW new \in Mallocable(cache, SizeOf[uri[t]]),
                    cache' = Forget(find_cache_to_write(cache, uri[t], new), Held)
             PROVE  KeepsWhole
  BY DEF Write
<1> DEFINE d == find_cache_to_write(cache, uri[t], new)
<1>3. /\ Shaped(d) /\ Chain(d, k + 1, Fronted(new, k, L))
      /\ Whole(cache, k, L) => Whole(d, k + 1, Fronted(new, k, L))
  BY <1>1, <1>2, InsertedIs
<1>4. /\ Chain(cache', k + 1, Fronted(new, k, L))
      /\ Whole(d, k + 1, Fronted(new, k, L)) => Whole(cache', k + 1, Fronted(new, k, L))
  <2> HIDE DEF d
  <2> QED
    BY <1>2, <1>3, ForgetIs DEF d
<1> QED
  BY <1>1, <1>3, <1>4 DEF KeepsWhole

-----------------------------------------------------------------------------
(* What a step makes of the list and of its size: it stays, a block of it  *)
(* is moved to the front, or a response is put in front of a part of it.   *)
LEMMA SizedSame ==
    ASSUME NEW c, NEW k, NEW L, Chain(c, k, L), Sized(c, k, L),
           NEW d, NEW M, M \in [1 .. k -> Blocks], BlocksOf(k, M) = BlocksOf(k, L),
           \A b \in BlocksOf(k, L) : d.mem[b].url = c.mem[b].url,
           d.total_size = c.total_size
    PROVE  Sized(d, k, M)
<1> DEFINE S == BlocksOf(k, L)
<1>1. S \in SUBSET Blocks /\ \A b \in S : c.mem[b].url \in Urls /\ d.mem[b].url = c.mem[b].url
  <2>1. \A i \in 1 .. k : L[i] \in Blocks /\ c.mem[L[i]].url \in Urls
    BY DEF Chain, Sized
  <2> QED
    BY <2>1 DEF BlocksOf
<1>2. \A i \in 1 .. k : M[i] \in S
  BY DEF BlocksOf
<1> HIDE DEF S
<1>3. Total(d, S) = Total(c, S)
  BY <1>1, TotalSame
<1> QED
  BY <1>1, <1>2, <1>3 DEF Sized, S

Arranged(k, L, M) ==
    /\ M \in {L} \cup {Raised(i, k, L) : i \in 1 .. k}
    /\ Chain(cache', k, M) /\ Sized(cache', k, M)
    /\ \A i \in 1 .. k : cache'.mem[L[i]].url = cache.mem[L[i]].url

CachedOf(k, L, u) ==
    /\ Cacheable(u)
    /\ \E m \in 0 .. k, new \in Blocks : Stored(cache, k, L, cache', m, new, u)

Cached(k, L) == \E u \in Urls : CachedOf(k, L, u)

LEMMA ListStays ==
    ASSUME NEW k, NEW L, Chain(cache, k, L), Sized(cache, k, L), cache' = cache
    PROVE  Arranged(k, L, L)
BY DEF Arranged, Chain, Sized, Total

LEMMA ListRead ==
    ASSUME IInv, NEW t \in Threads, Read(t), find_block[t] \in Listed(cache),
           NEW k, NEW L, Chain(cache, k, L), Sized(cache, k, L)
    PROVE  \E i \in 1 .. k :
              /\ L[i] = find_block[t]
              /\ Arranged(k, L, IF cache.mem[L[i]].prev = NULL THEN L ELSE Raised(i, k, L))
<1> DEFINE b == find_block[t]
           moved == move_to_first(cache, b)
<1>1. Shaped(cache) /\ \A i \in 1 .. k : L[i] \in Blocks /\ L[i] \in cache.alloc
  BY ChainParts DEF IInv
<1>2. PICK i \in 1 .. k : b = L[i]
  BY ListedIs DEF BlocksOf
<1>3. /\ Shaped(moved) /\ moved.alloc = cache.alloc
      /\ \A x \in Blocks : moved.mem[x].url = cache.mem[x].url
      /\ \E M \in {L, Raised(i, k, L)} :
            /\ Chain(moved, k, M) /\ BlocksOf(k, M) = BlocksOf(k, L)
            /\ M = IF cache.mem[L[i]].prev = NULL THEN L ELSE Raised(i, k, L)
  <2> DEFINE d == move_to_first(cache, L[i])
  <2>1. /\ Shaped(d) /\ d.alloc = cache.alloc
        /\ \A x \in Blocks : d.mem[x].url = cache.mem[x].url
        /\ \E M \in {L, Raised(i, k, L)} :
              /\ Chain(d, k, M) /\ BlocksOf(k, M) = BlocksOf(k, L)
              /\ M = IF cache.mem[L[i]].prev = NULL THEN L ELSE Raised(i, k, L)
    BY <1>1, MoveIs
  <2>2. moved = d
    BY <1>2
  <2> HIDE DEF d, moved
  <2> QED
    BY <2>1, <2>2
<1>4. moved.total_size = cache.total_size
  BY <1>1, MoveTotal
<1>5. PICK M \in {L, Raised(i, k, L)} :
          /\ Chain(moved, k, M) /\ BlocksOf(k, M) = BlocksOf(k, L)
          /\ M = IF cache.mem[L[i]].prev = NULL THEN L ELSE Raised(i, k, L)
  BY <1>3
<1>6. cache' = increref(moved, b)
  <2>1. ~moved.broken
    BY <1>3 DEF Shaped
  <2> QED
    BY <2>1 DEF Read
<1> HIDE DEF moved
<1>7. b \in moved.alloc
  BY <1>1, <1>2, <1>3
<1>8. /\ cache'.head = moved.head /\ cache'.tail = moved.tail
      /\ cache'.alloc = moved.alloc /\ cache'.total_size = moved.total_size
      /\ \A x \in Blocks : /\ cache'.mem[x].next = moved.mem[x].next
                           /\ cache'.mem[x].prev = moved.mem[x].prev
                           /\ cache'.mem[x].url = moved.mem[x].url
  BY <1>3, <1>6, <1>7, IncrefIs
<1>9. Chain(cache', k, M)
  <2>1. \A j \in 1 .. k : M[j] \in Blocks /\ M[j] \in moved.alloc
    BY <1>5, ChainParts
  <2> QED
    BY <2>1, <1>5, <1>8, ChainFrame
<1>10. \A j \in 1 .. k : cache'.mem[L[j]].url = cache.mem[L[j]].url
  BY <1>1, <1>3, <1>8
<1>11. Sized(cache', k, M)
  <2>1. M \in [1 .. k -> Blocks]
    BY <1>5 DEF Chain
  <2>2. \A x \in BlocksOf(k, L) : cache'.mem[x].url = cache.mem[x].url
    BY <1>10 DEF BlocksOf
  <2>3. cache'.total_size = cache.total_size
    BY <1>4, <1>8
  <2> QED
    BY <1>5, <2>1, <2>2, <2>3, SizedSame
<1>12. Arranged(k, L, M)
  BY <1>5, <1>9, <1>10, <1>11 DEF Arranged
<1> QED
  BY <1>2, <1>5, <1>12

LEMMA ListReleased ==
    ASSUME IInv, NEW t \in Threads, Release(t),
           NEW k, NEW L, Chain(cache, k, L), Sized(cache, k, L)
    PROVE  Arranged(k, L, L)
<1> DEFINE b == find_block[t]
<1>1. b \in cache.alloc /\ b \in Blocks /\ Shaped(cache) /\ t \in Readers(b)
      /\ cache.mem[b].refcnt >= Cardinality(Readers(b)) /\ cache' = decreref(cache, b)
  BY HasReference DEF Release, At, IInv
<1>2. cache.mem[b].refcnt \in Nat /\ Cardinality(Readers(b)) \in Nat
      /\ Cardinality(Readers(b)) # 0
  BY <1>1, ReadersFinite DEF Shaped, Block
<1>3. \A i \in 1 .. k : cache.mem[L[i]].refcnt = 1 + Cardinality(Readers(L[i]))
  <2>1. PICK j, M : Chain(cache, j, M) /\ Refs(j, M)
    BY DEF IInv, ListInv
  <2>2. M = L /\ j = k
    BY <2>1, ListIs
  <2> QED
    BY <2>1, <2>2 DEF Refs
<1>4. /\ cache'.head = cache.head /\ cache'.tail = cache.tail
      /\ cache'.total_size = cache.total_size
      /\ cache'.alloc = IF cache.mem[b].refcnt = 1 THEN cache.alloc \ {b} ELSE cache.alloc
      /\ \A x \in Blocks : x # b => cache'.mem[x] = cache.mem[x]
      /\ cache.mem[b].refcnt # 1 => /\ cache'.mem[b].next = cache.mem[b].next
                                    /\ cache'.mem[b].prev = cache.mem[b].prev
                                    /\ cache'.mem[b].url = cache.mem[b].url
  <2>1. cache.mem[b].refcnt >= 1
    BY <1>1, <1>2
  <2> QED
    BY <1>1, <2>1, DecrefIs
<1>5. (\E i \in 1 .. k : L[i] = b) => cache.mem[b].refcnt # 1
  BY <1>2, <1>3
<1>6. \A i \in 1 .. k : /\ L[i] \in cache'.alloc
                       /\ cache'.mem[L[i]].next = cache.mem[L[i]].next
                       /\ cache'.mem[L[i]].prev = cache.mem[L[i]].prev
                       /\ cache'.mem[L[i]].url = cache.mem[L[i]].url
  <2>1. \A i \in 1 .. k : L[i] \in Blocks /\ L[i] \in cache.alloc
    BY ChainParts
  <2> QED
    BY <1>4, <1>5, <2>1
<1>7. Chain(cache', k, L)
  BY <1>4, <1>6, ChainFrame
<1>8. Sized(cache', k, L)
  <2>1. L \in [1 .. k -> Blocks] /\ \A x \in BlocksOf(k, L) : cache'.mem[x].url = cache.mem[x].url
    BY <1>6 DEF BlocksOf, Chain
  <2> QED
    BY <1>4, <2>1, SizedSame
<1> QED
  BY <1>6, <1>7, <1>8 DEF Arranged

LEMMA ListWritten ==
    ASSUME IInv, NEW t \in Threads, Write(t),
           NEW k, NEW L, Chain(cache, k, L), Sized(cache, k, L)
    PROVE  IF Cacheable(uri[t]) THEN CachedOf(k, L, uri[t]) ELSE cache' = cache
<1>2. ASSUME Cacheable(uri[t]), NEW new \in Mallocable(cache, SizeOf[uri[t]]),
             cache' = Forget(find_cache_to_write(cache, uri[t], new), Held)
      PROVE  CachedOf(k, L, uri[t])
  <2> DEFINE d == find_cache_to_write(cache, uri[t], new)
  <2>1. /\ Shaped(cache) /\ uri[t] \in Urls /\ Held \subseteq Links /\ k \in Nat
        /\ new \in Blocks
    BY DEF IInv, ThreadInv, Write, At, Held, Chain, Mallocable
  <2>2. \A i \in 1 .. k : cache.mem[L[i]].refcnt >= 1
    <3>1. PICK j, M : Chain(cache, j, M) /\ Refs(j, M)
      BY DEF IInv, ListInv
    <3>2. M = L /\ j = k
      BY <3>1, ListIs
    <3>3. \A i \in 1 .. k : /\ cache.mem[L[i]].refcnt = 1 + Cardinality(Readers(L[i]))
                            /\ Cardinality(Readers(L[i])) \in Nat
      BY <3>1, <3>2, ReadersFinite DEF Refs
    <3> QED
      BY <3>3
  <2>3. Written(cache, k, L, d, new, uri[t])
    BY <2>1, <2>2, WriteIs
  <2>4. PICK m \in 0 .. k : Stored(cache, k, L, d, m, new, uri[t])
    BY <1>2, <2>1, <2>2, WriteStores
  <2> HIDE DEF d
  <2>5. Shaped(d) /\ Chain(d, m + 1, Fronted(new, m, L)) /\ Sized(d, m + 1, Fronted(new, m, L))
    BY <2>3, <2>4 DEF Written, Stored
  <2> DEFINE M == Fronted(new, m, L)
  <2>6. /\ Chain(cache', m + 1, M)
        /\ \A x \in d.alloc : (\E i \in 1 .. m + 1 : x = M[i]) => cache'.mem[x] = d.mem[x]
        /\ cache'.total_size = d.total_size
    BY <1>2, <2>1, <2>5, ForgetIs DEF d
  <2>7. \A i \in 1 .. m + 1 : M[i] \in d.alloc /\ cache'.mem[M[i]] = d.mem[M[i]]
    BY <2>5, <2>6, ChainParts
  <2>8. Sized(cache', m + 1, M)
    <3>1. M \in [1 .. m + 1 -> Blocks]
      BY <2>5 DEF Chain
    <3>2. \A x \in BlocksOf(m + 1, M) : cache'.mem[x].url = d.mem[x].url
      BY <2>7 DEF BlocksOf
    <3> HIDE DEF M
    <3> QED
      BY <2>5, <2>6, <3>1, <3>2, SizedSame DEF M
  <2>9. /\ cache'.mem[new].url = uri[t]
        /\ \A i \in 1 .. m : cache'.mem[L[i]].url = cache.mem[L[i]].url
    <3>1. /\ d.mem[new].url = uri[t] /\ m \in Nat
          /\ \A i \in 1 .. m : d.mem[L[i]].url = cache.mem[L[i]].url
      BY <2>1, <2>4 DEF Stored
    <3>2. /\ 1 \in 1 .. m + 1 /\ M[1] = new
          /\ \A i \in 1 .. m : i + 1 \in 1 .. m + 1 /\ M[i + 1] = L[i]
      BY <3>1 DEF Fronted
    <3> HIDE DEF M
    <3>3. cache'.mem[new] = d.mem[new] /\ \A i \in 1 .. m : cache'.mem[L[i]] = d.mem[L[i]]
      BY <2>7, <3>2
    <3> QED
      BY <3>1, <3>3
  <2>10. Stored(cache, k, L, cache', m, new, uri[t])
    BY <2>4, <2>6, <2>8, <2>9 DEF Stored
  <2> QED
    BY <1>2, <2>1, <2>10 DEF CachedOf
<1> QED
  BY <1>2 DEF Write

LEMMA ListStep ==
    ASSUME IInv, FoundStaysListed, [Next]_vars,
           NEW k, NEW L, Chain(cache, k, L), Sized(cache, k, L)
    PROVE  (\E M : Arranged(k, L, M)) \/ Cached(k, L)
<1>1. CASE cache' = cache
  BY <1>1, ListStays
<1>2. ASSUME NEW t \in Threads, Find(t) \/ Refind(t) \/ Send(t)
      PROVE  cache' = cache
  BY <1>2, LookStep, SendStep DEF Find, Refind, At
<1>3. ASSUME NEW t \in Threads, Read(t)
      PROVE  \E M : Arranged(k, L, M)
  BY <1>3, ListRead DEF FoundStaysListed, Read, At
<1>4. ASSUME NEW t \in Threads, Release(t)
      PROVE  \E M : Arranged(k, L, M)
  BY <1>4, ListReleased
<1>5. ASSUME NEW t \in Threads, Write(t)
      PROVE  Arranged(k, L, L) \/ Cached(k, L)
  <2>1. uri[t] \in Urls
    BY <1>5 DEF IInv, ThreadInv, Write, At
  <2> QED
    BY <1>5, <2>1, ListWritten, ListStays DEF Cached
<1>6. CASE Next
  BY <1>1, <1>2, <1>3, <1>4, <1>5, <1>6 DEF Next, Accept, FetchFails, Fetch
<1>7. CASE UNCHANGED vars
  BY <1>1, <1>7 DEF vars
<1> QED
  BY <1>6, <1>7

-----------------------------------------------------------------------------
(* No step breaks the invariant as long as a block found is still listed   *)
(* when it is read.                                                        *)
LEMMA EveryStep ==
    ASSUME IInv, FoundStaysListed, [Next]_vars
    PROVE  IInv'
<1>1. CASE UNCHANGED vars
  <2>1. cache' = cache /\ SameReaders
    BY <1>1 DEF vars, SameReaders, Readers
  <2>2. ThreadInv'
    BY <1>1 DEF vars, IInv, ThreadInv
  <2> QED
    BY <2>1, <2>2, CacheFrame
<1>2. ASSUME NEW t \in Threads, NEW u \in Urls, Accept(t, u)
      PROVE  IInv'
  BY <1>2, AcceptStep
<1>3. ASSUME NEW t \in Threads, Find(t)
      PROVE  IInv'
  BY <1>3, LookStep DEF Find, At
<1>4. ASSUME NEW t \in Threads, Refind(t)
      PROVE  IInv'
  BY <1>4, LookStep DEF Refind, At
<1>5. ASSUME NEW t \in Threads, FetchFails(t) \/ Fetch(t)
      PROVE  IInv'
  BY <1>5, FetchStep
<1>6. ASSUME NEW t \in Threads, Write(t)
      PROVE  IInv'
  BY <1>6, WriteStep
<1>7. ASSUME NEW t \in Threads, Read(t)
      PROVE  IInv'
  BY <1>7, ReadStep DEF FoundStaysListed, Read, At
<1>8. ASSUME NEW t \in Threads, Send(t)
      PROVE  IInv'
  BY <1>8, SendStep
<1>9. ASSUME NEW t \in Threads, Release(t)
      PROVE  IInv'
  BY <1>9, ReleaseStep
<1> QED
  BY <1>1, <1>2, <1>3, <1>4, <1>5, <1>6, <1>7, <1>8, <1>9 DEF Next

(* The other half of the invariant: the size of the list.                  *)
SumInv == Sized(cache, Len(List), List)

LEMMA SumIs ==
    ASSUME NEW k, NEW L
    PROVE  /\ Chain(cache, k, L) => (SumInv <=> Sized(cache, k, L))
           /\ Chain(cache', k, L) => (SumInv' <=> Sized(cache', k, L))
<1>1. Chain(cache, k, L) => (SumInv <=> Sized(cache, k, L))
  BY ListIs DEF SumInv
<1>2. SumInv' <=> Sized(cache', Len(List'), List')
  BY DEF SumInv
<1>3. Chain(cache', k, L) => (SumInv' <=> Sized(cache', k, L))
  BY <1>2, ListIs
<1> QED
  BY <1>1, <1>3

LEMMA SumInitially == Init => SumInv
<1> SUFFICES ASSUME Init PROVE SumInv
  OBVIOUS
<1>1. Chain(cache, 0, <<>>) /\ cache.total_size = 0
  BY DEF Init, init_cache, Chain
<1>2. BlocksOf(0, <<>>) = {}
  BY DEF BlocksOf
<1>3. Total(cache, {}) = 0
  BY TotalParts
<1>4. Sized(cache, 0, <<>>)
  BY <1>1, <1>2, <1>3, CacheAssumption DEF Sized
<1> QED
  BY <1>1, <1>4, SumIs

LEMMA SumStep ==
    ASSUME IInv, SumInv, FoundStaysListed, [Next]_vars
    PROVE  SumInv'
<1>1. PICK k, L : Chain(cache, k, L)
  BY DEF IInv, ListInv
<1>2. Sized(cache, k, L)
  BY <1>1, SumIs
<1>3. (\E M : Arranged(k, L, M)) \/ Cached(k, L)
  BY <1>1, <1>2, ListStep
<1>4. ASSUME NEW M, Arranged(k, L, M)
      PROVE  SumInv'
  BY <1>4, SumIs DEF Arranged
<1>5. ASSUME Cached(k, L)
      PROVE  SumInv'
  <2>1. PICK m \in 0 .. k, new \in Blocks, u \in Urls :
            Stored(cache, k, L, cache', m, new, u)
    BY <1>5 DEF Cached, CachedOf
  <2>2. Chain(cache', m + 1, Fronted(new, m, L)) /\ Sized(cache', m + 1, Fronted(new, m, L))
    BY <2>1 DEF Stored
  <2> QED
    BY <2>2, SumIs
<1> QED
  BY <1>3, <1>4, <1>5

LEMMA SumConsequences ==
    ASSUME IInv, SumInv
    PROVE  TotalIsSum /\ TypeOK
<1>1. PICK k, L : Chain(cache, k, L)
  BY DEF IInv, ListInv
<1>2. Sized(cache, k, L) /\ Listed(cache) = BlocksOf(k, L)
  BY <1>1, SumIs, ListedIs
<1>3. cache.total_size = Total(cache, Listed(cache)) /\ cache.total_size < MAX_CACHE_SIZE
  BY <1>2 DEF Sized
<1>4. TotalIsSum
  BY <1>3 DEF TotalIsSum, Total
<1>5. k \in Nat /\ k \in 0 .. k
  BY <1>1 DEF Chain
<1>6. cache.total_size \in Nat
  BY <1>1, <1>2, <1>5, TotalOfPart DEF Sized
<1>7. cache.head \in Links /\ cache.tail \in Links
  BY <1>1, <1>5 DEF Chain, Links
<1>8. cache \in Cache
  BY <1>6, <1>7 DEF IInv, Shaped, Cache
<1>9. TypeOK
  BY <1>8 DEF TypeOK, IInv, ThreadInv
<1> QED
  BY <1>4, <1>9

(* What the invariant is for.                                              *)
LEMMA Consequences ==
    ASSUME IInv
    PROVE  MemorySafe /\ ChainSound /\ RefcntCountsReaders /\ AnswersBelong
<1>1. PICK k, L : Chain(cache, k, L) /\ Refs(k, L)
  BY DEF IInv, ListInv
<1>2. MemorySafe
  BY DEF IInv, Shaped, MemorySafe
<1>3. List = L /\ Len(List) = k /\ DOMAIN L = 1 .. k /\ k \in Nat
  BY <1>1, ListIs DEF Chain
<1>4. Listed(cache) = BlocksOf(k, L) /\ Cardinality(Listed(cache)) = k
  BY <1>1, ListedIs, ChainIsShort
<1>5. ChainSound
  <2>1. Listed(cache) \subseteq cache.alloc
    BY <1>1, <1>4, ChainParts DEF BlocksOf
  <2>2. List = <<>> <=> k = 0
    BY <1>3
  <2>3. cache.tail = IF List = <<>> THEN NULL ELSE List[Len(List)]
    BY <1>1, <1>3, <2>2 DEF Chain
  <2>4. \A n \in DOMAIN List : cache.mem[List[n]].prev
                               \in {NULL, IF n = 1 THEN NULL ELSE List[n - 1]}
    BY <1>1, <1>3 DEF Chain
  <2> QED
    BY <1>3, <1>4, <2>1, <2>3, <2>4 DEF ChainSound
<1>6. RefcntCountsReaders
  <2>1. \A b \in Listed(cache) : cache.mem[b].refcnt = 1 + Cardinality(Readers(b))
    BY <1>1, <1>4 DEF Refs, BlocksOf
  <2>2. \A t \in Threads : pc[t] \in {"send", "release"} => find_block[t] \in cache.alloc
    BY HasReference
  <2> QED
    BY <2>1, <2>2 DEF RefcntCountsReaders
<1>7. AnswersBelong
  BY DEF IInv, ThreadInv, AnswersBelong
<1> QED
  BY <1>2, <1>5, <1>6, <1>7

(* For any threads, blocks and URLs: while every block that find_cache     *)
(* returned is still in the list when read_from_cache gets the mutex, no   *)
(* thread touches freed memory, the list stays a list, the references and  *)
(* the size are right, and every client gets what it asked for.            *)
THEOREM SafeWhileFresh == Spec => SoundWhileFresh
<1>1. Init => IInv /\ SumInv
  BY Initially, SumInitially
<1>2. IInv /\ SumInv /\ FoundStaysListed /\ [Next]_vars => IInv' /\ SumInv'
  BY EveryStep, SumStep
<1>3. IInv /\ SumInv => Sound
  BY Consequences, SumConsequences DEF Sound
<1> QED
  BY <1>1, <1>2, <1>3, PTL DEF Spec, SoundWhileFresh

-----------------------------------------------------------------------------
(* One connection at a time: nobody can get in between.                    *)
LEMMA StaysFresh ==
    ASSUME \A s, t \in Threads : s = t, IInv, FoundStaysListed, [Next]_vars
    PROVE  FoundStaysListed'
<1>1. CASE UNCHANGED vars
  BY <1>1 DEF vars, FoundStaysListed, Listed, Forward
<1>2. ASSUME NEW t \in Threads, pc'[t] # "read"
      PROVE  FoundStaysListed'
  BY <1>2 DEF FoundStaysListed
<1>3. ASSUME NEW t \in Threads, NEW missing \in {"fetch", "write"},
             pc[t] \in {"find", "refind"}, Look(t, "read", missing)
      PROVE  FoundStaysListed'
  <2>1. /\ cache' = cache /\ find_block'[t] \in Listed(cache) \cup {NULL}
        /\ pc'[t] = "read" => find_block'[t] # NULL /\ cache.mem[find_block'[t]].url = uri[t]
    BY <1>3, LookStep
  <2>2. uri' = uri /\ Listed(cache)' = Listed(cache)
    BY <1>3, <2>1 DEF Look
  <2> QED
    BY <2>1, <2>2 DEF FoundStaysListed
<1>4. ASSUME NEW t \in Threads,
             (\E u \in Urls : Accept(t, u)) \/ FetchFails(t) \/ Fetch(t) \/ Write(t)
             \/ Read(t) \/ Send(t) \/ Release(t)
      PROVE  pc'[t] # "read"
  BY <1>4 DEF Accept, FetchFails, Fetch, Write, Read, Send, Release, Goto, IInv, ThreadInv
<1> QED
  BY <1>1, <1>2, <1>3, <1>4 DEF Next, Find, Refind, At

LEMMA OneConnection ==
    ASSUME \A s, t \in Threads : s = t
    PROVE  Spec => [](IInv /\ SumInv /\ FoundStaysListed)
<1>1. Init => IInv /\ SumInv /\ FoundStaysListed
  BY Initially, SumInitially DEF Init, FoundStaysListed
<1>2. IInv /\ SumInv /\ FoundStaysListed /\ [Next]_vars
          => IInv' /\ SumInv' /\ FoundStaysListed'
  BY EveryStep, SumStep, StaysFresh
<1> QED
  BY <1>1, <1>2, PTL DEF Spec

(* The cache, the threads' places, URLs, blocks and answers have their     *)
(* types; in particular total_size, a size_t from which evict_cache         *)
(* subtracts, never wraps below 0.                                         *)
THEOREM OneConnectionTypeCorrect ==
    ASSUME \A s, t \in Threads : s = t
    PROVE  Spec => []TypeOK
BY OneConnection, SumConsequences, PTL

(* total_size is the sum of the sizes of the blocks in the list, and below *)
(* MAX_CACHE_SIZE, however many blocks an eviction gives up.               *)
THEOREM OneConnectionTotalIsSum ==
    ASSUME \A s, t \in Threads : s = t
    PROVE  Spec => []TotalIsSum
BY OneConnection, SumConsequences, PTL

(* Serving one connection at a time the proxy never touches a freed block  *)
(* and never loops in its list, for any blocks, URLs, sizes and limits.    *)
THEOREM OneConnectionIsMemorySafe ==
    ASSUME \A s, t \in Threads : s = t
    PROVE  Spec => []MemorySafe
BY OneConnection, Consequences, PTL

(* The list runs from head to tail through distinct live blocks, and no    *)
(* block has a wrong prev, although evict_cache leaves some without one.   *)
THEOREM OneConnectionKeepsChain ==
    ASSUME \A s, t \in Threads : s = t
    PROVE  Spec => []ChainSound
BY OneConnection, Consequences, PTL

(* The client gets the content of the URL it asked for.                    *)
THEOREM OneConnectionAnswers ==
    ASSUME \A s, t \in Threads : s = t
    PROVE  Spec => []AnswersBelong
BY OneConnection, Consequences, PTL

(* Whether the list can be walked both ways, said of L.                    *)
LEMMA WholeIs ==
    ASSUME NEW k, NEW L
    PROVE  /\ Chain(cache, k, L) => (DoublyLinked <=> Whole(cache, k, L))
           /\ Chain(cache', k, L) => (DoublyLinked' <=> Whole(cache', k, L))
BY ListIs DEF DoublyLinked, Whole

LEMMA StaysDoublyLinked ==
    ASSUME IInv, FoundStaysListed, [Next]_vars,
           DoublyLinked, ~ \E t \in Threads : Evicting(t)
    PROVE  DoublyLinked'
<1>1. CASE cache' = cache
  BY <1>1 DEF DoublyLinked, List, Forward
<1>2. CASE KeepsWhole
  BY <1>2, WholeIs DEF KeepsWhole
<1>3. ASSUME NEW t \in Threads, Write(t)
      PROVE  HasRoom(cache, SizeOf[uri[t]])
  <2>1. pc[t] = "write" /\ pc'[t] # "write"
    BY <1>3 DEF Write, At, Goto, IInv, ThreadInv
  <2> QED
    BY <2>1 DEF Evicting
<1>4. ASSUME NEW t \in Threads, Find(t) \/ Refind(t) \/ Send(t)
      PROVE  cache' = cache
  BY <1>4, LookStep, SendStep DEF Find, Refind, At
<1>5. ASSUME NEW t \in Threads, Read(t)
      PROVE  KeepsWhole
  BY <1>5, ReadStep DEF FoundStaysListed, Read, At
<1>6. CASE Next
  BY <1>1, <1>2, <1>3, <1>4, <1>5, <1>6, WriteKeepsWhole, ReleaseStep
     DEF Next, Accept, FetchFails, Fetch
<1>7. CASE UNCHANGED vars
  BY <1>1, <1>7 DEF vars
<1> QED
  BY <1>6, <1>7

(* A list that can be walked both ways stays so in every step that does not*)
(* evict: insert_block and move_to_first set every prev.                   *)
THEOREM OneConnectionKeepsDoublyLinked ==
    ASSUME \A s, t \in Threads : s = t
    PROVE  Spec => KeepsDoublyLinked
<1>1. Spec => [](IInv /\ SumInv /\ FoundStaysListed)
  BY OneConnection
<1>2. IInv /\ FoundStaysListed /\ [Next]_vars =>
          [DoublyLinked /\ ~(\E t \in Threads : Evicting(t)) => DoublyLinked']_vars
  BY StaysDoublyLinked
<1> QED
  BY <1>1, <1>2, PTL DEF Spec, KeepsDoublyLinked

-----------------------------------------------------------------------------
(* The cache as a list of URLs, of which LruCache speaks.                  *)
UrlsIn(c, k, L) == [n \in 1 .. k |-> c.mem[L[n]].url]

Measures(size, s, n) ==
    DOMAIN s = 1 .. n /\ \A i \in 1 .. n : size[i] = SizeOf[s[i]] /\ size[i] \in Nat

LEMMA FoldIs ==
    ASSUME NEW n \in Nat, NEW s, NEW size, Measures(size, s, n),
           NEW f, Additive(f, 1 .. n, size)
    PROVE  LRU!Total(s) = f[1 .. n]
<1> DEFINE S == 1 .. n
           pick(T) == LRU!Max(T)
           Folds(g) == g = [T \in SUBSET S |-> IF T = {} THEN 0
                                  ELSE g[T \ {pick(T)}] + SizeOf[s[pick(T)]]]
           g0 == CHOOSE g : Folds(g)
<1> USE DEF Measures
<1>0. ASSUME NEW T \in SUBSET S, T # {}
      PROVE  pick(T) \in T /\ T \ {pick(T)} \in SUBSET S
  <2>1. \E m \in T : \A x \in T : m >= x
    BY <1>0, Greatest
  <2>2. LRU!Max(T) \in T
    BY <2>1 DEF LRU!Max
  <2> QED
    BY <2>2
<1>1. Folds(f)
  <2> HIDE DEF pick
  <2>1. ASSUME NEW T \in SUBSET S
        PROVE  f[T] = IF T = {} THEN 0 ELSE f[T \ {pick(T)}] + SizeOf[s[pick(T)]]
    <3>1. CASE T = {}
      BY <3>1 DEF Additive
    <3>2. CASE T # {}
      <4>1. f[T] = size[pick(T)] + f[T \ {pick(T)}] /\ pick(T) \in S
        BY <1>0, <3>2 DEF Additive
      <4>2. f[T] \in Nat /\ f[T \ {pick(T)}] \in Nat
        BY <1>0, <3>2 DEF Additive
      <4>3. PICK x : x = SizeOf[s[pick(T)]]
        OBVIOUS
      <4>4. PICK rest : rest = f[T \ {pick(T)}]
        OBVIOUS
      <4>5. f[T] = x + rest /\ rest \in Nat /\ x \in Nat
        BY <4>1, <4>2, <4>3, <4>4
      <4>6. f[T] = rest + x
        BY <4>5
      <4> QED
        BY <3>2, <4>3, <4>4, <4>6
    <3> QED
      BY <3>1, <3>2
  <2>2. f = [T \in SUBSET S |-> f[T]]
    BY DEF Additive
  <2> QED
    BY <2>1, <2>2, Zenon
<1>2. LRU!Total(s) = g0[S]
  BY DEF LRU!Total, LRU!FoldLeft, LRU!MapThenFoldSet
<1>3. Folds(g0)
  <2> HIDE DEF Folds
  <2> QED
    BY <1>1
<1> HIDE DEF g0
<1>4. g0[{}] = 0
  BY <1>3
<1>5. ASSUME NEW T \in SUBSET S, T # {}
      PROVE  \E x \in T : g0[T \ {x}] \in Nat => g0[T] = size[x] + g0[T \ {x}]
  <2>1. pick(T) \in T
    BY <1>0, <1>5
  <2>2. g0[T] = g0[T \ {pick(T)}] + SizeOf[s[pick(T)]]
    BY <1>3, <1>5
  <2>3. PICK x : x = pick(T)
    OBVIOUS
  <2>4. x \in T /\ x \in S /\ g0[T] = g0[T \ {x}] + SizeOf[s[x]]
    <3> HIDE DEF pick
    <3> QED
      BY <2>1, <2>2, <2>3
  <2>5. size[x] = SizeOf[s[x]] /\ size[x] \in Nat
    BY <2>4
  <2>6. g0[T \ {x}] \in Nat => g0[T] = size[x] + g0[T \ {x}]
    BY <2>4, <2>5
  <2> QED
    BY <2>4, <2>6
<1>6. g0[S] = f[S]
  <2> HIDE DEF S
  <2>1. TakesOff(g0, S, size)
    BY <1>4, <1>5 DEF TakesOff
  <2>2. IsFiniteSet(S) /\ Additive(f, S, size)
    BY FS_Interval DEF S
  <2>3. \A T \in SUBSET S : g0[T] = f[T]
    BY <2>1, <2>2, SumIsUnique
  <2> QED
    BY <2>3
<1> QED
  BY <1>2, <1>6

(* The size of the URLs of the first m blocks is that of the blocks.       *)
LEMMA OrderTotal ==
    ASSUME NEW c, NEW k, NEW L, Chain(c, k, L), NEW m \in 0 .. k,
           \A i \in 1 .. k : c.mem[L[i]].url \in Urls
    PROVE  LRU!Total(UrlsIn(c, m, L)) = Total(c, BlocksOf(m, L))
<1> DEFINE s == UrlsIn(c, m, L)
           size == [i \in 1 .. m |-> SizeOf[c.mem[L[i]].url]]
<1>0. /\ k \in Nat /\ m \in Nat /\ \A i \in 1 .. m : i \in 1 .. k
      /\ IsFiniteSet(1 .. m)
  <2>1. k \in Nat
    BY DEF Chain
  <2> QED
    BY <2>1, FS_Interval
<1>1. /\ \A i \in 1 .. m : size[i] = SizeOf[s[i]]
      /\ \A i \in 1 .. m : size[i] \in Nat
  BY <1>0, CacheAssumption DEF UrlsIn
<1>2. DOMAIN s = 1 .. m
  BY DEF UrlsIn
<1>3. PICK f : Additive(f, 1 .. m, size)
  <2> HIDE DEF size
  <2> QED
    BY <1>0, <1>1, SumExists
<1>4. Measures(size, s, m)
  BY <1>1, <1>2 DEF Measures
<1>5. LRU!Total(s) = f[1 .. m]
  <2> HIDE DEF size, s
  <2> QED
    BY <1>0, <1>3, <1>4, FoldIs
<1> DEFINE Good == {j \in 0 .. m : f[1 .. j] = Total(c, BlocksOf(j, L))}
<1>6. 0 \in Good
  <2>1. 1 .. 0 = {} /\ BlocksOf(0, L) = {} /\ f[{}] = 0
    BY <1>3 DEF BlocksOf, Additive
  <2>2. Total(c, {}) = 0
    BY TotalParts
  <2>3. f[1 .. 0] = f[{}] /\ Total(c, BlocksOf(0, L)) = Total(c, {})
    BY <2>1, Zenon
  <2> QED
    BY <1>0, <2>1, <2>2, <2>3
<1>7. ASSUME NEW j \in 0 .. m - 1, j \in Good
      PROVE  j + 1 \in Good
  <2>1. /\ j \in 0 .. k - 1 /\ j \in Nat /\ j + 1 \in 0 .. m /\ j + 1 \in 1 .. m
        /\ 1 .. j + 1 \in SUBSET (1 .. m) /\ j + 1 \in 1 .. j + 1
    BY <1>0
  <2>2. (1 .. j + 1) \ {j + 1} = 1 .. j
    BY <2>1
  <2>3. f[1 .. j + 1] = size[j + 1] + f[(1 .. j + 1) \ {j + 1}]
    <3> HIDE DEF size
    <3> QED
      BY <1>3, <2>1 DEF Additive
  <2>4. size[j + 1] = SizeOf[c.mem[L[j + 1]].url]
    BY <2>1
  <2>5. Total(c, BlocksOf(j + 1, L)) = SizeOf[c.mem[L[j + 1]].url] + Total(c, BlocksOf(j, L))
    BY <2>1, TotalGrows
  <2>6. f[1 .. j] = Total(c, BlocksOf(j, L))
    BY <1>7
  <2> HIDE DEF size
  <2> QED
    BY <2>1, <2>2, <2>3, <2>4, <2>5, <2>6
<1>8. m \in Good
  <2> HIDE DEF Good
  <2>1. \A j \in 0 .. m : j \in Good
    BY <1>0, <1>6, <1>7, UpTo
  <2> QED
    BY <1>0, <2>1
<1> QED
  BY <1>5, <1>8

(* Parts of the list, and a block moved to the front.                      *)
LEMMA OrderParts ==
    ASSUME NEW c, NEW k, NEW L, Chain(c, k, L),
           \A i \in 1 .. k : c.mem[L[i]].url \in Urls
    PROVE  /\ UrlsIn(c, k, L) \in Seq(Urls) /\ Len(UrlsIn(c, k, L)) = k
           /\ \A m \in 0 .. k : UrlsIn(c, m, L) = SubSeq(UrlsIn(c, k, L), 1, m)
           /\ \A i \in 1 .. k :
                 UrlsIn(c, k, Raised(i, k, L)) =
                     <<UrlsIn(c, k, L)[i]>> \o LRU!RemoveAt(UrlsIn(c, k, L), i)
<1> DEFINE s == UrlsIn(c, k, L)
<1>1. k \in Nat
  BY DEF Chain
<1>2. s \in Seq(Urls) /\ Len(s) = k /\ \A j \in 1 .. k : s[j] = c.mem[L[j]].url
  BY <1>1 DEF UrlsIn
<1>3. ASSUME NEW m \in 0 .. k
      PROVE  UrlsIn(c, m, L) = SubSeq(s, 1, m)
  <2>1. /\ SubSeq(s, 1, m) \in Seq(Urls) /\ Len(SubSeq(s, 1, m)) = m
        /\ \A j \in 1 .. m : SubSeq(s, 1, m)[j] = s[j]
    <3> HIDE DEF s
    <3> QED
      BY <1>1, <1>2
  <2>2. SubSeq(s, 1, m) = [j \in 1 .. m |-> s[j]]
    <3> HIDE DEF s
    <3> QED
      BY <1>1, <1>2, <2>1
  <2>3. \A j \in 1 .. m : s[j] = c.mem[L[j]].url
    BY <1>1, <1>2
  <2> HIDE DEF s
  <2> QED
    BY <2>2, <2>3 DEF UrlsIn
<1>4. ASSUME NEW i \in 1 .. k
      PROVE  UrlsIn(c, k, Raised(i, k, L)) = <<s[i]>> \o LRU!RemoveAt(s, i)
  <2> DEFINE r == <<s[i]>> \o LRU!RemoveAt(s, i)
  <2>1. /\ Len(r) = k /\ r \in Seq(Urls)
        /\ \A j \in 1 .. k : r[j] = IF j = 1 THEN s[i] ELSE IF j <= i THEN s[j - 1] ELSE s[j]
    <3> HIDE DEF s
    <3> QED
      BY <1>1, <1>2 DEF LRU!RemoveAt
  <2>2. r = [j \in 1 .. k |-> r[j]]
    <3> HIDE DEF r, s
    <3> QED
      BY <1>1, <2>1
  <2>3. \A j \in 1 .. k : c.mem[Raised(i, k, L)[j]].url = r[j]
    <3> HIDE DEF r, s
    <3> TAKE j \in 1 .. k
    <3>1. Raised(i, k, L)[j] = IF j = 1 THEN L[i] ELSE IF j <= i THEN L[j - 1] ELSE L[j]
      BY DEF Raised
    <3>2. j # 1 => j - 1 \in 1 .. k
      BY <1>1
    <3> QED
      BY <1>2, <2>1, <3>1, <3>2
  <2> HIDE DEF r, s
  <2> QED
    BY <2>2, <2>3 DEF UrlsIn, r
<1> QED
  BY <1>2, <1>3, <1>4

(* A response in front of the URLs that are kept.                          *)
InFront(u, urls) == <<u>> \o urls

LEMMA OrderFronted ==
    ASSUME NEW c, NEW d, NEW k, NEW L, NEW m \in 0 .. k, NEW new, NEW u \in Urls,
           Chain(c, k, L), Sized(c, k, L), Stored(c, k, L, d, m, new, u)
    PROVE  UrlsIn(d, m + 1, Fronted(new, m, L)) = InFront(u, UrlsIn(c, m, L))
<1> DEFINE s == UrlsIn(c, m, L)
           r == <<u>> \o s
<1>0. k \in Nat /\ m \in Nat /\ \A i \in 1 .. m : i \in 1 .. k
  BY DEF Chain
<1>1. s \in Seq(Urls) /\ Len(s) = m /\ \A j \in 1 .. m : s[j] = c.mem[L[j]].url
  <2>1. \A j \in 1 .. m : c.mem[L[j]].url \in Urls
    BY <1>0 DEF Sized
  <2> QED
    BY <1>0, <2>1 DEF UrlsIn
<1>2. /\ r \in Seq(Urls) /\ Len(r) = m + 1
      /\ \A j \in 1 .. m + 1 : r[j] = IF j = 1 THEN u ELSE s[j - 1]
  <2> HIDE DEF s
  <2> QED
    BY <1>0, <1>1
<1>3. r = [j \in 1 .. m + 1 |-> r[j]]
  <2> HIDE DEF r, s
  <2> QED
    BY <1>0, <1>2
<1>4. d.mem[new].url = u /\ \A i \in 1 .. m : d.mem[L[i]].url = c.mem[L[i]].url
  BY DEF Stored
<1>5. \A j \in 1 .. m + 1 : d.mem[Fronted(new, m, L)[j]].url = r[j]
  <2> HIDE DEF r, s
  <2> TAKE j \in 1 .. m + 1
  <2>1. Fronted(new, m, L)[j] = IF j = 1 THEN new ELSE L[j - 1]
    BY DEF Fronted
  <2>2. CASE j = 1
    BY <1>2, <1>4, <2>1, <2>2
  <2>3. CASE j # 1
    <3>1. j - 1 \in 1 .. m
      BY <1>0, <2>3
    <3>2. d.mem[L[j - 1]].url = c.mem[L[j - 1]].url /\ s[j - 1] = c.mem[L[j - 1]].url
      BY <1>1, <1>4, <3>1
    <3>3. r[j] = s[j - 1]
      BY <1>2, <2>3
    <3> QED
      BY <2>1, <2>3, <3>2, <3>3
  <2> QED
    BY <2>2, <2>3
<1> HIDE DEF r, s
<1> QED
  BY <1>3, <1>5 DEF UrlsIn, InFront, r, s

(* The mapping, in this state and in the next.                             *)
LEMMA OrderIs ==
    ASSUME NEW k, NEW L
    PROVE  /\ Chain(cache, k, L) => Order = UrlsIn(cache, k, L)
           /\ Chain(cache', k, L) => Order' = UrlsIn(cache', k, L)
<1>1. \A c : Chain(c, k, L) => DOMAIN L = 1 .. k
  BY DEF Chain
<1>2. Chain(cache, k, L) => Order = UrlsIn(cache, k, L)
  BY <1>1, ListIs DEF Order, UrlsIn
<1>3. Order' = [n \in DOMAIN List' |-> cache'.mem[List'[n]].url]
  BY DEF Order
<1>4. Chain(cache', k, L) => Order' = UrlsIn(cache', k, L)
  BY <1>1, <1>3, ListIs DEF UrlsIn
<1> QED
  BY <1>2, <1>4

(* The list's places, and what LruCache computes from it.                  *)
LEMMA OrderFacts ==
    ASSUME SumInv, NEW k, NEW L, Chain(cache, k, L)
    PROVE  /\ Sized(cache, k, L)
           /\ k \in Nat /\ List = L /\ Len(List) = k /\ DOMAIN List = 1 .. k
           /\ Order = UrlsIn(cache, k, L) /\ Order \in Seq(Urls) /\ Len(Order) = k
           /\ \A j \in 0 .. k : UrlsIn(cache, j, L) = SubSeq(Order, 1, j)
           /\ \A i \in 1 .. k : UrlsIn(cache, k, Raised(i, k, L))
                                   = <<Order[i]>> \o LRU!RemoveAt(Order, i)
           /\ Stranded = {n \in 2 .. k : cache.mem[L[n]].prev = NULL}
<1>1. Sized(cache, k, L) /\ Order = UrlsIn(cache, k, L)
  BY SumIs, OrderIs
<1>2. \A i \in 1 .. k : cache.mem[L[i]].url \in Urls
  BY <1>1 DEF Sized
<1>3. /\ UrlsIn(cache, k, L) \in Seq(Urls) /\ Len(UrlsIn(cache, k, L)) = k
      /\ \A m \in 0 .. k : UrlsIn(cache, m, L) = SubSeq(UrlsIn(cache, k, L), 1, m)
      /\ \A i \in 1 .. k :
            UrlsIn(cache, k, Raised(i, k, L)) =
                <<UrlsIn(cache, k, L)[i]>> \o LRU!RemoveAt(UrlsIn(cache, k, L), i)
  BY <1>2, OrderParts
<1>4. k \in Nat /\ List = L /\ Len(L) = k /\ DOMAIN L = 1 .. k
  BY ListIs DEF Chain
<1>5. Stranded = {n \in 2 .. k : cache.mem[L[n]].prev = NULL}
  BY <1>4 DEF Stranded
<1> QED
  BY <1>1, <1>3, <1>4, <1>5

LEMMA OrderArranged ==
    ASSUME NEW k \in Nat, NEW L, NEW M, Arranged(k, L, M)
    PROVE  Order' = UrlsIn(cache, k, M)
<1>1. Order' = UrlsIn(cache', k, M)
  BY OrderIs DEF Arranged
<1>2. \A j \in 1 .. k : \E x \in 1 .. k : M[j] = L[x]
  BY DEF Arranged, Raised
<1>3. \A j \in 1 .. k : cache'.mem[M[j]].url = cache.mem[M[j]].url
  BY <1>2 DEF Arranged
<1> QED
  BY <1>1, <1>3 DEF UrlsIn

(* What is read moves to the front, unless it is stranded.                 *)
LEMMA ReadUses ==
    ASSUME IInv, SumInv, NEW t \in Threads, Read(t), find_block[t] \in Listed(cache)
    PROVE  UsesBlock(t)
<1>1. PICK k, L : Chain(cache, k, L)
  BY DEF IInv, ListInv
<1>2. /\ Sized(cache, k, L)
      /\ k \in Nat /\ List = L /\ DOMAIN List = 1 .. k
      /\ Order = UrlsIn(cache, k, L)
      /\ \A i \in 1 .. k : UrlsIn(cache, k, Raised(i, k, L))
                              = <<Order[i]>> \o LRU!RemoveAt(Order, i)
      /\ Stranded = {n \in 2 .. k : cache.mem[L[n]].prev = NULL}
  BY <1>1, OrderFacts
<1>3. PICK i \in 1 .. k :
          /\ L[i] = find_block[t]
          /\ Arranged(k, L, IF cache.mem[L[i]].prev = NULL THEN L ELSE Raised(i, k, L))
  BY <1>1, <1>2, ListRead
<1>4. Order' = UrlsIn(cache, k, IF cache.mem[L[i]].prev = NULL THEN L ELSE Raised(i, k, L))
  BY <1>2, <1>3, OrderArranged
<1>5. CASE i \in Stranded
  <2>1. Order' = Order
    BY <1>2, <1>4, <1>5
  <2> QED
    BY <1>2, <1>3, <1>5, <2>1 DEF UsesBlock
<1>6. CASE i \notin Stranded
  <2>1. Order' = UrlsIn(cache, k, Raised(i, k, L))
    <3>1. CASE cache.mem[L[i]].prev # NULL
      BY <1>4, <3>1
    <3>2. CASE cache.mem[L[i]].prev = NULL
      <4>1. i = 1
        BY <1>2, <1>6, <3>2
      <4>2. L = [j \in 1 .. k |-> L[j]]
        BY <1>1 DEF Chain
      <4>3. Raised(i, k, L) = L
        BY <1>2, <4>1, <4>2 DEF Raised
      <4> QED
        BY <1>4, <3>2, <4>3
    <3> QED
      BY <3>1, <3>2
  <2>2. LRU!Use(i)
    BY <1>2, <2>1 DEF LRU!Use
  <2> QED
    BY <1>2, <1>3, <1>6, <2>2 DEF UsesBlock
<1> QED
  BY <1>5, <1>6

(* What makes room is the shortest end that is large enough, or all.       *)
LEMMA WriteCaches ==
    ASSUME IInv, SumInv, NEW u \in Urls, 2 * SizeOf[u] <= MAX_CACHE_SIZE,
           NEW k, NEW L, Chain(cache, k, L), CachedOf(k, L, u),
           NEW t, uri[t] = u
    PROVE  CachesAnswer(t)
<1> DEFINE size == SizeOf[u]
           behind(j) == Behind(cache, k, L, j)
<1>1. PICK m \in 0 .. k, new \in Blocks : Stored(cache, k, L, cache', m, new, u)
  BY DEF CachedOf
<1>2. /\ Sized(cache, k, L)
      /\ k \in Nat /\ Len(List) = k /\ Len(Order) = k /\ Order \in Seq(Urls)
      /\ Order = UrlsIn(cache, k, L)
      /\ \A j \in 0 .. k : UrlsIn(cache, j, L) = SubSeq(Order, 1, j)
      /\ Stranded = {n \in 2 .. k : cache.mem[L[n]].prev = NULL}
  BY OrderFacts
<1>3. /\ size \in Nat /\ MAX_CACHE_SIZE \in Nat /\ 2 * size <= MAX_CACHE_SIZE
      /\ k \in 0 .. k /\ 0 \in 0 .. k
  BY <1>2, CacheAssumption
<1>4. Order' = <<u>> \o SubSeq(Order, 1, m)
  <2>1. Order' = UrlsIn(cache', m + 1, Fronted(new, m, L))
    BY <1>1, OrderIs DEF Stored
  <2>2. UrlsIn(cache', m + 1, Fronted(new, m, L)) = InFront(u, UrlsIn(cache, m, L))
    BY <1>1, <1>2, OrderFronted
  <2> QED
    BY <1>2, <2>1, <2>2 DEF InFront
<1>5. /\ \A j \in 0 .. k : /\ LRU!Total(SubSeq(Order, 1, j)) = Total(cache, BlocksOf(j, L))
                           /\ Total(cache, BlocksOf(j, L)) \in Nat
      /\ LRU!Total(Order) = Total(cache, BlocksOf(k, L))
      /\ Total(cache, BlocksOf(0, L)) = 0
      /\ cache.total_size = Total(cache, BlocksOf(k, L))
  <2>1. \A i \in 1 .. k : cache.mem[L[i]].url \in Urls
    BY <1>2 DEF Sized
  <2>2. \A j \in 0 .. k : LRU!Total(UrlsIn(cache, j, L)) = Total(cache, BlocksOf(j, L))
    BY <2>1, OrderTotal
  <2>3. \A j \in 0 .. k : Total(cache, BlocksOf(j, L)) \in Nat
    BY <1>2, TotalOfPart
  <2>4. Total(cache, BlocksOf(0, L)) = 0
    BY <1>2, <1>3, TotalOfPart
  <2> QED
    BY <1>2, <1>3, <2>2, <2>3, <2>4 DEF Sized
<1>6. /\ \A j \in 0 .. k : LRU!After(j) = behind(j) /\ behind(j) \in Int
      /\ behind(0) = cache.total_size /\ cache.total_size \in Nat
      /\ LRU!Fits(u) <=> HasRoom(cache, size)
  <2>1. \A j \in 0 .. k : LRU!After(j) = behind(j) /\ behind(j) \in Int
    BY <1>3, <1>5 DEF LRU!After, Behind
  <2>2. behind(0) = cache.total_size /\ cache.total_size \in Nat
    BY <1>3, <1>5 DEF Behind
  <2>3. LRU!Fits(u) <=> HasRoom(cache, size)
    BY <1>5 DEF LRU!Fits, HasRoom
  <2> QED
    BY <2>1, <2>2, <2>3
<1>7. CASE HasRoom(cache, size)
  <2>1. m = k
    BY <1>1, <1>7 DEF Stored
  <2>2. SubSeq(Order, 1, k) = Order
    BY <1>2
  <2>3. LRU!Store(u)
    BY <1>4, <1>6, <1>7, <2>1, <2>2 DEF LRU!Store
  <2> QED
    BY <2>3 DEF CachesAnswer
<1>8. CASE ~HasRoom(cache, size)
  <2>1. PICK i \in 0 .. k : GivesUp(cache, k, L, m, i, size)
    BY <1>1, <1>8 DEF Stored
  <2>2. /\ i < k => behind(i + 1) < size
        /\ \A j \in i + 2 .. k : cache.mem[L[j]].prev # NULL
        /\ IF m # 0 THEN /\ m = i
                         /\ behind(i) >= size
                         /\ i < k => cache.mem[L[i + 1]].prev # NULL
           ELSE i = 0 \/ (i < k /\ cache.mem[L[i + 1]].prev = NULL)
    BY <2>1 DEF GivesUp
  <2>3. behind(0) >= size
    BY <1>3, <1>6, <1>8 DEF HasRoom
  <2>4. ASSUME NEW j \in 0 .. k, behind(j) >= size, j < k => behind(j + 1) < size
        PROVE  LRU!MakesRoom(u, j)
    <3>1. j < k => j + 1 \in 0 .. k
      BY <1>2
    <3> HIDE DEF behind, size
    <3>2. LRU!After(j) >= size /\ (j < k => LRU!After(j + 1) < size) /\ ~LRU!Fits(u)
      BY <1>6, <1>8, <2>4, <3>1
    <3> QED
      BY <1>2, <3>2 DEF LRU!MakesRoom, size
  <2> HIDE DEF behind, size
  <2>5. CASE m # 0 \/ i = 0
    <3>1. m = i /\ behind(i) >= size
      BY <2>2, <2>3, <2>5
    <3>2. LRU!MakesRoom(u, i)
      BY <2>2, <2>4, <3>1
    <3>3. \A n \in Stranded : n <= i
      <4> SUFFICES ASSUME NEW n \in 2 .. k, cache.mem[L[n]].prev = NULL, ~(n <= i)
                   PROVE  FALSE
        BY <1>2
      <4>1. n \notin i + 2 .. k
        BY <2>2
      <4>2. n = i + 1 /\ i < k /\ i # 0
        BY <1>2, <4>1
      <4> QED
        BY <2>2, <2>5, <4>2
    <3>4. LRU!Replace(u, i)
      BY <1>4, <3>1, <3>2 DEF LRU!Replace
    <3> QED
      BY <1>2, <3>3, <3>4 DEF CachesAnswer
  <2>6. CASE m = 0 /\ i # 0
    <3>1. i < k /\ i + 1 \in Stranded
      <4>1. i < k /\ cache.mem[L[i + 1]].prev = NULL
        BY <2>2, <2>6
      <4>2. i + 1 \in 2 .. k
        BY <1>2, <2>6, <4>1
      <4> QED
        BY <1>2, <4>1, <4>2
    <3> DEFINE Small == {j \in 0 .. k : behind(j) < size}
    <3>2. i + 1 \in Small
      BY <1>2, <2>2, <3>1
    <3>3. PICK j \in Small : \A x \in Small : j <= x
      <4>1. Small \in SUBSET Nat /\ Small # {}
        BY <3>2
      <4> HIDE DEF Small
      <4> QED
        BY <4>1, Least
    <3>4. j # 0 /\ j - 1 \in 0 .. k /\ j - 1 < j /\ (j - 1) + 1 = j /\ j - 1 < i + 1
      <4>1. j \in 0 .. k /\ behind(j) < size /\ j <= i + 1
        BY <3>2, <3>3
      <4>2. j # 0
        BY <1>3, <1>6, <2>3, <4>1 DEF size
      <4> QED
        BY <1>2, <4>1, <4>2
    <3>5. behind(j - 1) >= size
      <4>1. j - 1 \notin Small
        BY <3>3, <3>4
      <4>2. ~(behind(j - 1) < size) /\ behind(j - 1) \in Int
        BY <1>6, <3>4, <4>1
      <4> QED
        BY <1>3, <4>2 DEF size
    <3>6. LRU!MakesRoom(u, j - 1)
      BY <2>4, <3>3, <3>4, <3>5
    <3>7. Order' = <<u>>
      <4>1. SubSeq(Order, 1, m) = <<>>
        BY <1>2, <2>6
      <4>2. <<u>> \in Seq(Urls) /\ <<u>> \o <<>> = <<u>>
        OBVIOUS
      <4> QED
        BY <1>4, <4>1, <4>2
    <3>8. ~ \A n \in Stranded : n <= j - 1
      <4>1. i \in Int /\ j \in Int /\ ~(i + 1 <= j - 1)
        BY <1>2, <3>4
      <4> HIDE DEF Small
      <4> QED
        BY <3>1, <4>1
    <3> QED
      BY <1>2, <3>4, <3>6, <3>7, <3>8 DEF CachesAnswer
  <2> QED
    BY <2>5, <2>6
<1> QED
  BY <1>7, <1>8

LEMMA StepKeepsLru ==
    ASSUME \A u \in Urls : Cacheable(u) => 2 * SizeOf[u] <= MAX_CACHE_SIZE,
           IInv, SumInv, FoundStaysListed, Next,
           NEW s \in Threads, pc'[s] # pc[s]
    PROVE  LruStep(s)
<1>1. PICK t \in Threads :
          \/ \E u \in Urls : Accept(t, u)
          \/ Find(t) \/ Refind(t) \/ FetchFails(t) \/ Fetch(t)
          \/ Write(t) \/ Read(t) \/ Send(t) \/ Release(t)
  BY DEF Next
<1>2. s = t
  <2>1. \E place : pc' = [pc EXCEPT ![t] = place]
    <3>1. CASE Find(t) \/ Refind(t)
      BY <3>1 DEF Find, Refind, Look, Goto
    <3>2. CASE ~(Find(t) \/ Refind(t))
      BY <1>1, <3>2 DEF Accept, FetchFails, Fetch, Write, Read, Send, Release, Goto
    <3> QED
      BY <3>1, <3>2
  <2> QED
    BY <2>1 DEF IInv, ThreadInv
<1>3. PICK k, L : Chain(cache, k, L)
  BY DEF IInv, ListInv
<1>4. Sized(cache, k, L) /\ k \in Nat /\ Order = UrlsIn(cache, k, L)
  BY <1>3, OrderFacts
<1>5. CASE Read(t)
  <2>1. pc[t] = "read"
    BY <1>5 DEF Read, At
  <2>2. UsesBlock(t)
    BY <1>5, <2>1, ReadUses DEF FoundStaysListed
  <2> QED
    BY <1>2, <2>1, <2>2 DEF LruStep
<1>6. CASE Write(t)
  <2>1. pc[t] = "write" /\ uri[t] \in Urls
    BY <1>6 DEF Write, At, IInv, ThreadInv
  <2>2. CASE Cacheable(uri[t])
    <3>1. CachedOf(k, L, uri[t])
      BY <1>3, <1>4, <1>6, <2>2, ListWritten
    <3>2. CachesAnswer(t)
      BY <1>3, <2>1, <2>2, <3>1, WriteCaches
    <3> QED
      BY <1>2, <2>1, <2>2, <3>2 DEF LruStep
  <2>3. CASE ~Cacheable(uri[t])
    <3>1. cache' = cache
      BY <1>6, <2>3 DEF Write
    <3>2. Order' = Order
      BY <1>3, <1>4, <3>1, ListStays, OrderArranged
    <3> QED
      BY <1>2, <2>1, <2>3, <3>2 DEF LruStep
  <2> QED
    BY <2>2, <2>3
<1>7. CASE ~Read(t) /\ ~Write(t)
  <2>1. pc[t] \notin {"read", "write"}
    BY <1>1, <1>7 DEF Accept, Find, Refind, FetchFails, Fetch, Send, Release, At
  <2>2. Arranged(k, L, L)
    <3>1. CASE Release(t)
      BY <1>3, <1>4, <3>1, ListReleased
    <3>2. CASE ~Release(t)
      <4>1. Find(t) \/ Refind(t) \/ Send(t) => cache' = cache
        BY LookStep, SendStep DEF Find, Refind, At
      <4>2. cache' = cache
        BY <1>1, <1>7, <3>2, <4>1 DEF Accept, FetchFails, Fetch
      <4> QED
        BY <1>3, <1>4, <4>2, ListStays
    <3> QED
      BY <3>1, <3>2
  <2>3. Order' = Order
    BY <1>4, <2>2, OrderArranged
  <2> QED
    BY <1>2, <2>1, <2>3 DEF LruStep
<1> QED
  BY <1>5, <1>6, <1>7

(* For any threads, blocks and URLs, while what was found is still listed  *)
(* when it is read: what is read moves to the front of the list unless an  *)
(* eviction has stranded it, what is written goes there, and what makes    *)
(* room for it is the shortest end of the list that is as large, or the    *)
(* whole list where that end has a stranded block in it.  No other step    *)
(* changes the order.  What is cached must fit twice: a list that is given *)
(* up as a whole need not be as large as the new block otherwise.          *)
(* (cache.h has MAX_OBJECT_SIZE a tenth of MAX_CACHE_SIZE.)                *)
THEOREM KeepsLruWhileFresh ==
    ASSUME \A u \in Urls : Cacheable(u) => 2 * SizeOf[u] <= MAX_CACHE_SIZE
    PROVE  Spec => ([]FoundStaysListed => KeepsLru)
<1>1. Init => IInv /\ SumInv
  BY Initially, SumInitially
<1>2. IInv /\ SumInv /\ FoundStaysListed /\ [Next]_vars => IInv' /\ SumInv'
  BY EveryStep, SumStep
<1>3. IInv /\ SumInv /\ FoundStaysListed /\ [Next]_vars
          => [\A t \in Threads : pc'[t] # pc[t] => LruStep(t)]_vars
  BY StepKeepsLru
<1> QED
  BY <1>1, <1>2, <1>3, PTL DEF Spec, KeepsLru

(* With one connection at a time nothing can be given up before it is read.*)
THEOREM OneConnectionKeepsLru ==
    ASSUME \A s, t \in Threads : s = t,
           \A u \in Urls : Cacheable(u) => 2 * SizeOf[u] <= MAX_CACHE_SIZE
    PROVE  Spec => KeepsLru
<1>1. Spec => []FoundStaysListed
  BY OneConnection, PTL
<1>2. Spec => ([]FoundStaysListed => KeepsLru)
  BY KeepsLruWhileFresh
<1> QED
  BY <1>1, <1>2, PTL
=============================================================================
