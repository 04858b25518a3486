----------------------------- MODULE QTestProofs -----------------------------
(***************************************************************************)
(* Every step of the queue preserves the invariant of QTestInvariant:      *)
(* lemmas about lists and about the harness's blocks, one for each store   *)
(* of queue.c, and one for each command, which keeps the invariant as the  *)
(* steps of its calls do.  From it the properties of QTest follow; and     *)
(* QTest implements Deque.                                                 *)
(***************************************************************************)
EXTENDS QTestInvariant, Induction, FunctionTheorems, FiniteSetTheorems, SequenceTheorems, TLAPS

-----------------------------------------------------------------------------
(* Lists.                                                                  *)
Link == [Elements -> Elements \cup {NULL}]

Nothing == [i \in 1 .. 0 |-> NULL]

LEMMA ChainNone ==
    ASSUME NEW link
    PROVE  Chain(link, NULL, 0, Nothing) /\ Members(0, Nothing) = {}
BY DEF Chain, Members, Nothing

LEMMA ChainStart ==
    ASSUME NEW link, NEW e, NEW k, NEW L, Chain(link, e, k, L)
    PROVE  /\ k \in Nat /\ Members(k, L) \subseteq Elements
           /\ e = NULL <=> k = 0
           /\ e # NULL => e = L[1] /\ e \in Members(k, L)
           /\ \A i \in 1 .. k : L[i] \in Members(k, L)
           /\ k = 0 => Members(k, L) = {}
BY QueueAssumption DEF Chain, Members

(* The store of a next pointer elsewhere leaves a list as it is.           *)
LEMMA ChainFrame ==
    ASSUME NEW link \in Link, NEW e, NEW k, NEW L, Chain(link, e, k, L),
           NEW f, f \notin Members(k, L), NEW x
    PROVE  Chain([link EXCEPT ![f] = x], e, k, L)
BY DEF Chain, Members, Link

Pushed(e, k, L) == [i \in 1 .. k + 1 |-> IF i = 1 THEN e ELSE L[i - 1]]

LEMMA ChainPush ==
    ASSUME NEW link, NEW e, NEW k, NEW L, Chain(link, e, k, L),
           NEW f \in Elements, f \notin Members(k, L), link[f] = e
    PROVE  /\ Chain(link, f, k + 1, Pushed(f, k, L))
           /\ Members(k + 1, Pushed(f, k, L)) = Members(k, L) \cup {f}
<1> DEFINE P == Pushed(f, k, L)
<1>1. k \in Nat /\ \A i \in 1 .. k : L[i] \in Elements /\ L[i] # f
  BY DEF Chain, Members
<1>2. P[1] = f /\ \A i \in 2 .. k + 1 : P[i] = L[i - 1] /\ i - 1 \in 1 .. k
  BY <1>1 DEF Pushed
<1>3. P \in [1 .. k + 1 -> Elements]
  BY <1>1 DEF Pushed
<1>4. \A i, j \in 1 .. k + 1 : P[i] = P[j] => i = j
  BY <1>1, <1>2 DEF Chain
<1>5. ASSUME NEW i \in 1 .. k + 1
      PROVE  link[P[i]] = IF i = k + 1 THEN NULL ELSE P[i + 1]
  <2>1. CASE i = 1
    BY <1>1, <1>2, <2>1 DEF Chain
  <2>2. CASE i # 1
    BY <1>1, <1>2, <2>2 DEF Chain
  <2> QED
    BY <2>1, <2>2
<1>6. Members(k + 1, P) = Members(k, L) \cup {f}
  <2>1. \A j \in 1 .. k : L[j] = P[j + 1] /\ j + 1 \in 1 .. k + 1
    BY <1>1, <1>2
  <2> HIDE DEF P
  <2> QED
    BY <1>1, <1>2, <2>1 DEF Members
<1> QED
  BY <1>1, <1>2, <1>3, <1>4, <1>5, <1>6 DEF Chain

Popped(k, L) == [i \in 1 .. k - 1 |-> L[i + 1]]

LEMMA ChainPop ==
    ASSUME NEW link, NEW e, NEW k, NEW L, Chain(link, e, k, L), e # NULL
    PROVE  /\ Chain(link, link[e], k - 1, Popped(k, L))
           /\ Members(k - 1, Popped(k, L)) = Members(k, L) \ {e}
<1> DEFINE P == Popped(k, L)
<1>1. k \in Nat \ {0} /\ e = L[1] /\ k - 1 \in Nat
  BY DEF Chain
<1>2. \A i \in 1 .. k - 1 : P[i] = L[i + 1] /\ i + 1 \in 1 .. k
  BY <1>1 DEF Popped
<1>3. P \in [1 .. k - 1 -> Elements]
  BY <1>1 DEF Popped, Chain
<1>4. \A i, j \in 1 .. k - 1 : P[i] = P[j] => i = j
  BY <1>1, <1>2 DEF Chain
<1>5. link[e] = IF k - 1 = 0 THEN NULL ELSE P[1]
  BY <1>1, <1>2 DEF Chain
<1>6. \A i \in 1 .. k - 1 : link[P[i]] = IF i = k - 1 THEN NULL ELSE P[i + 1]
  BY <1>1, <1>2 DEF Chain
<1>7. Members(k - 1, P) = Members(k, L) \ {e}
  <2>1. \A j \in 1 .. k : L[j] # e => j - 1 \in 1 .. k - 1 /\ L[j] = P[j - 1]
    BY <1>1, <1>2
  <2>2. \A i \in 1 .. k - 1 : P[i] # e
    BY <1>1, <1>2 DEF Chain
  <2> HIDE DEF P
  <2> QED
    BY <1>1, <1>2, <2>1, <2>2 DEF Members
<1> QED
  BY <1>1, <1>3, <1>4, <1>5, <1>6, <1>7 DEF Chain

(* A store to the next pointer of t appends f where t is the last; where t *)
(* is another, what came after is cut off.                                 *)
Joined(i, L, f) == [j \in 1 .. i + 1 |-> IF j = i + 1 THEN f ELSE L[j]]

LEMMA ChainJoin ==
    ASSUME NEW link \in Link, NEW e, NEW k, NEW L, Chain(link, e, k, L),
           NEW f \in Elements, f \notin Members(k, L), link[f] = NULL,
           NEW i \in 1 .. k
    PROVE  /\ Chain([link EXCEPT ![L[i]] = f], e, i + 1, Joined(i, L, f))
           /\ Members(i + 1, Joined(i, L, f)) \subseteq Members(k, L) \cup {f}
           /\ i = k => Members(i + 1, Joined(i, L, f)) = Members(k, L) \cup {f}
<1> DEFINE P == Joined(i, L, f)
           new == [link EXCEPT ![L[i]] = f]
<1>1. /\ k \in Nat /\ \A j \in 1 .. k : L[j] \in Elements /\ L[j] # f
      /\ i + 1 \in Nat /\ i + 1 # 0
  BY DEF Chain, Members
<1>2. P[i + 1] = f /\ \A j \in 1 .. i : P[j] = L[j] /\ j \in 1 .. k
  BY <1>1 DEF Joined
<1>3. P \in [1 .. i + 1 -> Elements]
  BY <1>1 DEF Joined
<1>4. \A a, b \in 1 .. i + 1 : P[a] = P[b] => a = b
  BY <1>1, <1>2 DEF Chain
<1>5. new[f] = NULL /\ \A j \in 1 .. i : new[P[j]] = P[j + 1]
  BY <1>1, <1>2 DEF Chain, Link
<1>6. e = P[1]
  BY <1>1, <1>2 DEF Chain
<1> HIDE DEF P
<1>7. Members(i + 1, P) \subseteq Members(k, L) \cup {f}
  BY <1>1, <1>2 DEF Members
<1>8. i = k => Members(i + 1, P) = Members(k, L) \cup {f}
  BY <1>1, <1>2 DEF Members
<1> QED
  BY <1>1, <1>2, <1>3, <1>4, <1>5, <1>6, <1>7, <1>8 DEF Chain, P

LEMMA ChainIsShort ==
    ASSUME NEW link, NEW e, NEW k, NEW L, Chain(link, e, k, L)
    PROVE  k <= Cardinality(Elements)
<1>1. k \in Nat /\ L \in [1 .. k -> Elements] /\ \A i, j \in 1 .. k : L[i] = L[j] => i = j
  BY DEF Chain
<1>2. IsFiniteSet(1 .. k) /\ Cardinality(1 .. k) = k
  BY <1>1, FS_Interval
<1>3. L \in Injection(1 .. k, Elements)
  BY <1>1, Fun_IsInj
<1> QED
  BY <1>2, <1>3, FS_Injection, QueueAssumption

-----------------------------------------------------------------------------
(* The harness's list.                                                     *)
Closed(S, first, n) == first \in S \cup {NULL} /\ \A c \in S : n[c] \in S \cup {NULL}

Links == [Blocks -> Blocks \cup {NULL}]

LEMMA ReachIs ==
    ASSUME NEW first \in Blocks \cup {NULL}, NEW n \in Links
    PROVE  /\ Reach(first, n) \in SUBSET Blocks
           /\ Closed(Reach(first, n), first, n)
           /\ \A S : Closed(S, first, n) => Reach(first, n) \subseteq S
<1> DEFINE R == Reach(first, n)
<1>1. R \in SUBSET Blocks
  BY DEF Reach
<1>2. first # NULL => first \in R
  BY DEF Reach
<1>3. ASSUME NEW c \in R, n[c] # NULL
      PROVE  n[c] \in R
  <2>1. n[c] \in Blocks
    BY <1>1, <1>3 DEF Links
  <2>2. ASSUME NEW S \in SUBSET Blocks, first \in S \cup {NULL}, \A d \in S : n[d] \in S \cup {NULL}
        PROVE  n[c] \in S
    BY <1>3, <2>2 DEF Reach
  <2> QED
    BY <2>1, <2>2 DEF Reach
<1>4. ASSUME NEW S, Closed(S, first, n)
      PROVE  R \subseteq S
  <2>1. S \cap Blocks \in SUBSET Blocks /\ first \in (S \cap Blocks) \cup {NULL}
    BY <1>4 DEF Closed
  <2>2. \A c \in S \cap Blocks : n[c] \in (S \cap Blocks) \cup {NULL}
    BY <1>4 DEF Closed, Links
  <2> QED
    BY <2>1, <2>2 DEF Reach
<1> QED
  BY <1>1, <1>2, <1>3, <1>4 DEF Closed

(* A block in front of the list, or out of it.                             *)
LEMMA ReachFrame ==
    ASSUME NEW first \in Blocks \cup {NULL}, NEW n \in Links, NEW n2 \in Links,
           \A c \in Reach(first, n) : n2[c] = n[c]
    PROVE  Reach(first, n2) = Reach(first, n)
<1> DEFINE R == Reach(first, n)
           T == Reach(first, n2)
<1>1. R \in SUBSET Blocks /\ Closed(R, first, n) /\ \A S : Closed(S, first, n) => R \subseteq S
  BY ReachIs
<1>2. T \in SUBSET Blocks /\ Closed(T, first, n2) /\ \A S : Closed(S, first, n2) => T \subseteq S
  BY ReachIs
<1>3. \A c \in R : n2[c] = n[c]
  OBVIOUS
<1> HIDE DEF R, T
<1>4. Closed(R, first, n2)
  BY <1>1, <1>3 DEF Closed
<1>5. Closed(T \cap R, first, n)
  BY <1>1, <1>2, <1>3 DEF Closed
<1>6. T = R
  BY <1>1, <1>2, <1>4, <1>5
<1> QED
  BY <1>6 DEF R, T

LEMMA ReachAdd ==
    ASSUME NEW first \in Blocks \cup {NULL}, NEW n \in Links, NEW b \in Blocks, n[b] = first
    PROVE  Reach(b, n) = Reach(first, n) \cup {b}
<1> DEFINE R == Reach(first, n)
           T == Reach(b, n)
<1>1. R \in SUBSET Blocks /\ Closed(R, first, n) /\ \A S : Closed(S, first, n) => R \subseteq S
  BY ReachIs
<1>2. T \in SUBSET Blocks /\ Closed(T, b, n) /\ \A S : Closed(S, b, n) => T \subseteq S
  BY ReachIs
<1> HIDE DEF R, T
<1>3. b \in T
  BY <1>2, QueueAssumption DEF Closed
<1>4. Closed(R \cup {b}, b, n)
  BY <1>1 DEF Closed
<1>5. Closed(T, first, n)
  BY <1>2, <1>3 DEF Closed
<1>6. T = R \cup {b}
  BY <1>1, <1>2, <1>3, <1>4, <1>5
<1> QED
  BY <1>6 DEF R, T

LEMMA BackLinkedAdd ==
    ASSUME NEW first \in Blocks \cup {NULL}, NEW n \in Links, NEW p \in Links,
           BackLinked(first, n, p),
           NEW b \in Blocks, b \notin Reach(first, n), n[b] = first, p[b] = NULL
    PROVE  BackLinked(b, n, IF first = NULL THEN p ELSE [p EXCEPT ![first] = b])
<1> DEFINE R == Reach(first, n)
           p2 == IF first = NULL THEN p ELSE [p EXCEPT ![first] = b]
<1>1. R \in SUBSET Blocks /\ Closed(R, first, n) /\ Reach(b, n) = R \cup {b} /\ b \notin R
  BY ReachIs, ReachAdd
<1>2. /\ first # NULL => p[first] = NULL
      /\ \A c \in R : /\ n[c] # NULL => p[n[c]] = c
                      /\ IF p[c] = NULL THEN c = first ELSE p[c] \in R /\ n[p[c]] = c
  BY DEF BackLinked
<1> HIDE DEF R
<1>3. /\ first # NULL => first \in R /\ first # b /\ p2[first] = b
      /\ \A c \in Blocks : c # first => p2[c] = p[c]
  BY <1>1, QueueAssumption DEF Closed, Links
<1>4. p2[b] = NULL /\ b # NULL
  BY <1>3, QueueAssumption
<1>5. ASSUME NEW c \in R
      PROVE  /\ n[c] # NULL => p2[n[c]] = c
             /\ IF p2[c] = NULL THEN c = b ELSE p2[c] \in R \cup {b} /\ n[p2[c]] = c
  <2>1. n[c] # NULL => n[c] \in R /\ n[c] # first
    BY <1>1, <1>2, QueueAssumption DEF Closed
  <2> QED
    BY <1>1, <1>2, <1>3, <2>1, QueueAssumption
<1>6. /\ n[b] # NULL => p2[n[b]] = b
      /\ IF p2[b] = NULL THEN b = b ELSE p2[b] \in R \cup {b} /\ n[p2[b]] = b
  BY <1>3, <1>4
<1> HIDE DEF p2
<1>7. BackLinked(b, n, p2)
  BY <1>1, <1>4, <1>5, <1>6 DEF BackLinked
<1> QED
  BY <1>7 DEF p2

(* The removal of b takes it, and nothing else, out of the list.           *)
LEMMA ReachRemove ==
    ASSUME NEW first \in Blocks \cup {NULL}, NEW n \in Links, NEW p \in Links,
           BackLinked(first, n, p), NEW b \in Reach(first, n),
           NEW first2, NEW n2,
           first2 = IF p[b] = NULL THEN n[b] ELSE first,
           n2 = IF p[b] = NULL THEN n ELSE [n EXCEPT ![p[b]] = n[b]]
    PROVE  /\ Reach(first2, n2) = Reach(first, n) \ {b}
           /\ n[b] # b
           /\ first2 \in Blocks \cup {NULL} /\ n2 \in Links
<1> DEFINE R == Reach(first, n)
           T == Reach(first2, n2)
<1>1. R \in SUBSET Blocks /\ Closed(R, first, n) /\ (\A S : Closed(S, first, n) => R \subseteq S) /\ b \in R
  BY ReachIs
<1>2. /\ first # NULL => p[first] = NULL
      /\ \A c \in R : /\ n[c] # NULL => p[n[c]] = c
                      /\ IF p[c] = NULL THEN c = first ELSE p[c] \in R /\ n[p[c]] = c
  BY DEF BackLinked
<1>3. first2 \in Blocks \cup {NULL} /\ n2 \in Links
  BY <1>1 DEF Links
<1>4. Closed(T, first2, n2) /\ \A S : Closed(S, first2, n2) => T \subseteq S
  BY <1>3, ReachIs
<1> HIDE DEF R, T
<1>5. \A c \in R : n[c] = b => p[b] = c
  BY <1>1, <1>2, QueueAssumption
<1>6. n[b] # b
  <2>1. CASE p[b] = NULL
    BY <1>1, <1>5, <2>1, QueueAssumption
  <2>2. SUFFICES ASSUME p[b] # NULL, n[b] = b PROVE FALSE
    BY <2>1
  <2>3. p[b] = b /\ first # b
    BY <1>1, <1>2, <1>5, <2>2
  <2>4. Closed(R \ {b}, first, n)
    BY <1>1, <1>5, <2>3 DEF Closed
  <2> QED
    BY <1>1, <2>4
<1>7. p[b] # NULL => first # b /\ p[b] \in R /\ p[b] # b /\ n[p[b]] = b
  BY <1>1, <1>2, <1>6, QueueAssumption
<1>8. \A c \in Blocks : n2[c] = IF p[b] # NULL /\ c = p[b] THEN n[b] ELSE n[c]
  BY DEF Links
<1>9. Closed(R \ {b}, first2, n2)
  <2>1. first2 \in (R \ {b}) \cup {NULL}
    BY <1>1, <1>6, <1>7 DEF Closed
  <2>2. ASSUME NEW c \in R \ {b}
        PROVE  n2[c] \in (R \ {b}) \cup {NULL}
    <3>1. CASE p[b] # NULL /\ c = p[b]
      BY <1>1, <1>6, <1>8, <3>1 DEF Closed
    <3>2. CASE ~(p[b] # NULL /\ c = p[b])
      <4>1. n2[c] = n[c] /\ (n[c] = b => p[b] = c)
        BY <1>1, <1>5, <1>8, <3>2
      <4>2. n[c] # b
        BY <1>1, <4>1, <3>2, QueueAssumption
      <4> QED
        BY <1>1, <4>1, <4>2 DEF Closed
    <3> QED
      BY <3>1, <3>2
  <2> QED
    BY <2>1, <2>2 DEF Closed
<1>10. p[b] = NULL => first = b
  BY <1>1, <1>2
<1>11. T \in SUBSET Blocks
  BY <1>4, <1>9, <1>1
<1>12. Closed(T \cup {b}, first, n)
  <2>1. CASE p[b] = NULL
    BY <1>4, <1>10, <1>8, <1>11, <2>1 DEF Closed
  <2>2. CASE p[b] # NULL /\ p[b] \in T
    BY <1>4, <1>7, <1>8, <1>11, <2>2 DEF Closed
  <2>3. CASE p[b] # NULL /\ p[b] \notin T
    <3>1. Closed(T, first, n)
      BY <1>4, <1>7, <1>8, <1>11, <2>3 DEF Closed
    <3> QED
      BY <1>1, <1>7, <2>3, <3>1
  <2> QED
    BY <2>1, <2>2, <2>3
<1>13. T = R \ {b}
  BY <1>1, <1>4, <1>9, <1>12
<1> QED
  BY <1>3, <1>6, <1>13 DEF R, T

LEMMA BackLinkedRemove ==
    ASSUME NEW first \in Blocks \cup {NULL}, NEW n \in Links, NEW p \in Links,
           BackLinked(first, n, p), NEW b \in Reach(first, n),
           NEW first2, NEW n2, NEW p2,
           first2 = IF p[b] = NULL THEN n[b] ELSE first,
           n2 = IF p[b] = NULL THEN n ELSE [n EXCEPT ![p[b]] = n[b]],
           p2 = IF n[b] = NULL THEN p ELSE [p EXCEPT ![n[b]] = p[b]]
    PROVE  BackLinked(first2, n2, p2)
<1> DEFINE R == Reach(first, n)
<1>1. R \in SUBSET Blocks /\ Closed(R, first, n) /\ b \in R
  BY ReachIs
<1>2. /\ first # NULL => p[first] = NULL
      /\ \A c \in R : /\ n[c] # NULL => p[n[c]] = c
                      /\ IF p[c] = NULL THEN c = first ELSE p[c] \in R /\ n[p[c]] = c
  BY DEF BackLinked
<1>3. Reach(first2, n2) = R \ {b} /\ n[b] # b
  BY ReachRemove
<1> HIDE DEF R
<1>4. /\ \A c \in Blocks : n2[c] = IF p[b] # NULL /\ c = p[b] THEN n[b] ELSE n[c]
      /\ \A c \in Blocks : p2[c] = IF n[b] # NULL /\ c = n[b] THEN p[b] ELSE p[c]
  BY DEF Links
<1>5. /\ p[b] # NULL => p[b] \in R \ {b} /\ n[p[b]] = b
      /\ n[b] # NULL => n[b] \in R \ {b} /\ p[n[b]] = b
      /\ p[b] = NULL => first = b
  BY <1>1, <1>2, <1>3 DEF Closed
<1>6. first2 # NULL => p2[first2] = NULL
  BY <1>1, <1>2, <1>4, <1>5, QueueAssumption DEF Closed
<1>7. ASSUME NEW c \in R \ {b}
      PROVE  /\ n2[c] # NULL => p2[n2[c]] = c
             /\ IF p2[c] = NULL THEN c = first2 ELSE p2[c] \in R \ {b} /\ n2[p2[c]] = c
  <2>1. n[c] # NULL => n[c] \in R /\ p[n[c]] = c
    BY <1>1, <1>2 DEF Closed
  <2>2. IF p[c] = NULL THEN c = first ELSE p[c] \in R /\ n[p[c]] = c
    BY <1>2
  <2>3. n2[c] # NULL => p2[n2[c]] = c
    <3>1. CASE p[b] # NULL /\ c = p[b]
      BY <1>1, <1>4, <1>5, <3>1
    <3>2. CASE ~(p[b] # NULL /\ c = p[b])
      BY <1>1, <1>4, <1>5, <2>1, <3>2, QueueAssumption
    <3> QED
      BY <3>1, <3>2
  <2>4. CASE n[b] # NULL /\ c = n[b]
    <3>1. p2[c] = p[b] /\ p[c] = b
      BY <1>1, <1>4, <1>5, <2>4
    <3>2. p[b] = NULL => c = first2
      BY <2>4
    <3>3. p[b] # NULL => n2[p[b]] = c
      BY <1>1, <1>4, <1>5, <2>4
    <3> QED
      BY <1>5, <2>3, <3>1, <3>2, <3>3
  <2>5. CASE ~(n[b] # NULL /\ c = n[b])
    <3>1. p2[c] = p[c] /\ p[c] # b
      BY <1>1, <1>2, <1>4, <2>2, <2>5, QueueAssumption
    <3>2. p[c] = NULL => c = first2
      BY <1>5, <2>2
    <3>3. p[c] # NULL => p[c] # p[b] /\ n2[p[c]] = c
      BY <1>1, <1>4, <1>5, <2>2, <3>1
    <3> QED
      BY <2>2, <2>3, <3>1, <3>2, <3>3
  <2> QED
    BY <2>4, <2>5
<1> QED
  BY <1>3, <1>6, <1>7 DEF BackLinked

-----------------------------------------------------------------------------
(* The calls of the harness: what the steps of its list come to.           *)
Takes(b) ==
    /\ b \notin Known /\ Known' = Known \cup {b}
    /\ counting = 0 /\ counting' = 1 /\ blk' = b
    /\ UNCHANGED <<allocated_count, cautious_mode>>

Gives(b) ==
    /\ Known' = Known \ {b}
    /\ counting = 0 /\ counting' = -1
    /\ UNCHANGED <<allocated_count, cautious_mode>>

Counted ==
    /\ Known' = Known
    /\ \/ UNCHANGED <<counting, allocated_count, blk>>
       \/ counting' = 0 /\ allocated_count' = allocated_count + counting
    /\ UNCHANGED cautious_mode

LEMMA Typed ==
    ASSUME HarnessTypeOK
    PROVE  /\ live \in SUBSET Blocks /\ allocated \in Blocks \cup {NULL}
           /\ bnext \in Links /\ bprev \in Links
           /\ step # "none" => blk \in Blocks
           /\ torn \in BOOLEAN
           /\ step \in {"none", "link", "list", "count", "unlink", "back", "free", "uncount"}
BY DEF HarnessTypeOK, Links

LEMMA ListedIs ==
    ASSUME HarnessTypeOK
    PROVE  /\ Listed \in SUBSET Blocks
           /\ allocated # NULL => allocated \in Listed
           /\ \A c \in Listed : bnext[c] # NULL => bnext[c] \in Listed
BY ReachIs, Typed DEF Listed, Closed

LEMMA KnownType == HarnessTypeOK => Known \subseteq Blocks
<1> SUFFICES ASSUME HarnessTypeOK PROVE Known \subseteq Blocks
  OBVIOUS
<1>1. Listed \subseteq Blocks
  BY ListedIs
<1>2. live \subseteq Blocks /\ (Adding => blk \in Blocks)
  BY DEF HarnessTypeOK, Adding
<1> QED
  BY <1>1, <1>2 DEF Known

LEMMA KnownSame ==
    UNCHANGED blocks =>
        Known' = Known /\ counting' = counting /\ (HarnessTypeOK => HarnessTypeOK')
<1> SUFFICES ASSUME UNCHANGED blocks
             PROVE  Known' = Known /\ counting' = counting /\ (HarnessTypeOK => HarnessTypeOK')
  OBVIOUS
<1>1. UNCHANGED <<live, allocated, bnext, bprev, step, blk, torn>>
  BY DEF blocks
<1>2. Listed' = Listed
  BY <1>1 DEF Listed
<1>3. (Adding' <=> Adding) /\ (Removing' <=> Removing) /\ counting' = counting
  BY <1>1 DEF Adding, Removing, counting
<1>4. HarnessTypeOK => HarnessTypeOK'
  BY <1>1 DEF HarnessTypeOK
<1> QED
  BY <1>1, <1>2, <1>3, <1>4 DEF Known

LEMMA HarnessSame == HarnessInv /\ UNCHANGED <<blocks, alarms>> => HarnessInv'
<1> SUFFICES ASSUME HarnessInv, UNCHANGED <<blocks, alarms>> PROVE HarnessInv'
  OBVIOUS
<1>1. UNCHANGED <<live, allocated, bnext, bprev, step, blk, torn, alarms>>
  BY DEF blocks
<1>2. Listed' = Listed /\ Prevs' = Prevs /\ HarnessTypeOK'
  BY <1>1, KnownSame DEF Listed, Prevs, HarnessInv
<1>3. (Adding' <=> Adding) /\ (Removing' <=> Removing)
  BY <1>1 DEF Adding, Removing
<1> QED
  BY <1>1, <1>2, <1>3 DEF HarnessInv

LEMMA AtRest == step = "none" => counting = 0
BY DEF counting

LEMMA NotAtRest == HarnessTypeOK /\ counting = 0 => step = "none"
BY DEF counting, HarnessTypeOK

LEMMA KnownIsLive == HarnessInv => Known \subseteq live
<1> SUFFICES ASSUME HarnessInv PROVE Known \subseteq live
  OBVIOUS
<1>1. ~torn => Listed \subseteq live
  BY DEF HarnessInv
<1>2. Adding => blk \in live
  BY DEF HarnessInv, Adding
<1> QED
  BY <1>1, <1>2 DEF Known

LEMMA KnownAtRest == step = "none" => Known = IF torn THEN live ELSE Listed
BY DEF Known, Adding, Removing

LEMMA MallocStep ==
    ASSUME HarnessInv, step = "none", UNCHANGED alarms, NEW b \in Blocks, test_malloc(b)
    PROVE  HarnessInv' /\ Takes(b)
<1>1. HarnessTypeOK /\ b # NULL
  BY QueueAssumption DEF HarnessInv
<1>2. /\ b \notin live /\ live' = live \cup {b}
      /\ bnext' = [bnext EXCEPT ![b] = allocated] /\ bprev' = [bprev EXCEPT ![b] = NULL]
      /\ blk' = b /\ step' = (IF allocated = NULL THEN "list" ELSE "link")
      /\ UNCHANGED <<allocated, allocated_count, cautious_mode, torn>>
  BY DEF test_malloc
<1>3. HarnessTypeOK'
  BY <1>1, <1>2 DEF HarnessTypeOK
<1>4. /\ allocated \in Blocks \cup {NULL} /\ bnext \in Links /\ bprev \in Links
      /\ bnext' \in Links /\ bprev' \in Links
  BY <1>1, <1>2, Typed DEF Links
<1>5. ~torn => b \notin Listed /\ Listed' = Listed
  <2>1. SUFFICES ASSUME ~torn PROVE b \notin Listed /\ Listed' = Listed
    OBVIOUS
  <2>2. b \notin Listed /\ Listed \in SUBSET Blocks
    BY <1>1, <1>2, <2>1, ListedIs DEF HarnessInv
  <2>3. \A c \in Listed : bnext'[c] = bnext[c]
    BY <1>2, <1>4, <2>2 DEF Links
  <2>4. Reach(allocated, bnext') = Reach(allocated, bnext)
    BY <1>4, <2>3, ReachFrame DEF Listed
  <2> QED
    BY <1>2, <2>2, <2>4 DEF Listed
<1>6. ~torn => BackLinked(allocated', bnext', Prevs')
  <2>1. SUFFICES ASSUME ~torn PROVE BackLinked(allocated', bnext', Prevs')
    OBVIOUS
  <2>2. BackLinked(allocated, bnext, bprev)
    BY <2>1 DEF HarnessInv, Prevs
  <2>3. \A c \in Blocks : c # b => Prevs'[c] = bprev[c] /\ bnext'[c] = bnext[c]
    BY <1>2, <1>4, <2>2 DEF Prevs, BackLinked, Links
  <2>4. Listed \in SUBSET Blocks /\ b \notin Listed /\ (allocated # NULL => allocated \in Listed)
    BY <1>1, <1>5, <2>1, ListedIs
  <2>5. \A c \in Listed : bnext[c] # NULL => bnext[c] \in Listed
    BY <1>1, ListedIs
  <2>6. Reach(allocated', bnext') = Listed /\ Reach(allocated, bnext) = Listed
    BY <1>5, <2>1 DEF Listed
  <2>7. allocated' # NULL => Prevs'[allocated'] = NULL
    BY <1>2, <2>2, <2>3, <2>4 DEF BackLinked
  <2>8. ASSUME NEW c \in Listed
        PROVE  /\ bnext'[c] # NULL => Prevs'[bnext'[c]] = c
               /\ IF Prevs'[c] = NULL THEN c = allocated'
                  ELSE Prevs'[c] \in Listed /\ bnext'[Prevs'[c]] = c
    <3>1. c \in Blocks /\ c # b /\ bnext'[c] = bnext[c] /\ Prevs'[c] = bprev[c]
      BY <2>3, <2>4
    <3>2. /\ bnext[c] # NULL => bprev[bnext[c]] = c
          /\ IF bprev[c] = NULL THEN c = allocated
             ELSE bprev[c] \in Listed /\ bnext[bprev[c]] = c
      BY <2>2, <2>6 DEF BackLinked
    <3>3. bnext[c] # NULL => bnext[c] \in Blocks /\ bnext[c] # b
      BY <2>4, <2>5
    <3> QED
      BY <1>2, <2>3, <2>4, <3>1, <3>2, <3>3
  <2> QED
    BY <2>6, <2>7, <2>8 DEF BackLinked
<1>7. Adding' /\ ~Removing' /\ ~Adding /\ ~Removing
  BY <1>2 DEF Adding, Removing
<1>8. bnext'[b] = allocated' /\ bprev'[b] = NULL
  BY <1>2, <1>4 DEF Links
<1>9. Takes(b)
  <2>1. b \notin Known
    BY <1>2, KnownIsLive
  <2>2. Known' = Known \cup {b}
    BY <1>2, <1>5, <1>7 DEF Known
  <2>3. counting = 0 /\ counting' = 1
    BY <1>2 DEF counting
  <2> QED
    BY <1>2, <2>1, <2>2, <2>3 DEF Takes
<1>10. HarnessInv'
  <2>1. ~torn => Listed \subseteq live
    BY DEF HarnessInv
  <2>2. alarms = 0 => ~torn /\ live = Listed
    BY <1>7 DEF HarnessInv
  <2>3. step' = "link" => allocated' # NULL
    BY <1>2
  <2>4. step' \in {"link", "list"}
    BY <1>2
  <2>5. alarms' = 0 => ~torn' /\ live' = Listed' \cup {blk'}
    BY <1>2, <1>5, <2>2
  <2>6. ~torn' => Listed' \subseteq live' /\ blk' \notin Listed'
    BY <1>2, <1>5, <2>1
  <2> QED
    BY <1>2, <1>3, <1>6, <1>7, <1>8, <2>3, <2>4, <2>5, <2>6 DEF HarnessInv
<1> QED
  BY <1>9, <1>10

LEMMA FreeGives == ASSUME step = "none", NEW b, test_free(b) PROVE Gives(b)
<1>1. /\ blk' = b /\ step' = "unlink"
      /\ UNCHANGED <<live, allocated, bnext, bprev, allocated_count, cautious_mode, torn>>
  BY DEF test_free
<1>2. Listed' = Listed
  BY <1>1 DEF Listed
<1>3. Known' = Known \ {b} /\ counting = 0 /\ counting' = -1
  BY <1>1, <1>2 DEF Known, Adding, Removing, counting
<1> QED
  BY <1>1, <1>3 DEF Gives

LEMMA FreeStep ==
    ASSUME HarnessInv, step = "none", UNCHANGED alarms, NEW b \in Known, test_free(b)
    PROVE  HarnessInv'
<1>1. /\ blk' = b /\ step' = "unlink"
      /\ UNCHANGED <<live, allocated, bnext, bprev, allocated_count, cautious_mode, torn>>
  BY DEF test_free
<1>2. HarnessTypeOK /\ b \in live /\ b \in Blocks /\ (~torn => b \in Listed)
  BY KnownIsLive, KnownType, KnownAtRest DEF HarnessInv
<1>3. HarnessTypeOK'
  BY <1>1, <1>2 DEF HarnessTypeOK
<1>4. Listed' = Listed /\ Prevs' = Prevs
  BY <1>1 DEF Listed, Prevs
<1>5. Removing' /\ ~Adding' /\ ~Adding /\ ~Removing
  BY <1>1 DEF Adding, Removing
<1>6. alarms' = 0 => ~torn' /\ live' = Listed' \cup {blk'}
  BY <1>1, <1>2, <1>4, <1>5 DEF HarnessInv
<1> QED
  BY <1>1, <1>2, <1>3, <1>4, <1>5, <1>6 DEF HarnessInv

LEMMA LinkOldFirstStep ==
    ASSUME HarnessInv, UNCHANGED alarms, LinkOldFirst
    PROVE  HarnessInv' /\ Counted
<1>1. /\ step = "link" /\ step' = "list" /\ bprev' = [bprev EXCEPT ![allocated] = blk]
      /\ UNCHANGED <<live, allocated, bnext, allocated_count, cautious_mode, blk, torn>>
  BY DEF LinkOldFirst
<1>2. HarnessTypeOK /\ allocated # NULL /\ blk \in Blocks /\ allocated \in Blocks
  BY <1>1, Typed DEF HarnessInv
<1>3. HarnessTypeOK'
  BY <1>1, <1>2 DEF HarnessTypeOK
<1>4. bprev \in Links /\ Listed' = Listed
  BY <1>1, <1>2, Typed DEF Listed
<1>5. ~torn => Prevs' = Prevs /\ blk # allocated /\ bprev'[blk] = bprev[blk]
  <2>1. SUFFICES ASSUME ~torn PROVE Prevs' = Prevs /\ blk # allocated /\ bprev'[blk] = bprev[blk]
    OBVIOUS
  <2>2. Prevs = bprev /\ bprev[allocated] = NULL /\ blk \notin Listed
    BY <1>1, <1>2, <2>1 DEF Prevs, HarnessInv, BackLinked, Adding
  <2>3. Prevs' = [bprev' EXCEPT ![allocated] = NULL]
    BY <1>1, <1>2 DEF Prevs
  <2>4. Prevs' = bprev
    BY <1>1, <1>2, <1>4, <2>2, <2>3 DEF Links
  <2>5. allocated \in Listed
    BY <1>2, ListedIs
  <2>6. bprev'[blk] = bprev[blk]
    BY <1>1, <1>2, <1>4, <2>2, <2>5 DEF Links
  <2> QED
    BY <2>2, <2>4, <2>5, <2>6
<1>6. Adding /\ Adding' /\ ~Removing /\ ~Removing' /\ counting' = counting
  BY <1>1 DEF Adding, Removing, counting
<1>7. Known' = Known
  BY <1>1, <1>4, <1>6 DEF Known
<1>8. HarnessInv'
  <2>1. bprev'[allocated] = blk
    BY <1>1, <1>2, <1>4 DEF Links
  <2> QED
    BY <1>1, <1>3, <1>4, <1>5, <1>6, <2>1 DEF HarnessInv
<1> QED
  BY <1>1, <1>6, <1>7, <1>8 DEF Counted

LEMMA ListNewStep ==
    ASSUME HarnessInv, UNCHANGED alarms, ListNew
    PROVE  HarnessInv' /\ Counted
<1>1. /\ step = "list" /\ step' = "count" /\ allocated' = blk
      /\ UNCHANGED <<live, bnext, bprev, allocated_count, cautious_mode, blk, torn>>
  BY DEF ListNew
<1>2. /\ HarnessTypeOK /\ blk \in Blocks /\ blk # NULL /\ blk \in live
      /\ allocated \in Blocks \cup {NULL} /\ bnext \in Links /\ bprev \in Links
  BY <1>1, Typed, QueueAssumption DEF HarnessInv
<1>3. HarnessTypeOK'
  BY <1>1, <1>2 DEF HarnessTypeOK
<1>4. Adding /\ ~Adding' /\ ~Removing /\ ~Removing' /\ counting' = counting
  BY <1>1 DEF Adding, Removing, counting
<1>5. ~torn => /\ Listed' = Listed \cup {blk}
               /\ BackLinked(allocated', bnext', Prevs')
  <2>1. SUFFICES ASSUME ~torn
                 PROVE  Listed' = Listed \cup {blk} /\ BackLinked(allocated', bnext', Prevs')
    OBVIOUS
  <2>2. blk \notin Listed /\ bnext[blk] = allocated /\ bprev[blk] = NULL
    BY <1>4, <2>1 DEF HarnessInv
  <2>3. Reach(blk, bnext) = Reach(allocated, bnext) \cup {blk}
    BY <1>2, <2>2, ReachAdd
  <2>4. BackLinked(allocated, bnext, Prevs)
    BY <2>1 DEF HarnessInv
  <2> DEFINE p == Prevs
  <2>5. p \in Links /\ p[blk] = NULL /\ Prevs' = bprev
    <3>1. allocated # blk
      BY <1>2, <2>2, ListedIs
    <3> QED
      BY <1>1, <1>2, <2>2, <3>1 DEF Prevs, Links
  <2>6. bprev = IF allocated = NULL THEN p ELSE [p EXCEPT ![allocated] = blk]
    <3>1. CASE allocated = NULL
      BY <1>1, <3>1 DEF Prevs
    <3>2. CASE allocated # NULL
      <4>1. p = [bprev EXCEPT ![allocated] = NULL] /\ allocated \in Blocks
        BY <1>1, <1>2, <3>2 DEF Prevs
      <4>2. bprev[allocated] = blk
        BY <1>1, <2>1, <3>2 DEF HarnessInv
      <4> HIDE DEF p
      <4> QED
        BY <1>2, <3>2, <4>1, <4>2 DEF Links
    <3> QED
      BY <3>1, <3>2
  <2> HIDE DEF p
  <2>7. BackLinked(blk, bnext, bprev)
    BY <1>2, <2>2, <2>4, <2>5, <2>6, BackLinkedAdd DEF Listed, p
  <2> QED
    BY <1>1, <2>3, <2>5, <2>7 DEF Listed
<1>6. Known' = Known
  BY <1>1, <1>2, <1>4, <1>5 DEF Known
<1>7. HarnessInv'
  <2>1. ~torn => Listed \subseteq live
    BY DEF HarnessInv
  <2>2. alarms = 0 => ~torn /\ live = Listed \cup {blk}
    BY <1>4 DEF HarnessInv
  <2> QED
    BY <1>1, <1>2, <1>3, <1>4, <1>5, <2>1, <2>2 DEF HarnessInv
<1> QED
  BY <1>1, <1>4, <1>6, <1>7 DEF Counted

LEMMA CountNewStep ==
    ASSUME HarnessInv, UNCHANGED alarms, CountNew, allocated_count \in Int
    PROVE  HarnessInv' /\ Counted
<1>1. /\ step = "count" /\ step' = "none" /\ blk' = NULL /\ allocated_count' = allocated_count + 1
      /\ UNCHANGED <<live, allocated, bnext, bprev, cautious_mode, torn>>
  BY DEF CountNew
<1>2. HarnessTypeOK'
  BY <1>1 DEF HarnessInv, HarnessTypeOK
<1>3. ~Adding /\ ~Adding' /\ ~Removing /\ ~Removing' /\ counting = 1 /\ counting' = 0
  BY <1>1 DEF Adding, Removing, counting
<1>4. Listed' = Listed /\ Prevs' = Prevs
  BY <1>1 DEF Listed, Prevs
<1>5. Known' = Known
  BY <1>1, <1>3, <1>4 DEF Known
<1>6. HarnessInv'
  BY <1>1, <1>2, <1>3, <1>4 DEF HarnessInv
<1> QED
  BY <1>1, <1>3, <1>5, <1>6 DEF Counted

LEMMA UnlinkBlockStep ==
    ASSUME HarnessInv, UNCHANGED alarms, UnlinkBlock
    PROVE  HarnessInv' /\ Counted
<1>1. /\ step = "unlink" /\ step' = (IF bnext[blk] # NULL THEN "back" ELSE "free")
      /\ allocated' = IF bprev[blk] = NULL THEN bnext[blk] ELSE allocated
      /\ bnext' = IF bprev[blk] = NULL THEN bnext ELSE [bnext EXCEPT ![bprev[blk]] = bnext[blk]]
      /\ UNCHANGED <<live, bprev, allocated_count, cautious_mode, blk, torn>>
  BY DEF UnlinkBlock
<1>2. /\ HarnessTypeOK /\ blk \in Blocks /\ blk \in live
      /\ allocated \in Blocks \cup {NULL} /\ bnext \in Links /\ bprev \in Links
  BY <1>1, Typed DEF HarnessInv
<1>3. HarnessTypeOK'
  <2>1. allocated' \in Blocks \cup {NULL} /\ bnext' \in Links
    BY <1>1, <1>2 DEF Links
  <2>2. step' \in {"back", "free"}
    BY <1>1
  <2> QED
    BY <1>1, <1>2, <2>1, <2>2 DEF HarnessTypeOK, Links
<1>4. ~Adding /\ ~Adding' /\ Removing /\ Removing' /\ counting' = counting
  BY <1>1 DEF Adding, Removing, counting
<1>5. bnext'[blk] = bnext[blk]
  BY <1>1, <1>2 DEF Links
<1>6. ~torn => /\ blk \in Listed /\ Listed' = Listed \ {blk}
               /\ BackLinked(allocated', bnext', Prevs')
               /\ step' = "back" => bnext'[blk] \in Listed'
  <2>1. SUFFICES ASSUME ~torn
                 PROVE  /\ blk \in Listed /\ Listed' = Listed \ {blk}
                        /\ BackLinked(allocated', bnext', Prevs')
                        /\ step' = "back" => bnext'[blk] \in Listed'
    OBVIOUS
  <2>2. BackLinked(allocated, bnext, bprev) /\ blk \in Reach(allocated, bnext)
    BY <1>1, <2>1 DEF HarnessInv, Prevs, Listed
  <2>3. Reach(allocated', bnext') = Reach(allocated, bnext) \ {blk} /\ bnext[blk] # blk
    BY <1>1, <1>2, <2>2, ReachRemove
  <2>4. Prevs' = IF bnext[blk] = NULL THEN bprev ELSE [bprev EXCEPT ![bnext[blk]] = bprev[blk]]
    BY <1>1, <1>5 DEF Prevs
  <2>5. BackLinked(allocated', bnext', Prevs')
    BY <1>1, <1>2, <2>2, <2>4, BackLinkedRemove
  <2>6. step' = "back" => bnext'[blk] \in Listed \ {blk}
    BY <1>1, <1>2, <1>5, <2>2, <2>3, ListedIs DEF Listed
  <2> QED
    BY <2>2, <2>3, <2>5, <2>6 DEF Listed
<1>7. Known' = Known
  BY <1>1, <1>4, <1>6 DEF Known
<1>8. HarnessInv'
  <2>1. ~torn => Listed \subseteq live
    BY DEF HarnessInv
  <2>2. alarms = 0 => ~torn /\ live = Listed \cup {blk}
    BY <1>4 DEF HarnessInv
  <2>3. step' \in {"back", "free"} /\ (step' = "back" => bnext'[blk'] # NULL)
    BY <1>1, <1>5
  <2>4. alarms' = 0 => ~torn' /\ live' = Listed' \cup {blk'}
    BY <1>1, <1>2, <1>6, <2>2
  <2> QED
    BY <1>1, <1>2, <1>3, <1>4, <1>6, <2>1, <2>3, <2>4 DEF HarnessInv
<1> QED
  BY <1>1, <1>4, <1>7, <1>8 DEF Counted

LEMMA LinkNextStep ==
    ASSUME HarnessInv, UNCHANGED alarms, LinkNext
    PROVE  HarnessInv' /\ Counted
<1>1. /\ step = "back" /\ step' = "free" /\ bprev' = [bprev EXCEPT ![bnext[blk]] = bprev[blk]]
      /\ UNCHANGED <<live, allocated, bnext, allocated_count, cautious_mode, blk, torn>>
  BY DEF LinkNext
<1>2. HarnessTypeOK /\ blk \in Blocks /\ blk \in live /\ bprev \in Links
  BY <1>1, Typed DEF HarnessInv
<1>3. HarnessTypeOK'
  <2>1. bprev' \in Links
    BY <1>1, <1>2 DEF Links
  <2> QED
    BY <1>1, <1>2, <2>1 DEF HarnessTypeOK, Links
<1>4. ~Adding /\ ~Adding' /\ Removing /\ Removing' /\ counting' = counting
  BY <1>1 DEF Adding, Removing, counting
<1>5. Listed' = Listed /\ Prevs' = Prevs
  BY <1>1 DEF Listed, Prevs
<1>6. Known' = Known
  BY <1>1, <1>4, <1>5 DEF Known
<1>7. HarnessInv'
  BY <1>1, <1>2, <1>3, <1>4, <1>5 DEF HarnessInv
<1> QED
  BY <1>1, <1>4, <1>6, <1>7 DEF Counted

LEMMA FreeBlockStep ==
    ASSUME HarnessInv, UNCHANGED alarms, FreeBlock
    PROVE  HarnessInv' /\ Counted
<1>1. /\ step = "free" /\ step' = "uncount" /\ live' = live \ {blk}
      /\ bnext' = [bnext EXCEPT ![blk] = NULL] /\ bprev' = [bprev EXCEPT ![blk] = NULL]
      /\ UNCHANGED <<allocated, allocated_count, cautious_mode, blk, torn>>
  BY DEF FreeBlock
<1>2. /\ HarnessTypeOK /\ blk \in Blocks /\ blk \in live
      /\ allocated \in Blocks \cup {NULL} /\ bnext \in Links /\ bprev \in Links
  BY <1>1, Typed DEF HarnessInv
<1>3. HarnessTypeOK' /\ bnext' \in Links
  <2>1. bnext' \in Links /\ bprev' \in Links
    BY <1>1, <1>2 DEF Links
  <2> QED
    BY <1>1, <1>2, <2>1 DEF HarnessTypeOK, Links
<1>4. ~Adding /\ ~Adding' /\ Removing /\ ~Removing' /\ counting' = counting
  BY <1>1 DEF Adding, Removing, counting
<1>5. ~torn => blk \notin Listed /\ Listed' = Listed
  <2>1. SUFFICES ASSUME ~torn PROVE blk \notin Listed /\ Listed' = Listed
    OBVIOUS
  <2>2. blk \notin Listed /\ Listed \in SUBSET Blocks
    BY <1>1, <1>2, <2>1, ListedIs DEF HarnessInv
  <2>3. \A c \in Listed : bnext'[c] = bnext[c]
    BY <1>1, <1>2, <2>2 DEF Links
  <2>4. Reach(allocated, bnext') = Reach(allocated, bnext)
    BY <1>2, <1>3, <2>3, ReachFrame DEF Listed
  <2> QED
    BY <1>1, <2>2, <2>4 DEF Listed
<1>6. ~torn => BackLinked(allocated', bnext', Prevs')
  <2>1. SUFFICES ASSUME ~torn PROVE BackLinked(allocated', bnext', Prevs')
    OBVIOUS
  <2>2. BackLinked(allocated, bnext, bprev)
    BY <1>1, <2>1 DEF HarnessInv, Prevs
  <2>3. \A c \in Blocks : c # blk => Prevs'[c] = bprev[c] /\ bnext'[c] = bnext[c]
    BY <1>1, <1>2 DEF Prevs, Links
  <2>4. Listed \in SUBSET Blocks /\ blk \notin Listed /\ (allocated # NULL => allocated \in Listed)
    BY <1>2, <1>5, <2>1, ListedIs
  <2>5. \A c \in Listed : bnext[c] # NULL => bnext[c] \in Listed
    BY <1>2, ListedIs
  <2>6. Reach(allocated', bnext') = Listed /\ Reach(allocated, bnext) = Listed
    BY <1>5, <2>1 DEF Listed
  <2>7. allocated' # NULL => Prevs'[allocated'] = NULL
    BY <1>1, <2>2, <2>3, <2>4 DEF BackLinked
  <2>8. ASSUME NEW c \in Listed
        PROVE  /\ bnext'[c] # NULL => Prevs'[bnext'[c]] = c
               /\ IF Prevs'[c] = NULL THEN c = allocated'
                  ELSE Prevs'[c] \in Listed /\ bnext'[Prevs'[c]] = c
    <3>1. c \in Blocks /\ c # blk /\ bnext'[c] = bnext[c] /\ Prevs'[c] = bprev[c]
      BY <2>3, <2>4
    <3>2. /\ bnext[c] # NULL => bprev[bnext[c]] = c
          /\ IF bprev[c] = NULL THEN c = allocated
             ELSE bprev[c] \in Listed /\ bnext[bprev[c]] = c
      BY <2>2, <2>6 DEF BackLinked
    <3>3. bnext[c] # NULL => bnext[c] \in Blocks /\ bnext[c] # blk
      BY <2>4, <2>5
    <3> QED
      BY <1>1, <2>3, <2>4, <3>1, <3>2, <3>3
  <2> QED
    BY <2>6, <2>7, <2>8 DEF BackLinked
<1>7. Known' = Known
  BY <1>1, <1>4, <1>5 DEF Known
<1>8. HarnessInv'
  <2>1. ~torn => Listed \subseteq live
    BY DEF HarnessInv
  <2>2. alarms = 0 => ~torn /\ live = Listed \cup {blk}
    BY <1>4 DEF HarnessInv
  <2>3. alarms' = 0 => ~torn' /\ live' = Listed'
    BY <1>1, <1>5, <2>2
  <2>4. ~torn' => Listed' \subseteq live'
    BY <1>1, <1>5, <2>1
  <2> QED
    BY <1>1, <1>3, <1>4, <1>6, <2>3, <2>4 DEF HarnessInv
<1> QED
  BY <1>1, <1>4, <1>7, <1>8 DEF Counted

LEMMA CountFreedStep ==
    ASSUME HarnessInv, UNCHANGED alarms, CountFreed, allocated_count \in Int
    PROVE  HarnessInv' /\ Counted
<1>1. /\ step = "uncount" /\ step' = "none" /\ blk' = NULL /\ allocated_count' = allocated_count - 1
      /\ UNCHANGED <<live, allocated, bnext, bprev, cautious_mode, torn>>
  BY DEF CountFreed
<1>2. HarnessTypeOK'
  BY <1>1 DEF HarnessInv, HarnessTypeOK
<1>3. ~Adding /\ ~Adding' /\ ~Removing /\ ~Removing' /\ counting = -1 /\ counting' = 0
  BY <1>1 DEF Adding, Removing, counting
<1>4. Listed' = Listed /\ Prevs' = Prevs
  BY <1>1 DEF Listed, Prevs
<1>5. Known' = Known
  BY <1>1, <1>3, <1>4 DEF Known
<1>6. HarnessInv'
  BY <1>1, <1>2, <1>3, <1>4 DEF HarnessInv
<1>7. allocated_count' = allocated_count + counting
  BY <1>1, <1>3
<1> QED
  BY <1>1, <1>3, <1>5, <1>6, <1>7 DEF Counted

LEMMA HarnessGoesOn ==
    ASSUME HarnessInv, UNCHANGED alarms, HarnessStep, allocated_count \in Int
    PROVE  HarnessInv' /\ Counted
BY LinkOldFirstStep, ListNewStep, CountNewStep, UnlinkBlockStep, LinkNextStep,
   FreeBlockStep, CountFreedStep DEF HarnessStep

(* siglongjmp out of a call: what it was adding, or taking away, is where  *)
(* its last store left it.                                                 *)
LEMMA CutOffStep ==
    ASSUME HarnessInv, alarms' # 0 \/ (step = "none" /\ alarms' = alarms), CutOff
    PROVE  /\ HarnessInv' /\ counting' = 0
           /\ UNCHANGED <<allocated_count, cautious_mode>>
           /\ (Known \ IF counting = 1 THEN {blk} ELSE {}) \subseteq Known'
           /\ counting = 0 => Known' = Known
<1>1. /\ step' = "none" /\ blk' = NULL /\ torn' = (torn \/ HalfLinked)
      /\ UNCHANGED <<live, allocated, bnext, bprev, allocated_count, cautious_mode>>
  BY DEF CutOff
<1>2. HarnessTypeOK
  BY DEF HarnessInv
<1>3. torn' \in BOOLEAN
  BY <1>1, <1>2 DEF HalfLinked, HarnessTypeOK
<1>4. HarnessTypeOK'
  BY <1>1, <1>2, <1>3 DEF HarnessTypeOK
<1>5. ~Adding' /\ ~Removing' /\ counting' = 0 /\ Listed' = Listed /\ Prevs' = bprev
  BY <1>1 DEF Adding, Removing, counting, Listed, Prevs
<1>6. ~torn' => ~torn /\ Prevs = bprev
  BY <1>1 DEF HalfLinked, Prevs
<1>7. Known' = IF torn' THEN live ELSE Listed
  BY <1>1, <1>5 DEF Known
<1>8. HarnessInv'
  <2>1. ~torn => Listed \subseteq live
    BY DEF HarnessInv
  <2>2. ~torn' => BackLinked(allocated, bnext, bprev)
    BY <1>6 DEF HarnessInv
  <2>3. alarms' = 0 => ~torn' /\ live' = Listed'
    <3>1. step = "none" => ~Adding /\ ~Removing /\ ~HalfLinked
      BY DEF Adding, Removing, HalfLinked
    <3> QED
      BY <1>1, <1>5, <3>1 DEF HarnessInv
  <2> QED
    BY <1>1, <1>4, <1>5, <1>6, <2>1, <2>2, <2>3 DEF HarnessInv
<1>9. Known \subseteq live /\ (~torn => Known \subseteq Listed \cup IF Adding THEN {blk} ELSE {})
  BY KnownIsLive DEF Known
<1>10. Adding => counting = 1
  BY DEF Adding, counting
<1>11. (Known \ IF counting = 1 THEN {blk} ELSE {}) \subseteq Known'
  BY <1>1, <1>6, <1>7, <1>9, <1>10
<1>12. counting = 0 => Known' = Known
  <2>1. counting = 0 => step = "none"
    BY <1>2, NotAtRest
  <2>2. step = "none" => ~HalfLinked /\ torn' = torn
    BY <1>1, <1>2 DEF HalfLinked, HarnessTypeOK
  <2> QED
    BY <1>7, <2>1, <2>2, KnownAtRest
<1> QED
  BY <1>1, <1>5, <1>8, <1>11, <1>12

(* find_header's walk, and the stores to the list.                         *)
LEMMA WalkIs ==
    ASSUME HarnessInv, ~torn, NEW b \in Listed
    PROVE  WalkIsSafe(b) /\ WalkFinds(b)
<1>1. HarnessTypeOK /\ Listed \in SUBSET live
  BY DEF HarnessInv
<1>2. MeetsOnly(Listed, b)
  BY <1>1, ListedIs DEF MeetsOnly
<1>3. ASSUME NEW S \in SUBSET live, MeetsOnly(S, b), b \notin S
      PROVE  FALSE
  <2>1. Closed(S, allocated, bnext)
    BY <1>3 DEF MeetsOnly, Closed
  <2>2. Listed \subseteq S
    BY <1>1, <2>1, Typed, ReachIs DEF Listed
  <2> QED
    BY <1>3, <2>2
<1> QED
  BY <1>1, <1>2, <1>3 DEF WalkIsSafe, WalkFinds

LEMMA StoresAreSafe == HarnessInv /\ ~torn => HeadersTouched \subseteq live
<1> SUFFICES ASSUME HarnessInv, ~torn PROVE HeadersTouched \subseteq live
  OBVIOUS
<1>1. HarnessTypeOK /\ Listed \subseteq live
  BY DEF HarnessInv
<1>2. CASE step = "link"
  BY <1>1, <1>2, ListedIs DEF HeadersTouched, HarnessInv
<1>3. CASE step = "unlink"
  <2>1. blk \in live /\ blk \in Listed /\ BackLinked(allocated, bnext, bprev)
    BY <1>3 DEF HarnessInv, Prevs
  <2>2. bprev[blk] # NULL => bprev[blk] \in Listed
    BY <2>1 DEF BackLinked, Listed
  <2> QED
    BY <1>1, <1>3, <2>1, <2>2 DEF HeadersTouched
<1>4. CASE step = "back"
  BY <1>1, <1>4 DEF HeadersTouched, HarnessInv
<1> QED
  BY <1>2, <1>3, <1>4 DEF HeadersTouched

-----------------------------------------------------------------------------
(* The harness's blocks.                                                   *)
LEMMA BlocksFinite ==
    /\ IsFiniteSet(Blocks) /\ Cardinality(Blocks) \in Nat
    /\ Cardinality(Elements) \in Nat
    /\ \A S \in SUBSET Blocks :
          IsFiniteSet(S) /\ Cardinality(S) \in Nat /\ Cardinality(S) <= Cardinality(Blocks)
    /\ \A S \in SUBSET Elements :
          IsFiniteSet(S) /\ Cardinality(S) \in Nat /\ Cardinality(S) <= Cardinality(Elements)
<1>1. IsFiniteSet({"ele", "value"}) /\ IsFiniteSet({"queue"})
  <2>1. {"ele", "value"} = {"ele"} \cup {"value"}
    OBVIOUS
  <2>2. IsFiniteSet({"ele"}) /\ IsFiniteSet({"value"}) /\ IsFiniteSet({"queue"})
    BY FS_Singleton
  <2> QED
    BY <2>1, <2>2, FS_Union
<1>2. IsFiniteSet({"ele", "value"} \X Elements) /\ IsFiniteSet({"queue"} \X Queues)
  BY <1>1, FS_Product, QueueAssumption
<1>3. IsFiniteSet(Blocks)
  BY <1>2, FS_Union DEF Blocks
<1> QED
  BY <1>3, FS_Subset, FS_CardinalityType, QueueAssumption

LEMMA SoundMalloc ==
    ASSUME NEW owned, NEW there \in SUBSET Blocks, NEW count \in Int, NEW missed \in Nat,
           Sound(owned, there, count, missed), NEW b, b \notin there
    PROVE  Sound(owned \cup {b}, there \cup {b}, count + 1, missed)
<1>1. owned \in SUBSET Blocks /\ b \notin owned
  BY DEF Sound
<1>2. /\ Cardinality(owned) \in Nat /\ Cardinality(owned \cup {b}) = Cardinality(owned) + 1
      /\ Cardinality(there) \in Nat /\ Cardinality(there \cup {b}) = Cardinality(there) + 1
  BY <1>1, BlocksFinite, FS_AddElement
<1> QED
  BY <1>2 DEF Sound

LEMMA SoundFree ==
    ASSUME NEW owned, NEW there \in SUBSET Blocks, NEW count \in Int, NEW missed \in Nat,
           Sound(owned, there, count, missed), NEW b \in owned
    PROVE  Sound(owned \ {b}, there \ {b}, count - 1, missed)
<1>1. owned \in SUBSET Blocks /\ b \in there
  BY DEF Sound
<1>2. /\ Cardinality(owned) \in Nat /\ Cardinality(owned \ {b}) = Cardinality(owned) - 1
      /\ Cardinality(there) \in Nat /\ Cardinality(there \ {b}) = Cardinality(there) - 1
  BY <1>1, BlocksFinite, FS_RemoveElement
<1> QED
  BY <1>2 DEF Sound

(* What a call no longer holds is lost, at one alarm for each block that   *)
(* was not counted.                                                        *)
LEMMA SoundDrop ==
    ASSUME NEW owned, NEW there \in SUBSET Blocks, NEW count \in Int, NEW missed \in Nat,
           Sound(owned, there, count, missed),
           NEW kept \in SUBSET owned,
           NEW more \in Nat, missed <= more, more = 0 => kept = owned
    PROVE  Sound(kept, there, count, more)
<1>1. owned \in SUBSET Blocks /\ kept \in SUBSET Blocks
  BY DEF Sound
<1>2. /\ Cardinality(owned) \in Nat /\ Cardinality(kept) <= Cardinality(owned)
      /\ Cardinality(kept) \in Nat /\ Cardinality(there) \in Nat
  BY <1>1, BlocksFinite, FS_Subset
<1> QED
  BY <1>2 DEF Sound

LEMMA EleMalloc ==
    ASSUME NEW there \in SUBSET Blocks, NEW e \in Elements, <<"ele", e>> \notin there
    PROVE  Cardinality(EleBlocks(there \cup {<<"ele", e>>})) = Cardinality(EleBlocks(there)) + 1
<1>1. EleBlocks(there \cup {<<"ele", e>>}) = EleBlocks(there) \cup {e}
  BY DEF EleBlocks
<1>2. e \notin EleBlocks(there) /\ EleBlocks(there) \in SUBSET Elements
  BY DEF EleBlocks
<1> QED
  BY <1>1, <1>2, BlocksFinite, FS_AddElement

LEMMA EleFree ==
    ASSUME NEW there \in SUBSET Blocks, NEW e \in Elements, <<"ele", e>> \in there
    PROVE  Cardinality(EleBlocks(there \ {<<"ele", e>>})) = Cardinality(EleBlocks(there)) - 1
<1>1. EleBlocks(there \ {<<"ele", e>>}) = EleBlocks(there) \ {e}
  BY DEF EleBlocks
<1>2. e \in EleBlocks(there) /\ EleBlocks(there) \in SUBSET Elements
  BY DEF EleBlocks
<1> QED
  BY <1>1, <1>2, BlocksFinite, FS_RemoveElement

(* The blocks that are no elements do not count.                           *)
LEMMA EleSame ==
    ASSUME NEW there, NEW kind, kind # "ele", NEW x
    PROVE  /\ EleBlocks(there \cup {<<kind, x>>}) = EleBlocks(there)
           /\ EleBlocks(there \ {<<kind, x>>}) = EleBlocks(there)
BY DEF EleBlocks

-----------------------------------------------------------------------------
(* The steps of the queue.  Where a call is, what it has in hand and what  *)
(* is not counted yet is read off pc, so every step looks at these.        *)
InCall ==
    /\ HarnessInv /\ HarnessTypeOK'
    /\ step = "none" => Touched \subseteq live
    /\ UNCHANGED <<qcnt, counters, alarms, held>>

LEMMA Signs == -1 # 1 /\ -1 # 0 /\ -1 \in Int
OBVIOUS

LEMMA Numeric ==
    ASSUME TypeOK, Control
    PROVE  /\ qcnt \in Int /\ size \in Nat /\ alarms \in Nat
           /\ allocated_count \in Nat /\ counting \in Int
           /\ Cardinality(Elements) \in Nat
           /\ Cardinality(EleBlocks(Known)) \in Nat
           /\ Cardinality(EleBlocks(Known)) <= Cardinality(Elements)
<1>1. EleBlocks(Known) \in SUBSET Elements
  BY DEF EleBlocks
<1>2. /\ Cardinality(EleBlocks(Known)) \in Nat
      /\ Cardinality(EleBlocks(Known)) <= Cardinality(Elements)
  <2> HIDE DEF EleBlocks
  <2> QED
    BY <1>1, BlocksFinite
<1>3. Cardinality(Elements) \in Nat /\ Cardinality(Blocks) \in Nat /\ MaxAlarms \in Nat
  BY BlocksFinite, QTestAssumption
<1>4. size \in Nat /\ allocated_count \in Nat
  BY <1>3 DEF TypeOK
<1>5. alarms \in Nat
  <2>1. alarms \in 0 .. MaxAlarms
    BY DEF Control, Result
  <2> QED
    BY <1>3, <2>1
<1>6. qcnt \in Int /\ counting \in Int
  BY <1>3 DEF TypeOK, counting
<1> QED
  BY <1>2, <1>3, <1>4, <1>5, <1>6

LEMMA Bits ==
    /\ Turning \in Nat /\ Out \in Nat /\ In \in Nat /\ Ahead \in Nat /\ Behind \in Nat
    /\ Room \in Nat /\ Late \in Nat /\ Early \in Nat /\ More \in Nat /\ Fewer \in Nat
BY DEF Turning, Out, In, Ahead, Behind, Room, Late, Early, More, Fewer, One

LEMMA Starts ==
    ASSUME NEW k, NEW L, NEW m, NEW M, Shape(k, L, m, M)
    PROVE  /\ k \in Nat /\ m \in Nat
           /\ Front = NULL <=> k = 0
           /\ Front # NULL => Front = L[1] /\ Front \in Members(k, L)
           /\ Rest = NULL <=> m = 0
           /\ Rest # NULL => Rest = M[1] /\ Rest \in Members(m, M)
           /\ Members(k, L) \subseteq Elements /\ Members(m, M) \subseteq Elements
           /\ \A i \in 1 .. k : L[i] \in Members(k, L)
           /\ \A i \in 1 .. m : M[i] \in Members(m, M)
BY ChainStart DEF Shape

LEMMA BooksMalloc ==
    ASSUME TypeOK, Control, NEW S, Books(S), NEW b, Takes(b), counting = 0,
           UNCHANGED alarms, Owned(S)' = Owned(S) \cup {b}
    PROVE  Books(S)'
<1>1. allocated_count + counting = allocated_count /\ allocated_count' + counting' = allocated_count + 1
  BY Numeric DEF Takes
<1>2. Sound(Owned(S), Known, allocated_count, alarms)
  BY <1>1 DEF Books
<1>3. Known \in SUBSET Blocks /\ allocated_count \in Int /\ alarms \in Nat
  BY Numeric, KnownType DEF TypeOK
<1>4. b \notin Known /\ Known' = Known \cup {b} /\ counting' # -1
  BY DEF Takes
<1>5. Sound(Owned(S) \cup {b}, Known \cup {b}, allocated_count + 1, alarms)
  BY <1>2, <1>3, <1>4, SoundMalloc
<1> QED
  BY <1>1, <1>4, <1>5 DEF Books

LEMMA BooksFree ==
    ASSUME TypeOK, Control, NEW S, Books(S), NEW b, b \in Owned(S), Gives(b), counting = 0,
           UNCHANGED alarms, Owned(S)' = Owned(S) \ {b}
    PROVE  Books(S)'
<1>1. allocated_count + counting = allocated_count /\ allocated_count' + counting' = allocated_count - 1
  BY Numeric DEF Gives
<1>2. Sound(Owned(S), Known, allocated_count, alarms)
  BY <1>1 DEF Books
<1>3. Known \in SUBSET Blocks /\ allocated_count \in Int /\ alarms \in Nat
  BY Numeric, KnownType DEF TypeOK
<1>4. b \in Known /\ Known' = Known \ {b}
  BY <1>2 DEF Gives, Sound
<1>5. Sound(Owned(S) \ {b}, Known \ {b}, allocated_count - 1, alarms)
  BY <1>2, <1>3, SoundFree
<1> QED
  BY <1>1, <1>3, <1>4, <1>5 DEF Books

LEMMA BooksDrop ==
    ASSUME TypeOK, Control, NEW S, NEW T, Books(S),
           UNCHANGED <<Known, allocated_count, counting, alarms>>,
           Owned(T)' \subseteq Owned(S), alarms = 0 => Owned(T)' = Owned(S)
    PROVE  Books(T)'
<1>1. Known \in SUBSET Blocks /\ allocated_count + counting \in Int /\ alarms \in Nat
  BY Numeric, KnownType DEF TypeOK
<1>2. Sound(Owned(S), Known, allocated_count + counting, alarms)
  BY DEF Books
<1>3. Sound(Owned(T)', Known, allocated_count + counting, alarms)
  BY <1>1, <1>2, SoundDrop
<1> QED
  BY <1>3 DEF Books

LEMMA OwnedLess ==
    ASSUME NEW S, NEW T, T \subseteq S, Pending' = Pending, q' = q,
           HasQueue' <=> HasQueue
    PROVE  Owned(T)' \subseteq Owned(S)
BY DEF Owned

USE DEF NewEle, EleInHand, BothInHand, Freeing, Inserting,
        InCall, counters, element, queue, blocks, harness, Goto
USE KnownSame, AtRest, KnownType

LEMMA IsTaken == ASSUME InCall, step = "none", NEW b \in Blocks, test_malloc(b) PROVE Takes(b)
BY MallocStep

LEMMA IsGiven == ASSUME step = "none", NEW b, test_free(b) PROVE Gives(b)
BY FreeGives

LEMMA SameCounts == IInv /\ InCall => NotBelow'
<1> SUFFICES ASSUME IInv, InCall PROVE NotBelow'
  OBVIOUS
<1>1. qcnt' = qcnt /\ alarms' = alarms /\ NotBelow
  BY DEF IInv
<1> QED
  BY <1>1 DEF NotBelow

(* What is left to see of Says and Tails in some of the steps below.       *)
LEMMA SaysTurning ==
    ASSUME NEW k, NEW L, NEW m, NEW M, pc' = "turn", cmd' = "reverse",
           held' = [j \in 1 .. k + m |-> value'[IF j <= k THEN L[k + 1 - j] ELSE M[j - k]]]
    PROVE  Says(k, L, m, M)'
BY DEF Says, Linked, Grown, Unlinked, Shrunk, Removed

LEMMA SaysTurned ==
    ASSUME NEW k, NEW L, NEW m, NEW M, pc' = "turned", cmd' = "reverse",
           held' = [j \in 1 .. k + 1 + m |-> value'[IF j <= k THEN L[k + 1 - j]
                                                    ELSE IF j = k + 1 THEN ele'
                                                    ELSE M[j - k - 1]]]
    PROVE  Says(k, L, m, M)'
BY DEF Says, Linked, Grown, Unlinked, Shrunk, Removed

LEMMA SaysUnlinked ==
    ASSUME NEW k, NEW L, NEW m, NEW M, (pc' = "shrink" \/ pc' = "no tail"), cmd' = "rh",
           held' = [j \in 1 .. k + 1 |-> IF j = 1 THEN held'[1] ELSE value'[L[j - 1]]]
    PROVE  Says(k, L, m, M)'
BY DEF Says, Linked, Grown, Unlinked, Shrunk, Removed

LEMMA SaysMoveTail ==
    ASSUME NEW k, NEW L, NEW m, NEW M, pc' = "move tail", cmd' = "it",
           held' = [j \in 1 .. k - 1 |-> value'[L[j]]], value'[L[k]] = str'
    PROVE  Says(k, L, m, M)'
BY DEF Says, Linked, Grown, Unlinked, Shrunk, Removed

LEMMA TailsTurn ==
    ASSUME NEW k, NEW L, NEW m, NEW M, pc' = "turn" \/ pc' = "turned", cmd' = "reverse",
           tail' = IF k > 0 THEN L[k] ELSE IF pc' = "turned" THEN ele'
                 ELSE IF m > 0 THEN M[1] ELSE NULL
    PROVE  Tails(k, L, m, M)'
BY DEF Tails, Linked, Grown

LEMMA TailsUnlinked ==
    ASSUME NEW k, NEW L, NEW m, NEW M, (pc' = "shrink" \/ pc' = "no tail"), cmd' = "rh",
           pc' = "no tail" => k = 0, 
           tail' = IF k = 0 THEN ele' ELSE L[k]
    PROVE  Tails(k, L, m, M)'
BY DEF Tails, Linked, Grown

LEMMA TailsMoveTail ==
    ASSUME NEW k, NEW L, NEW m, NEW M, pc' = "move tail", cmd' = "it", k > 1, k > 0,
           tail' = L[k - 1], ele' = L[k]
    PROVE  Tails(k, L, m, M)'
BY DEF Tails, Linked, Grown

LEMMA FirstTailStep == IInv /\ FirstTail /\ InCall => IInv'
<1> USE DEF FirstTail, SetTail
<1>1. SUFFICES ASSUME IInv, FirstTail, InCall PROVE IInv'
  OBVIOUS
<1>2. PICK k, L, m, M : Shape(k, L, m, M)
  BY <1>1 DEF IInv
<1> DEFINE S == Members(k, L) \cup Members(m, M)
<1>3. TypeOK /\ Control
  BY <1>1 DEF IInv
<1>4. pc = "first tail" /\ pc' = "first head" /\ cmd = "it" /\ q # NULL
  BY <1>1, <1>2, <1>3 DEF Control, Result, Shape
<1>5. UNCHANGED <<Turning, Out, In, Ahead, Behind, Room, Late, Early, More, Fewer>>
  BY <1>1, <1>4 DEF Turning, Out, In, Ahead, Behind, Room, Late, Early, More, Fewer,
     One, Unlinked, Shrunk, Removed, Linked, Grown
<1>6. /\ (Live' <=> Live) /\ ((Taking \/ Cleared)' <=> (Taking \/ Cleared))
      /\ size' = size /\ UNCHANGED <<qcnt, alarms, held, cmd>>
  BY <1>1, <1>4 DEF Live, HasQueue, Taking, Cleared
<1>7. TypeOK'
  BY <1>1, <1>3, <1>4 DEF TypeOK, Labels
<1>8. Control'
  BY <1>1, <1>3, <1>4 DEF Control, Result
<1>9. Chain(next, Front, k, L)' /\ Chain(next, Rest, m, M)'
  <2>1. Front' = Front /\ Rest' = Rest
    BY <1>1, <1>4 DEF Front, Rest, Live, HasQueue, Taking, Cleared
  <2> QED
    BY <1>1, <1>2, <2>1 DEF Shape
<1>10. Books(S)'
  <2>1. Owned(S)' = Owned(S)
    BY <1>1, <1>4 DEF Owned, Pending, HasQueue, Cleared
  <2> QED
    BY <1>1, <1>2, <2>1 DEF Shape, Books
<1>11. EleBlocks(Known') = EleBlocks(Known)
  BY <1>1
<1>12. Numbers(k, m)'
  <2>1. Numbers(k, m) /\ k \in Nat /\ m \in Nat
    BY <1>2, Starts DEF Shape
  <2>2. /\ qcnt \in Int /\ size \in Nat /\ alarms \in Nat
        /\ Cardinality(EleBlocks(Known)) \in Nat
    BY <1>3, Numeric
  <2>3. k + m + Turning' + Out' <= qcnt' + In' + alarms'
    BY <1>6, <1>5, <2>1, <2>2, Bits DEF Numbers
  <2>4. ~(Taking \/ Cleared)'
           => qcnt' + Ahead' <= Cardinality(EleBlocks(Known')) + alarms' + Behind'
    BY <1>6, <1>5, <1>11, <2>1, <2>2, Bits DEF Numbers
  <2>5. Live' => size' + Room' <= Cardinality(EleBlocks(Known'))
    BY <1>6, <1>5, <1>11, <2>1, <2>2, Bits DEF Numbers
  <2> QED
    BY <2>3, <2>4, <2>5 DEF Numbers, EleBlocks
<1>13. Whole' => Sizes(k, m)'
  <2>1. /\ Whole => Sizes(k, m)
        /\ k \in Nat /\ m \in Nat
    BY <1>2, Starts DEF Shape
  <2>2. qcnt \in Int /\ size \in Nat
    BY <1>3, Numeric
  <2>3. Whole' => Whole
    BY <1>6 DEF Whole
  <2>4. Sizes(k, m) => size' + Late' = k + m + Turning' + Early'
    BY <1>6, <1>5, <2>1, <2>2, Bits DEF Sizes
  <2>5. Sizes(k, m) => (cmd' # "new" => qcnt' + More' = size' + Fewer')
    BY <1>6, <1>5, <2>1, <2>2, Bits DEF Sizes
  <2> QED
    BY <2>1, <2>3, <2>4, <2>5 DEF Sizes
<1>14. Whole' => Tails(k, L, m, M)'
  BY <1>1, <1>2, <1>3, <1>4, <1>6, Starts DEF Shape, Whole, Tails, Linked, Grown
<1>15. Whole' => Says(k, L, m, M)'
  BY <1>1, <1>2, <1>3, <1>4, <1>6, Starts DEF Shape, Whole, Says,
     Linked, Grown, Unlinked, Shrunk, Removed
<1>16. /\ pc' \in EleInHand => ele' \in Elements \ S
       /\ \A i \in 1 .. k, j \in 1 .. m : L[i] # M[j]
  BY <1>1, <1>2, <1>4 DEF Shape
<1> HIDE DEF FirstTail, SetTail
<1>17. Shape(k, L, m, M)'
  BY <1>9, <1>10, <1>12, <1>13, <1>14, <1>15, <1>16 DEF Shape
<1> QED
  BY <1>1, <1>7, <1>8, <1>17, SameCounts DEF IInv

LEMMA MoveTailStep == IInv /\ MoveTail /\ InCall => IInv'
<1> USE DEF MoveTail, SetTail
<1>1. SUFFICES ASSUME IInv, MoveTail, InCall PROVE IInv'
  OBVIOUS
<1>2. PICK k, L, m, M : Shape(k, L, m, M)
  BY <1>1 DEF IInv
<1> DEFINE S == Members(k, L) \cup Members(m, M)
<1>3. TypeOK /\ Control
  BY <1>1 DEF IInv
<1>4. pc = "move tail" /\ pc' = "grow" /\ cmd = "it" /\ q # NULL
  BY <1>1, <1>2, <1>3 DEF Control, Result, Shape
<1>5. UNCHANGED <<Turning, Out, In, Ahead, Behind, Room, Late, Early, More, Fewer>>
  BY <1>1, <1>4 DEF Turning, Out, In, Ahead, Behind, Room, Late, Early, More, Fewer,
     One, Unlinked, Shrunk, Removed, Linked, Grown
<1>6. /\ (Live' <=> Live) /\ ((Taking \/ Cleared)' <=> (Taking \/ Cleared))
      /\ size' = size /\ UNCHANGED <<qcnt, alarms, held, cmd>>
  BY <1>1, <1>4 DEF Live, HasQueue, Taking, Cleared
<1>7. TypeOK'
  BY <1>1, <1>3, <1>4 DEF TypeOK, Labels
<1>8. Control'
  BY <1>1, <1>3, <1>4 DEF Control, Result
<1>9. Chain(next, Front, k, L)' /\ Chain(next, Rest, m, M)'
  <2>1. Front' = Front /\ Rest' = Rest
    BY <1>1, <1>4 DEF Front, Rest, Live, HasQueue, Taking, Cleared
  <2> QED
    BY <1>1, <1>2, <2>1 DEF Shape
<1>10. Books(S)'
  <2>1. Owned(S)' = Owned(S)
    BY <1>1, <1>4 DEF Owned, Pending, HasQueue, Cleared
  <2> QED
    BY <1>1, <1>2, <2>1 DEF Shape, Books
<1>11. EleBlocks(Known') = EleBlocks(Known)
  BY <1>1
<1>12. Numbers(k, m)'
  <2>1. Numbers(k, m) /\ k \in Nat /\ m \in Nat
    BY <1>2, Starts DEF Shape
  <2>2. /\ qcnt \in Int /\ size \in Nat /\ alarms \in Nat
        /\ Cardinality(EleBlocks(Known)) \in Nat
    BY <1>3, Numeric
  <2>3. k + m + Turning' + Out' <= qcnt' + In' + alarms'
    BY <1>6, <1>5, <2>1, <2>2, Bits DEF Numbers
  <2>4. ~(Taking \/ Cleared)'
           => qcnt' + Ahead' <= Cardinality(EleBlocks(Known')) + alarms' + Behind'
    BY <1>6, <1>5, <1>11, <2>1, <2>2, Bits DEF Numbers
  <2>5. Live' => size' + Room' <= Cardinality(EleBlocks(Known'))
    BY <1>6, <1>5, <1>11, <2>1, <2>2, Bits DEF Numbers
  <2> QED
    BY <2>3, <2>4, <2>5 DEF Numbers, EleBlocks
<1>13. Whole' => Sizes(k, m)'
  <2>1. /\ Whole => Sizes(k, m)
        /\ k \in Nat /\ m \in Nat
    BY <1>2, Starts DEF Shape
  <2>2. qcnt \in Int /\ size \in Nat
    BY <1>3, Numeric
  <2>3. Whole' => Whole
    BY <1>6 DEF Whole
  <2>4. Sizes(k, m) => size' + Late' = k + m + Turning' + Early'
    BY <1>6, <1>5, <2>1, <2>2, Bits DEF Sizes
  <2>5. Sizes(k, m) => (cmd' # "new" => qcnt' + More' = size' + Fewer')
    BY <1>6, <1>5, <2>1, <2>2, Bits DEF Sizes
  <2> QED
    BY <2>1, <2>3, <2>4, <2>5 DEF Sizes
<1>14. Whole' => Tails(k, L, m, M)'
  BY <1>1, <1>2, <1>3, <1>4, <1>6, Starts DEF Shape, Whole, Tails, Linked, Grown
<1>15. Whole' => Says(k, L, m, M)'
  BY <1>1, <1>2, <1>3, <1>4, <1>6, Starts DEF Shape, Whole, Says,
     Linked, Grown, Unlinked, Shrunk, Removed
<1>16. /\ pc' \in EleInHand => ele' \in Elements \ S
       /\ \A i \in 1 .. k, j \in 1 .. m : L[i] # M[j]
  BY <1>1, <1>2, <1>4 DEF Shape
<1> HIDE DEF MoveTail, SetTail
<1>17. Shape(k, L, m, M)'
  BY <1>9, <1>10, <1>12, <1>13, <1>14, <1>15, <1>16 DEF Shape
<1> QED
  BY <1>1, <1>7, <1>8, <1>17, SameCounts DEF IInv

LEMMA OnlyTailStep == IInv /\ OnlyTail /\ InCall => IInv'
<1> USE DEF OnlyTail, SetTail
<1>1. SUFFICES ASSUME IInv, OnlyTail, InCall PROVE IInv'
  OBVIOUS
<1>2. PICK k, L, m, M : Shape(k, L, m, M)
  BY <1>1 DEF IInv
<1> DEFINE S == Members(k, L) \cup Members(m, M)
<1>3. TypeOK /\ Control
  BY <1>1 DEF IInv
<1>4. pc = "only tail" /\ pc' = "return" /\ cmd = "ih" /\ q # NULL /\ rval
  BY <1>1, <1>2, <1>3 DEF Control, Result, Shape
<1>5. UNCHANGED <<Turning, Out, In, Ahead, Behind, Room, Late, Early, More, Fewer>>
  BY <1>1, <1>4 DEF Turning, Out, In, Ahead, Behind, Room, Late, Early, More, Fewer,
     One, Unlinked, Shrunk, Removed, Linked, Grown
<1>6. /\ (Live' <=> Live) /\ ((Taking \/ Cleared)' <=> (Taking \/ Cleared))
      /\ size' = size /\ UNCHANGED <<qcnt, alarms, held, cmd>>
  BY <1>1, <1>4 DEF Live, HasQueue, Taking, Cleared
<1>7. TypeOK'
  BY <1>1, <1>3, <1>4 DEF TypeOK, Labels
<1>8. Control'
  BY <1>1, <1>3, <1>4 DEF Control, Result
<1>9. Chain(next, Front, k, L)' /\ Chain(next, Rest, m, M)'
  <2>1. Front' = Front /\ Rest' = Rest
    BY <1>1, <1>4 DEF Front, Rest, Live, HasQueue, Taking, Cleared
  <2> QED
    BY <1>1, <1>2, <2>1 DEF Shape
<1>10. Books(S)'
  <2>1. Owned(S)' = Owned(S)
    BY <1>1, <1>4 DEF Owned, Pending, HasQueue, Cleared
  <2> QED
    BY <1>1, <1>2, <2>1 DEF Shape, Books
<1>11. EleBlocks(Known') = EleBlocks(Known)
  BY <1>1
<1>12. Numbers(k, m)'
  <2>1. Numbers(k, m) /\ k \in Nat /\ m \in Nat
    BY <1>2, Starts DEF Shape
  <2>2. /\ qcnt \in Int /\ size \in Nat /\ alarms \in Nat
        /\ Cardinality(EleBlocks(Known)) \in Nat
    BY <1>3, Numeric
  <2>3. k + m + Turning' + Out' <= qcnt' + In' + alarms'
    BY <1>6, <1>5, <2>1, <2>2, Bits DEF Numbers
  <2>4. ~(Taking \/ Cleared)'
           => qcnt' + Ahead' <= Cardinality(EleBlocks(Known')) + alarms' + Behind'
    BY <1>6, <1>5, <1>11, <2>1, <2>2, Bits DEF Numbers
  <2>5. Live' => size' + Room' <= Cardinality(EleBlocks(Known'))
    BY <1>6, <1>5, <1>11, <2>1, <2>2, Bits DEF Numbers
  <2> QED
    BY <2>3, <2>4, <2>5 DEF Numbers, EleBlocks
<1>13. Whole' => Sizes(k, m)'
  <2>1. /\ Whole => Sizes(k, m)
        /\ k \in Nat /\ m \in Nat
    BY <1>2, Starts DEF Shape
  <2>2. qcnt \in Int /\ size \in Nat
    BY <1>3, Numeric
  <2>3. Whole' => Whole
    BY <1>6 DEF Whole
  <2>4. Sizes(k, m) => size' + Late' = k + m + Turning' + Early'
    BY <1>6, <1>5, <2>1, <2>2, Bits DEF Sizes
  <2>5. Sizes(k, m) => (cmd' # "new" => qcnt' + More' = size' + Fewer')
    BY <1>6, <1>5, <2>1, <2>2, Bits DEF Sizes
  <2> QED
    BY <2>1, <2>3, <2>4, <2>5 DEF Sizes
<1>14. Whole' => Tails(k, L, m, M)'
  <2>1. (Whole' => Whole /\ Tails(k, L, m, M) /\ Sizes(k, m)) /\ k \in Nat /\ m \in Nat
    BY <1>2, <1>6, Starts DEF Shape, Whole
  <2>2. Tails(k, L, m, M) => k = 1
    BY <1>4 DEF Tails
  <2>3. Front = head
    BY <1>4 DEF Front, Live, HasQueue, Taking, Cleared
  <2>4. k = 1 => Front = L[1]
    BY <1>2, Starts
  <2>5. Tails(k, L, m, M) => k > 0 /\ k # 0 /\ k = 1 /\ tail' = L[k]
    <3>1. tail' = head
      BY <1>1
    <3> QED
      BY <2>2, <2>3, <2>4, <3>1
  <2>6. rval'
    BY <1>1, <1>4
  <2> HIDE DEF OnlyTail, SetTail, InCall
  <2> QED
    BY <1>4, <1>6, <2>1, <2>5, <2>6 DEF Tails, Linked, Grown
<1>15. Whole' => Says(k, L, m, M)'
  BY <1>1, <1>2, <1>3, <1>4, <1>6, Starts DEF Shape, Whole, Says,
     Linked, Grown, Unlinked, Shrunk, Removed
<1>16. /\ pc' \in EleInHand => ele' \in Elements \ S
       /\ \A i \in 1 .. k, j \in 1 .. m : L[i] # M[j]
  BY <1>1, <1>2, <1>4 DEF Shape
<1> HIDE DEF OnlyTail, SetTail
<1>17. Shape(k, L, m, M)'
  BY <1>9, <1>10, <1>12, <1>13, <1>14, <1>15, <1>16 DEF Shape
<1> QED
  BY <1>1, <1>7, <1>8, <1>17, SameCounts DEF IInv

LEMMA NoTailStep == IInv /\ NoTail /\ InCall => IInv'
<1> USE DEF NoTail, SetTail
<1>1. SUFFICES ASSUME IInv, NoTail, InCall PROVE IInv'
  OBVIOUS
<1>2. PICK k, L, m, M : Shape(k, L, m, M)
  BY <1>1 DEF IInv
<1> DEFINE S == Members(k, L) \cup Members(m, M)
<1>3. TypeOK /\ Control
  BY <1>1 DEF IInv
<1>4. pc = "no tail" /\ pc' = "free value" /\ cmd = "rh" /\ q # NULL
  BY <1>1, <1>2, <1>3 DEF Control, Result, Shape
<1>5. UNCHANGED <<Turning, Out, In, Ahead, Behind, Room, Late, Early, More, Fewer>>
  BY <1>1, <1>4 DEF Turning, Out, In, Ahead, Behind, Room, Late, Early, More, Fewer,
     One, Unlinked, Shrunk, Removed, Linked, Grown
<1>6. /\ (Live' <=> Live) /\ ((Taking \/ Cleared)' <=> (Taking \/ Cleared))
      /\ size' = size /\ UNCHANGED <<qcnt, alarms, held, cmd>>
  BY <1>1, <1>4 DEF Live, HasQueue, Taking, Cleared
<1>7. TypeOK'
  BY <1>1, <1>3, <1>4 DEF TypeOK, Labels
<1>8. Control'
  BY <1>1, <1>3, <1>4 DEF Control, Result
<1>9. Chain(next, Front, k, L)' /\ Chain(next, Rest, m, M)'
  <2>1. Front' = Front /\ Rest' = Rest
    BY <1>1, <1>4 DEF Front, Rest, Live, HasQueue, Taking, Cleared
  <2> QED
    BY <1>1, <1>2, <2>1 DEF Shape
<1>10. Books(S)'
  <2>1. Owned(S)' = Owned(S)
    BY <1>1, <1>4 DEF Owned, Pending, HasQueue, Cleared
  <2> QED
    BY <1>1, <1>2, <2>1 DEF Shape, Books
<1>11. EleBlocks(Known') = EleBlocks(Known)
  BY <1>1
<1>12. Numbers(k, m)'
  <2>1. Numbers(k, m) /\ k \in Nat /\ m \in Nat
    BY <1>2, Starts DEF Shape
  <2>2. /\ qcnt \in Int /\ size \in Nat /\ alarms \in Nat
        /\ Cardinality(EleBlocks(Known)) \in Nat
    BY <1>3, Numeric
  <2>3. k + m + Turning' + Out' <= qcnt' + In' + alarms'
    BY <1>6, <1>5, <2>1, <2>2, Bits DEF Numbers
  <2>4. ~(Taking \/ Cleared)'
           => qcnt' + Ahead' <= Cardinality(EleBlocks(Known')) + alarms' + Behind'
    BY <1>6, <1>5, <1>11, <2>1, <2>2, Bits DEF Numbers
  <2>5. Live' => size' + Room' <= Cardinality(EleBlocks(Known'))
    BY <1>6, <1>5, <1>11, <2>1, <2>2, Bits DEF Numbers
  <2> QED
    BY <2>3, <2>4, <2>5 DEF Numbers, EleBlocks
<1>13. Whole' => Sizes(k, m)'
  <2>1. /\ Whole => Sizes(k, m)
        /\ k \in Nat /\ m \in Nat
    BY <1>2, Starts DEF Shape
  <2>2. qcnt \in Int /\ size \in Nat
    BY <1>3, Numeric
  <2>3. Whole' => Whole
    BY <1>6 DEF Whole
  <2>4. Sizes(k, m) => size' + Late' = k + m + Turning' + Early'
    BY <1>6, <1>5, <2>1, <2>2, Bits DEF Sizes
  <2>5. Sizes(k, m) => (cmd' # "new" => qcnt' + More' = size' + Fewer')
    BY <1>6, <1>5, <2>1, <2>2, Bits DEF Sizes
  <2> QED
    BY <2>1, <2>3, <2>4, <2>5 DEF Sizes
<1>14. Whole' => Tails(k, L, m, M)'
  BY <1>1, <1>2, <1>3, <1>4, <1>6, Starts DEF Shape, Whole, Tails, Linked, Grown
<1>15. Whole' => Says(k, L, m, M)'
  BY <1>1, <1>2, <1>3, <1>4, <1>6, Starts DEF Shape, Whole, Says,
     Linked, Grown, Unlinked, Shrunk, Removed
<1>16. /\ pc' \in EleInHand => ele' \in Elements \ S
       /\ \A i \in 1 .. k, j \in 1 .. m : L[i] # M[j]
  BY <1>1, <1>2, <1>4 DEF Shape
<1> HIDE DEF NoTail, SetTail
<1>17. Shape(k, L, m, M)'
  BY <1>9, <1>10, <1>12, <1>13, <1>14, <1>15, <1>16 DEF Shape
<1> QED
  BY <1>1, <1>7, <1>8, <1>17, SameCounts DEF IInv

LEMMA TurnTailStep == IInv /\ TurnTail /\ InCall => IInv'
<1> USE DEF TurnTail, SetTail
<1>1. SUFFICES ASSUME IInv, TurnTail, InCall PROVE IInv'
  OBVIOUS
<1>2. PICK k, L, m, M : Shape(k, L, m, M)
  BY <1>1 DEF IInv
<1> DEFINE S == Members(k, L) \cup Members(m, M)
<1>3. TypeOK /\ Control
  BY <1>1 DEF IInv
<1>4. pc = "turn tail" /\ pc' = "turn head" /\ cmd = "reverse" /\ q # NULL
  BY <1>1, <1>2, <1>3 DEF Control, Result, Shape
<1>5. UNCHANGED <<Turning, Out, In, Ahead, Behind, Room, Late, Early, More, Fewer>>
  BY <1>1, <1>4 DEF Turning, Out, In, Ahead, Behind, Room, Late, Early, More, Fewer,
     One, Unlinked, Shrunk, Removed, Linked, Grown
<1>6. /\ (Live' <=> Live) /\ ((Taking \/ Cleared)' <=> (Taking \/ Cleared))
      /\ size' = size /\ UNCHANGED <<qcnt, alarms, held, cmd>>
  BY <1>1, <1>4 DEF Live, HasQueue, Taking, Cleared
<1>7. TypeOK'
  BY <1>1, <1>3, <1>4 DEF TypeOK, Labels
<1>8. Control'
  BY <1>1, <1>3, <1>4 DEF Control, Result
<1>9. Chain(next, Front, k, L)' /\ Chain(next, Rest, m, M)'
  <2>1. Front' = Front /\ Rest' = Rest
    BY <1>1, <1>4 DEF Front, Rest, Live, HasQueue, Taking, Cleared
  <2> QED
    BY <1>1, <1>2, <2>1 DEF Shape
<1>10. Books(S)'
  <2>1. Owned(S)' = Owned(S)
    BY <1>1, <1>4 DEF Owned, Pending, HasQueue, Cleared
  <2> QED
    BY <1>1, <1>2, <2>1 DEF Shape, Books
<1>11. EleBlocks(Known') = EleBlocks(Known)
  BY <1>1
<1>12. Numbers(k, m)'
  <2>1. Numbers(k, m) /\ k \in Nat /\ m \in Nat
    BY <1>2, Starts DEF Shape
  <2>2. /\ qcnt \in Int /\ size \in Nat /\ alarms \in Nat
        /\ Cardinality(EleBlocks(Known)) \in Nat
    BY <1>3, Numeric
  <2>3. k + m + Turning' + Out' <= qcnt' + In' + alarms'
    BY <1>6, <1>5, <2>1, <2>2, Bits DEF Numbers
  <2>4. ~(Taking \/ Cleared)'
           => qcnt' + Ahead' <= Cardinality(EleBlocks(Known')) + alarms' + Behind'
    BY <1>6, <1>5, <1>11, <2>1, <2>2, Bits DEF Numbers
  <2>5. Live' => size' + Room' <= Cardinality(EleBlocks(Known'))
    BY <1>6, <1>5, <1>11, <2>1, <2>2, Bits DEF Numbers
  <2> QED
    BY <2>3, <2>4, <2>5 DEF Numbers, EleBlocks
<1>13. Whole' => Sizes(k, m)'
  <2>1. /\ Whole => Sizes(k, m)
        /\ k \in Nat /\ m \in Nat
    BY <1>2, Starts DEF Shape
  <2>2. qcnt \in Int /\ size \in Nat
    BY <1>3, Numeric
  <2>3. Whole' => Whole
    BY <1>6 DEF Whole
  <2>4. Sizes(k, m) => size' + Late' = k + m + Turning' + Early'
    BY <1>6, <1>5, <2>1, <2>2, Bits DEF Sizes
  <2>5. Sizes(k, m) => (cmd' # "new" => qcnt' + More' = size' + Fewer')
    BY <1>6, <1>5, <2>1, <2>2, Bits DEF Sizes
  <2> QED
    BY <2>1, <2>3, <2>4, <2>5 DEF Sizes
<1>14. Whole' => Tails(k, L, m, M)'
  BY <1>1, <1>2, <1>3, <1>4, <1>6, Starts DEF Shape, Whole, Tails, Linked, Grown
<1>15. Whole' => Says(k, L, m, M)'
  BY <1>1, <1>2, <1>3, <1>4, <1>6, Starts DEF Shape, Whole, Says,
     Linked, Grown, Unlinked, Shrunk, Removed
<1>16. /\ pc' \in EleInHand => ele' \in Elements \ S
       /\ \A i \in 1 .. k, j \in 1 .. m : L[i] # M[j]
  BY <1>1, <1>2, <1>4 DEF Shape
<1> HIDE DEF TurnTail, SetTail
<1>17. Shape(k, L, m, M)'
  BY <1>9, <1>10, <1>12, <1>13, <1>14, <1>15, <1>16 DEF Shape
<1> QED
  BY <1>1, <1>7, <1>8, <1>17, SameCounts DEF IInv

LEMMA GrowStep == IInv /\ Grow /\ InCall => IInv'
<1> USE DEF Grow
<1>1. SUFFICES ASSUME IInv, Grow, InCall PROVE IInv'
  OBVIOUS
<1>2. PICK k, L, m, M : Shape(k, L, m, M)
  BY <1>1 DEF IInv
<1> DEFINE S == Members(k, L) \cup Members(m, M)
<1>3. TypeOK /\ Control
  BY <1>1 DEF IInv
<1>4. pc = "grow" /\ pc' \in {"only tail", "return"} /\ cmd \in {"ih", "it"} /\ q # NULL
  BY <1>1, <1>2, <1>3 DEF Control, Result, Shape
<1>5. /\ UNCHANGED <<Turning, Out, In, Ahead, Behind, Early, Fewer>>
      /\ Room = 1 /\ Room' = 0 /\ Late = 1 /\ Late' = 0 /\ More = 0 /\ More' = 1
  BY <1>1, <1>4 DEF Turning, Out, In, Ahead, Behind, Room, Late, Early, More, Fewer,
     One, Unlinked, Shrunk, Removed, Linked, Grown
<1>6. /\ (Live' <=> Live) /\ ((Taking \/ Cleared)' <=> (Taking \/ Cleared))
      /\ size' = size + 1 /\ UNCHANGED <<qcnt, alarms, held, cmd>>
  BY <1>1, <1>4 DEF Live, HasQueue, Taking, Cleared
<1>7. size + 1 \in 0 .. Cardinality(Elements)
  <2>1. Live /\ Room = 1
    BY <1>4 DEF Live, HasQueue, Taking, Cleared, Room, One
  <2>2. size + 1 <= Cardinality(EleBlocks(Known))
    BY <1>2, <2>1 DEF Shape, Numbers
  <2> QED
    BY <1>3, <2>2, Numeric
<1>8. TypeOK'
  BY <1>1, <1>3, <1>4, <1>7 DEF TypeOK, Labels
<1>9. Control'
  BY <1>1, <1>3, <1>4 DEF Control, Result
<1>10. Chain(next, Front, k, L)' /\ Chain(next, Rest, m, M)'
  <2>1. Front' = Front /\ Rest' = Rest
    BY <1>1, <1>4 DEF Front, Rest, Live, HasQueue, Taking, Cleared
  <2> QED
    BY <1>1, <1>2, <2>1 DEF Shape
<1>11. Books(S)'
  <2>1. Owned(S)' = Owned(S)
    BY <1>1, <1>4 DEF Owned, Pending, HasQueue, Cleared
  <2> QED
    BY <1>1, <1>2, <2>1 DEF Shape, Books
<1>12. EleBlocks(Known') = EleBlocks(Known)
  BY <1>1
<1>13. Numbers(k, m)'
  <2>1. Numbers(k, m) /\ k \in Nat /\ m \in Nat
    BY <1>2, Starts DEF Shape
  <2>2. /\ qcnt \in Int /\ size \in Nat /\ alarms \in Nat
        /\ Cardinality(EleBlocks(Known)) \in Nat
    BY <1>3, Numeric
  <2>3. k + m + Turning' + Out' <= qcnt' + In' + alarms'
    BY <1>6, <1>5, <2>1, <2>2, Bits DEF Numbers
  <2>4. ~(Taking \/ Cleared)'
           => qcnt' + Ahead' <= Cardinality(EleBlocks(Known')) + alarms' + Behind'
    BY <1>6, <1>5, <1>12, <2>1, <2>2, Bits DEF Numbers
  <2>5. Live' => size' + Room' <= Cardinality(EleBlocks(Known'))
    BY <1>6, <1>5, <1>12, <2>1, <2>2, Bits DEF Numbers
  <2> QED
    BY <2>3, <2>4, <2>5 DEF Numbers, EleBlocks
<1>14. Whole' => Sizes(k, m)'
  <2>1. /\ Whole => Sizes(k, m)
        /\ k \in Nat /\ m \in Nat
    BY <1>2, Starts DEF Shape
  <2>2. qcnt \in Int /\ size \in Nat
    BY <1>3, Numeric
  <2>3. Whole' => Whole
    BY <1>6 DEF Whole
  <2>4. Sizes(k, m) => size' + Late' = k + m + Turning' + Early'
    BY <1>6, <1>5, <2>1, <2>2, Bits DEF Sizes
  <2>5. Sizes(k, m) => (cmd' # "new" => qcnt' + More' = size' + Fewer')
    BY <1>6, <1>5, <2>1, <2>2, Bits DEF Sizes
  <2> QED
    BY <2>1, <2>3, <2>4, <2>5 DEF Sizes
<1>15. Whole' => Tails(k, L, m, M)'
  <2>1. (Whole' => Whole /\ Tails(k, L, m, M) /\ Sizes(k, m)) /\ k \in Nat /\ m \in Nat
    BY <1>2, <1>6, Starts DEF Shape, Whole
  <2>2. Rest = NULL /\ m = 0
    BY <1>2, <1>4, Starts DEF Rest, Taking
  <2>3. Turning = 0 /\ Early = 0 /\ Late = 1
    BY <1>4 DEF Turning, Early, Late, One
  <2>4. Sizes(k, m) => k > 0 /\ k # 0 /\ (size = 0 <=> k = 1)
    BY <1>3, <2>1, <2>2, <2>3, Numeric DEF Sizes
  <2>5. Tails(k, L, m, M) => tail = IF cmd = "ih" /\ k = 1 THEN NULL ELSE L[k]
    BY <1>4 DEF Tails
  <2>6. /\ pc' = IF cmd = "ih" /\ size = 0 THEN "only tail" ELSE "return"
        /\ tail' = tail /\ rval'
    BY <1>1
  <2> QED
    BY <1>4, <1>6, <2>1, <2>4, <2>5, <2>6 DEF Tails, Linked, Grown
<1>16. Whole' => Says(k, L, m, M)'
  BY <1>1, <1>2, <1>3, <1>4, <1>6, Starts DEF Shape, Whole, Says,
     Linked, Grown, Unlinked, Shrunk, Removed
<1>17. /\ pc' \in EleInHand => ele' \in Elements \ S
       /\ \A i \in 1 .. k, j \in 1 .. m : L[i] # M[j]
  BY <1>1, <1>2, <1>4 DEF Shape
<1> HIDE DEF Grow
<1>18. Shape(k, L, m, M)'
  BY <1>10, <1>11, <1>13, <1>14, <1>15, <1>16, <1>17 DEF Shape
<1> QED
  BY <1>1, <1>8, <1>9, <1>18, SameCounts DEF IInv

LEMMA ShrinkStep == IInv /\ Shrink /\ InCall => IInv'
<1> USE DEF Shrink
<1>1. SUFFICES ASSUME IInv, Shrink, InCall PROVE IInv'
  OBVIOUS
<1>2. PICK k, L, m, M : Shape(k, L, m, M)
  BY <1>1 DEF IInv
<1> DEFINE S == Members(k, L) \cup Members(m, M)
<1>3. TypeOK /\ Control
  BY <1>1 DEF IInv
<1>4. pc = "shrink" /\ pc' \in {"no head", "free value"} /\ cmd = "rh" /\ q # NULL
  BY <1>1, <1>2, <1>3 DEF Control, Result, Shape
<1>5. /\ UNCHANGED <<Turning, Out, In, Ahead, Behind, Late, More>>
      /\ Room = 0 /\ Room' = 1 /\ Early = 1 /\ Early' = 0 /\ Fewer = 0 /\ Fewer' = 1
  BY <1>1, <1>4 DEF Turning, Out, In, Ahead, Behind, Room, Late, Early, More, Fewer,
     One, Unlinked, Shrunk, Removed, Linked, Grown
<1>6. /\ (Live' <=> Live) /\ ((Taking \/ Cleared)' <=> (Taking \/ Cleared))
      /\ size' = size - 1 /\ UNCHANGED <<qcnt, alarms, held, cmd>>
  BY <1>1, <1>4 DEF Live, HasQueue, Taking, Cleared
<1>7. size # 0 /\ size - 1 \in 0 .. Cardinality(Elements)
  <2>1. size # 0
    BY <1>3, <1>4 DEF Control, Result
  <2> QED
    BY <1>3, <2>1, Numeric DEF TypeOK
<1>8. TypeOK'
  BY <1>1, <1>3, <1>4, <1>7 DEF TypeOK, Labels
<1>9. Control'
  BY <1>1, <1>3, <1>4 DEF Control, Result
<1>10. Chain(next, Front, k, L)' /\ Chain(next, Rest, m, M)'
  <2>1. Front' = Front /\ Rest' = Rest
    BY <1>1, <1>4 DEF Front, Rest, Live, HasQueue, Taking, Cleared
  <2> QED
    BY <1>1, <1>2, <2>1 DEF Shape
<1>11. Books(S)'
  <2>1. Owned(S)' = Owned(S)
    BY <1>1, <1>4 DEF Owned, Pending, HasQueue, Cleared
  <2> QED
    BY <1>1, <1>2, <2>1 DEF Shape, Books
<1>12. EleBlocks(Known') = EleBlocks(Known)
  BY <1>1
<1>13. Numbers(k, m)'
  <2>1. Numbers(k, m) /\ k \in Nat /\ m \in Nat
    BY <1>2, Starts DEF Shape
  <2>2. /\ qcnt \in Int /\ size \in Nat /\ alarms \in Nat
        /\ Cardinality(EleBlocks(Known)) \in Nat
    BY <1>3, Numeric
  <2>3. k + m + Turning' + Out' <= qcnt' + In' + alarms'
    BY <1>6, <1>5, <2>1, <2>2, Bits DEF Numbers
  <2>4. ~(Taking \/ Cleared)'
           => qcnt' + Ahead' <= Cardinality(EleBlocks(Known')) + alarms' + Behind'
    BY <1>6, <1>5, <1>12, <2>1, <2>2, Bits DEF Numbers
  <2>5. Live' => size' + Room' <= Cardinality(EleBlocks(Known'))
    BY <1>6, <1>5, <1>12, <2>1, <2>2, Bits DEF Numbers
  <2> QED
    BY <2>3, <2>4, <2>5 DEF Numbers, EleBlocks
<1>14. Whole' => Sizes(k, m)'
  <2>1. /\ Whole => Sizes(k, m)
        /\ k \in Nat /\ m \in Nat
    BY <1>2, Starts DEF Shape
  <2>2. qcnt \in Int /\ size \in Nat
    BY <1>3, Numeric
  <2>3. Whole' => Whole
    BY <1>6 DEF Whole
  <2>4. Sizes(k, m) => size' + Late' = k + m + Turning' + Early'
    BY <1>6, <1>5, <2>1, <2>2, Bits DEF Sizes
  <2>5. Sizes(k, m) => (cmd' # "new" => qcnt' + More' = size' + Fewer')
    BY <1>6, <1>5, <2>1, <2>2, Bits DEF Sizes
  <2> QED
    BY <2>1, <2>3, <2>4, <2>5 DEF Sizes
<1>15. Whole' => Tails(k, L, m, M)'
  <2>1. (Whole' => Whole /\ Tails(k, L, m, M) /\ Sizes(k, m)) /\ k \in Nat /\ m \in Nat
    BY <1>2, <1>6, Starts DEF Shape, Whole
  <2>2. Rest = NULL /\ m = 0
    BY <1>2, <1>4, Starts DEF Rest, Taking, Freeing
  <2>3. Turning = 0 /\ Early = 1 /\ Late = 0
    BY <1>4 DEF Turning, Early, Late, One
  <2>4. Sizes(k, m) => (size = 1 <=> k = 0)
    BY <1>3, <2>1, <2>2, <2>3, Numeric DEF Sizes
  <2>5. Tails(k, L, m, M) => tail = IF k = 0 THEN ele ELSE L[k]
    BY <1>4 DEF Tails
  <2>6. /\ pc' = IF size = 1 THEN "no head" ELSE "free value"
        /\ tail' = tail /\ ele' = ele
    BY <1>1
  <2> QED
    BY <1>4, <1>6, <2>1, <2>4, <2>5, <2>6 DEF Tails, Linked, Grown
<1>16. Whole' => Says(k, L, m, M)'
  BY <1>1, <1>2, <1>3, <1>4, <1>6, Starts DEF Shape, Whole, Says,
     Linked, Grown, Unlinked, Shrunk, Removed
<1>17. /\ pc' \in EleInHand => ele' \in Elements \ S
       /\ \A i \in 1 .. k, j \in 1 .. m : L[i] # M[j]
  BY <1>1, <1>2, <1>4 DEF Shape
<1> HIDE DEF Shrink
<1>18. Shape(k, L, m, M)'
  BY <1>10, <1>11, <1>13, <1>14, <1>15, <1>16, <1>17 DEF Shape
<1> QED
  BY <1>1, <1>8, <1>9, <1>18, SameCounts DEF IInv

LEMMA q_remove_headStep == IInv /\ q_remove_head /\ InCall => IInv'
<1> USE DEF q_remove_head
<1>1. SUFFICES ASSUME IInv, q_remove_head, InCall PROVE IInv'
  OBVIOUS
<1>2. PICK k, L, m, M : Shape(k, L, m, M)
  BY <1>1 DEF IInv
<1> DEFINE S == Members(k, L) \cup Members(m, M)
<1>3. TypeOK /\ Control
  BY <1>1 DEF IInv
<1>4. pc = "remove" /\ pc' = "unlink" /\ cmd = "rh" /\ q # NULL /\ size # 0
  BY <1>1, <1>2, <1>3 DEF Control, Result, Shape
<1>5. UNCHANGED <<Turning, Out, In, Ahead, Behind, Room, Late, Early, More, Fewer>>
  BY <1>1, <1>4 DEF Turning, Out, In, Ahead, Behind, Room, Late, Early, More, Fewer,
     One, Unlinked, Shrunk, Removed, Linked, Grown
<1>6. /\ (Live' <=> Live) /\ ((Taking \/ Cleared)' <=> (Taking \/ Cleared))
      /\ size' = size /\ UNCHANGED <<qcnt, alarms, held, cmd>>
  BY <1>1, <1>4 DEF Live, HasQueue, Taking, Cleared
<1>7. head # NULL
  BY <1>1, <1>3, <1>4, QueueAssumption DEF Touched, TypeOK, HarnessTypeOK, Blocks
<1>8. TypeOK'
  BY <1>1, <1>3, <1>4 DEF TypeOK, Labels
<1>9. Control'
  BY <1>1, <1>3, <1>4, <1>7 DEF Control, Result
<1>10. Chain(next, Front, k, L)' /\ Chain(next, Rest, m, M)'
  <2>1. Front' = Front /\ Rest' = Rest
    BY <1>1, <1>4 DEF Front, Rest, Live, HasQueue, Taking, Cleared
  <2> QED
    BY <1>1, <1>2, <2>1 DEF Shape
<1>11. Books(S)'
  <2>1. Owned(S)' = Owned(S)
    BY <1>1, <1>4 DEF Owned, Pending, HasQueue, Cleared
  <2> QED
    BY <1>1, <1>2, <2>1 DEF Shape, Books
<1>12. EleBlocks(Known') = EleBlocks(Known)
  BY <1>1
<1>13. Numbers(k, m)'
  <2>1. Numbers(k, m) /\ k \in Nat /\ m \in Nat
    BY <1>2, Starts DEF Shape
  <2>2. /\ qcnt \in Int /\ size \in Nat /\ alarms \in Nat
        /\ Cardinality(EleBlocks(Known)) \in Nat
    BY <1>3, Numeric
  <2>3. k + m + Turning' + Out' <= qcnt' + In' + alarms'
    BY <1>6, <1>5, <2>1, <2>2, Bits DEF Numbers
  <2>4. ~(Taking \/ Cleared)'
           => qcnt' + Ahead' <= Cardinality(EleBlocks(Known')) + alarms' + Behind'
    BY <1>6, <1>5, <1>12, <2>1, <2>2, Bits DEF Numbers
  <2>5. Live' => size' + Room' <= Cardinality(EleBlocks(Known'))
    BY <1>6, <1>5, <1>12, <2>1, <2>2, Bits DEF Numbers
  <2> QED
    BY <2>3, <2>4, <2>5 DEF Numbers, EleBlocks
<1>14. Whole' => Sizes(k, m)'
  <2>1. /\ Whole => Sizes(k, m)
        /\ k \in Nat /\ m \in Nat
    BY <1>2, Starts DEF Shape
  <2>2. qcnt \in Int /\ size \in Nat
    BY <1>3, Numeric
  <2>3. Whole' => Whole
    BY <1>6 DEF Whole
  <2>4. Sizes(k, m) => size' + Late' = k + m + Turning' + Early'
    BY <1>6, <1>5, <2>1, <2>2, Bits DEF Sizes
  <2>5. Sizes(k, m) => (cmd' # "new" => qcnt' + More' = size' + Fewer')
    BY <1>6, <1>5, <2>1, <2>2, Bits DEF Sizes
  <2> QED
    BY <2>1, <2>3, <2>4, <2>5 DEF Sizes
<1>15. Whole' => Tails(k, L, m, M)'
  <2>1. (Whole' => Whole /\ Tails(k, L, m, M) /\ Sizes(k, m)) /\ k \in Nat /\ m \in Nat
    BY <1>2, <1>6, Starts DEF Shape, Whole
  <2>2. Front = head /\ k # 0
    BY <1>2, <1>4, <1>7, Starts DEF Front, Live, HasQueue, Taking, Cleared
  <2>3. k > 0
    BY <2>1, <2>2
  <2>4. Tails(k, L, m, M) => tail' = L[k]
    BY <1>1, <1>4, <2>2 DEF Tails
  <2> QED
    BY <1>4, <1>6, <2>1, <2>2, <2>3, <2>4 DEF Tails, Linked, Grown
<1>16. Whole' => Says(k, L, m, M)'
  BY <1>1, <1>2, <1>3, <1>4, <1>6, Starts DEF Shape, Whole, Says,
     Linked, Grown, Unlinked, Shrunk, Removed
<1>17. /\ pc' \in EleInHand => ele' \in Elements \ S
       /\ \A i \in 1 .. k, j \in 1 .. m : L[i] # M[j]
  BY <1>1, <1>2, <1>4 DEF Shape
<1> HIDE DEF q_remove_head
<1>18. Shape(k, L, m, M)'
  BY <1>10, <1>11, <1>13, <1>14, <1>15, <1>16, <1>17 DEF Shape
<1> QED
  BY <1>1, <1>8, <1>9, <1>18, SameCounts DEF IInv

LEMMA InsertFailsStep == IInv /\ InsertFails /\ InCall => IInv'
<1> USE DEF InsertFails, Return
<1>1. SUFFICES ASSUME IInv, InsertFails, InCall PROVE IInv'
  OBVIOUS
<1>2. PICK k, L, m, M : Shape(k, L, m, M)
  BY <1>1 DEF IInv
<1> DEFINE S == Members(k, L) \cup Members(m, M)
<1>3. TypeOK /\ Control
  BY <1>1 DEF IInv
<1>4. pc = "insert" /\ pc' = "return" /\ cmd \in {"ih", "it"}
  BY <1>1, <1>2, <1>3 DEF Control, Result, Shape
<1>5. UNCHANGED <<Turning, Out, In, Ahead, Behind, Room, Late, Early, More, Fewer>>
  BY <1>1, <1>4 DEF Turning, Out, In, Ahead, Behind, Room, Late, Early, More, Fewer,
     One, Unlinked, Shrunk, Removed, Linked, Grown
<1>6. /\ (Live' <=> Live) /\ ((Taking \/ Cleared)' <=> (Taking \/ Cleared))
      /\ size' = size /\ UNCHANGED <<qcnt, alarms, held, cmd>>
  BY <1>1, <1>4 DEF Live, HasQueue, Taking, Cleared
<1>7. TypeOK'
  BY <1>1, <1>3, <1>4 DEF TypeOK, Labels
<1>8. Control'
  BY <1>1, <1>3, <1>4 DEF Control, Result
<1>9. Chain(next, Front, k, L)' /\ Chain(next, Rest, m, M)'
  <2>1. Front' = Front /\ Rest' = Rest
    BY <1>1, <1>4 DEF Front, Rest, Live, HasQueue, Taking, Cleared
  <2> QED
    BY <1>1, <1>2, <2>1 DEF Shape
<1>10. Books(S)'
  <2>1. Owned(S)' = Owned(S)
    BY <1>1, <1>4 DEF Owned, Pending, HasQueue, Cleared
  <2> QED
    BY <1>1, <1>2, <2>1 DEF Shape, Books
<1>11. EleBlocks(Known') = EleBlocks(Known)
  BY <1>1
<1>12. Numbers(k, m)'
  <2>1. Numbers(k, m) /\ k \in Nat /\ m \in Nat
    BY <1>2, Starts DEF Shape
  <2>2. /\ qcnt \in Int /\ size \in Nat /\ alarms \in Nat
        /\ Cardinality(EleBlocks(Known)) \in Nat
    BY <1>3, Numeric
  <2>3. k + m + Turning' + Out' <= qcnt' + In' + alarms'
    BY <1>6, <1>5, <2>1, <2>2, Bits DEF Numbers
  <2>4. ~(Taking \/ Cleared)'
           => qcnt' + Ahead' <= Cardinality(EleBlocks(Known')) + alarms' + Behind'
    BY <1>6, <1>5, <1>11, <2>1, <2>2, Bits DEF Numbers
  <2>5. Live' => size' + Room' <= Cardinality(EleBlocks(Known'))
    BY <1>6, <1>5, <1>11, <2>1, <2>2, Bits DEF Numbers
  <2> QED
    BY <2>3, <2>4, <2>5 DEF Numbers, EleBlocks
<1>13. Whole' => Sizes(k, m)'
  <2>1. /\ Whole => Sizes(k, m)
        /\ k \in Nat /\ m \in Nat
    BY <1>2, Starts DEF Shape
  <2>2. qcnt \in Int /\ size \in Nat
    BY <1>3, Numeric
  <2>3. Whole' => Whole
    BY <1>6 DEF Whole
  <2>4. Sizes(k, m) => size' + Late' = k + m + Turning' + Early'
    BY <1>6, <1>5, <2>1, <2>2, Bits DEF Sizes
  <2>5. Sizes(k, m) => (cmd' # "new" => qcnt' + More' = size' + Fewer')
    BY <1>6, <1>5, <2>1, <2>2, Bits DEF Sizes
  <2> QED
    BY <2>1, <2>3, <2>4, <2>5 DEF Sizes
<1>14. Whole' => Tails(k, L, m, M)'
  BY <1>1, <1>2, <1>3, <1>4, <1>6, Starts DEF Shape, Whole, Tails, Linked, Grown
<1>15. Whole' => Says(k, L, m, M)'
  BY <1>1, <1>2, <1>3, <1>4, <1>6, Starts DEF Shape, Whole, Says,
     Linked, Grown, Unlinked, Shrunk, Removed
<1>16. /\ pc' \in EleInHand => ele' \in Elements \ S
       /\ \A i \in 1 .. k, j \in 1 .. m : L[i] # M[j]
  BY <1>1, <1>2, <1>4 DEF Shape
<1> HIDE DEF InsertFails, Return
<1>17. Shape(k, L, m, M)'
  BY <1>9, <1>10, <1>12, <1>13, <1>14, <1>15, <1>16 DEF Shape
<1> QED
  BY <1>1, <1>7, <1>8, <1>17, SameCounts DEF IInv

LEMMA RemoveNoneStep == IInv /\ RemoveNone /\ InCall => IInv'
<1> USE DEF RemoveNone, Return
<1>1. SUFFICES ASSUME IInv, RemoveNone, InCall PROVE IInv'
  OBVIOUS
<1>2. PICK k, L, m, M : Shape(k, L, m, M)
  BY <1>1 DEF IInv
<1> DEFINE S == Members(k, L) \cup Members(m, M)
<1>3. TypeOK /\ Control
  BY <1>1 DEF IInv
<1>4. pc = "remove" /\ pc' = "cancel" /\ cmd = "rh" /\ ~rval /\ ~rval'
  BY <1>1, <1>2, <1>3 DEF Control, Result, Shape
<1>5. UNCHANGED <<Turning, Out, In, Ahead, Behind, Room, Late, Early, More, Fewer>>
  BY <1>1, <1>4 DEF Turning, Out, In, Ahead, Behind, Room, Late, Early, More, Fewer,
     One, Unlinked, Shrunk, Removed, Linked, Grown
<1>6. /\ (Live' <=> Live) /\ ((Taking \/ Cleared)' <=> (Taking \/ Cleared))
      /\ size' = size /\ UNCHANGED <<qcnt, alarms, held, cmd>>
  BY <1>1, <1>4 DEF Live, HasQueue, Taking, Cleared
<1>7. TypeOK'
  BY <1>1, <1>3, <1>4 DEF TypeOK, Labels
<1>8. Control'
  BY <1>1, <1>3, <1>4 DEF Control, Result
<1>9. Chain(next, Front, k, L)' /\ Chain(next, Rest, m, M)'
  <2>1. Front' = Front /\ Rest' = Rest
    BY <1>1, <1>4 DEF Front, Rest, Live, HasQueue, Taking, Cleared
  <2> QED
    BY <1>1, <1>2, <2>1 DEF Shape
<1>10. Books(S)'
  <2>1. Owned(S)' = Owned(S)
    BY <1>1, <1>4 DEF Owned, Pending, HasQueue, Cleared
  <2> QED
    BY <1>1, <1>2, <2>1 DEF Shape, Books
<1>11. EleBlocks(Known') = EleBlocks(Known)
  BY <1>1
<1>12. Numbers(k, m)'
  <2>1. Numbers(k, m) /\ k \in Nat /\ m \in Nat
    BY <1>2, Starts DEF Shape
  <2>2. /\ qcnt \in Int /\ size \in Nat /\ alarms \in Nat
        /\ Cardinality(EleBlocks(Known)) \in Nat
    BY <1>3, Numeric
  <2>3. k + m + Turning' + Out' <= qcnt' + In' + alarms'
    BY <1>6, <1>5, <2>1, <2>2, Bits DEF Numbers
  <2>4. ~(Taking \/ Cleared)'
           => qcnt' + Ahead' <= Cardinality(EleBlocks(Known')) + alarms' + Behind'
    BY <1>6, <1>5, <1>11, <2>1, <2>2, Bits DEF Numbers
  <2>5. Live' => size' + Room' <= Cardinality(EleBlocks(Known'))
    BY <1>6, <1>5, <1>11, <2>1, <2>2, Bits DEF Numbers
  <2> QED
    BY <2>3, <2>4, <2>5 DEF Numbers, EleBlocks
<1>13. Whole' => Sizes(k, m)'
  <2>1. /\ Whole => Sizes(k, m)
        /\ k \in Nat /\ m \in Nat
    BY <1>2, Starts DEF Shape
  <2>2. qcnt \in Int /\ size \in Nat
    BY <1>3, Numeric
  <2>3. Whole' => Whole
    BY <1>6 DEF Whole
  <2>4. Sizes(k, m) => size' + Late' = k + m + Turning' + Early'
    BY <1>6, <1>5, <2>1, <2>2, Bits DEF Sizes
  <2>5. Sizes(k, m) => (cmd' # "new" => qcnt' + More' = size' + Fewer')
    BY <1>6, <1>5, <2>1, <2>2, Bits DEF Sizes
  <2> QED
    BY <2>1, <2>3, <2>4, <2>5 DEF Sizes
<1>14. Whole' => Tails(k, L, m, M)'
  BY <1>1, <1>2, <1>3, <1>4, <1>6, Starts DEF Shape, Whole, Tails, Linked, Grown
<1>15. Whole' => Says(k, L, m, M)'
  BY <1>1, <1>2, <1>3, <1>4, <1>6, Starts DEF Shape, Whole, Says,
     Linked, Grown, Unlinked, Shrunk, Removed
<1>16. /\ pc' \in EleInHand => ele' \in Elements \ S
       /\ \A i \in 1 .. k, j \in 1 .. m : L[i] # M[j]
  BY <1>1, <1>2, <1>4 DEF Shape
<1> HIDE DEF RemoveNone, Return
<1>17. Shape(k, L, m, M)'
  BY <1>9, <1>10, <1>12, <1>13, <1>14, <1>15, <1>16 DEF Shape
<1> QED
  BY <1>1, <1>7, <1>8, <1>17, SameCounts DEF IInv

LEMMA NewFailsStep == IInv /\ NewFails /\ InCall => IInv'
<1> USE DEF NewFails
<1>1. SUFFICES ASSUME IInv, NewFails, InCall PROVE IInv'
  OBVIOUS
<1>2. PICK k, L, m, M : Shape(k, L, m, M)
  BY <1>1 DEF IInv
<1> DEFINE S == Members(k, L) \cup Members(m, M)
<1>3. TypeOK /\ Control
  BY <1>1 DEF IInv
<1>4. pc = "q_new" /\ pc' = "cancel" /\ cmd = "new" /\ q = NULL
  BY <1>1, <1>2, <1>3 DEF Control, Result, Shape
<1>5. UNCHANGED <<Turning, Out, In, Ahead, Behind, Room, Late, Early, More, Fewer>>
  BY <1>1, <1>4 DEF Turning, Out, In, Ahead, Behind, Room, Late, Early, More, Fewer,
     One, Unlinked, Shrunk, Removed, Linked, Grown
<1>6. /\ (Live' <=> Live) /\ ((Taking \/ Cleared)' <=> (Taking \/ Cleared))
      /\ size' = size /\ UNCHANGED <<qcnt, alarms, held, cmd>>
  BY <1>1, <1>4 DEF Live, HasQueue, Taking, Cleared
<1>7. TypeOK'
  BY <1>1, <1>3, <1>4 DEF TypeOK, Labels
<1>8. Control'
  BY <1>1, <1>3, <1>4 DEF Control, Result
<1>9. Chain(next, Front, k, L)' /\ Chain(next, Rest, m, M)'
  <2>1. Front' = Front /\ Rest' = Rest
    BY <1>1, <1>4 DEF Front, Rest, Live, HasQueue, Taking, Cleared
  <2> QED
    BY <1>1, <1>2, <2>1 DEF Shape
<1>10. Books(S)'
  <2>1. Owned(S)' = Owned(S)
    BY <1>1, <1>4 DEF Owned, Pending, HasQueue, Cleared
  <2> QED
    BY <1>1, <1>2, <2>1 DEF Shape, Books
<1>11. EleBlocks(Known') = EleBlocks(Known)
  BY <1>1
<1>12. Numbers(k, m)'
  <2>1. Numbers(k, m) /\ k \in Nat /\ m \in Nat
    BY <1>2, Starts DEF Shape
  <2>2. /\ qcnt \in Int /\ size \in Nat /\ alarms \in Nat
        /\ Cardinality(EleBlocks(Known)) \in Nat
    BY <1>3, Numeric
  <2>3. k + m + Turning' + Out' <= qcnt' + In' + alarms'
    BY <1>6, <1>5, <2>1, <2>2, Bits DEF Numbers
  <2>4. ~(Taking \/ Cleared)'
           => qcnt' + Ahead' <= Cardinality(EleBlocks(Known')) + alarms' + Behind'
    BY <1>6, <1>5, <1>11, <2>1, <2>2, Bits DEF Numbers
  <2>5. Live' => size' + Room' <= Cardinality(EleBlocks(Known'))
    BY <1>6, <1>5, <1>11, <2>1, <2>2, Bits DEF Numbers
  <2> QED
    BY <2>3, <2>4, <2>5 DEF Numbers, EleBlocks
<1>13. Whole' => Sizes(k, m)'
  <2>1. /\ Whole => Sizes(k, m)
        /\ k \in Nat /\ m \in Nat
    BY <1>2, Starts DEF Shape
  <2>2. qcnt \in Int /\ size \in Nat
    BY <1>3, Numeric
  <2>3. Whole' => Whole
    BY <1>6 DEF Whole
  <2>4. Sizes(k, m) => size' + Late' = k + m + Turning' + Early'
    BY <1>6, <1>5, <2>1, <2>2, Bits DEF Sizes
  <2>5. Sizes(k, m) => (cmd' # "new" => qcnt' + More' = size' + Fewer')
    BY <1>6, <1>5, <2>1, <2>2, Bits DEF Sizes
  <2> QED
    BY <2>1, <2>3, <2>4, <2>5 DEF Sizes
<1>14. Whole' => Tails(k, L, m, M)'
  BY <1>1, <1>2, <1>3, <1>4, <1>6, Starts DEF Shape, Whole, Tails, Linked, Grown
<1>15. Whole' => Says(k, L, m, M)'
  BY <1>1, <1>2, <1>3, <1>4, <1>6, Starts DEF Shape, Whole, Says,
     Linked, Grown, Unlinked, Shrunk, Removed
<1>16. /\ pc' \in EleInHand => ele' \in Elements \ S
       /\ \A i \in 1 .. k, j \in 1 .. m : L[i] # M[j]
  BY <1>1, <1>2, <1>4 DEF Shape
<1> HIDE DEF NewFails
<1>17. Shape(k, L, m, M)'
  BY <1>9, <1>10, <1>12, <1>13, <1>14, <1>15, <1>16 DEF Shape
<1> QED
  BY <1>1, <1>7, <1>8, <1>17, SameCounts DEF IInv

LEMMA TurnEndsStep == IInv /\ TurnEnds /\ InCall => IInv'
<1> USE DEF TurnEnds
<1>1. SUFFICES ASSUME IInv, TurnEnds, InCall PROVE IInv'
  OBVIOUS
<1>2. PICK k, L, m, M : Shape(k, L, m, M)
  BY <1>1 DEF IInv
<1> DEFINE S == Members(k, L) \cup Members(m, M)
<1>3. TypeOK /\ Control
  BY <1>1 DEF IInv
<1>4. pc = "turn" /\ pc' = "cancel" /\ cmd = "reverse" /\ q # NULL
  BY <1>1, <1>2, <1>3 DEF Control, Result, Shape
<1>5. UNCHANGED <<Turning, Out, In, Ahead, Behind, Room, Late, Early, More, Fewer>>
  BY <1>1, <1>4 DEF Turning, Out, In, Ahead, Behind, Room, Late, Early, More, Fewer,
     One, Unlinked, Shrunk, Removed, Linked, Grown
<1>6. /\ (Live' <=> Live) /\ ((Taking \/ Cleared)' <=> (Taking \/ Cleared))
      /\ size' = size /\ UNCHANGED <<qcnt, alarms, held, cmd>>
  BY <1>1, <1>4 DEF Live, HasQueue, Taking, Cleared
<1>7. TypeOK'
  BY <1>1, <1>3, <1>4 DEF TypeOK, Labels
<1>8. Control'
  BY <1>1, <1>3, <1>4 DEF Control, Result
<1>9. Chain(next, Front, k, L)' /\ Chain(next, Rest, m, M)'
  <2>1. Front' = Front /\ Rest' = Rest
    BY <1>1, <1>4 DEF Front, Rest, Live, HasQueue, Taking, Cleared
  <2> QED
    BY <1>1, <1>2, <2>1 DEF Shape
<1>10. Books(S)'
  <2>1. Owned(S)' = Owned(S)
    BY <1>1, <1>4 DEF Owned, Pending, HasQueue, Cleared
  <2> QED
    BY <1>1, <1>2, <2>1 DEF Shape, Books
<1>11. EleBlocks(Known') = EleBlocks(Known)
  BY <1>1
<1>12. Numbers(k, m)'
  <2>1. Numbers(k, m) /\ k \in Nat /\ m \in Nat
    BY <1>2, Starts DEF Shape
  <2>2. /\ qcnt \in Int /\ size \in Nat /\ alarms \in Nat
        /\ Cardinality(EleBlocks(Known)) \in Nat
    BY <1>3, Numeric
  <2>3. k + m + Turning' + Out' <= qcnt' + In' + alarms'
    BY <1>6, <1>5, <2>1, <2>2, Bits DEF Numbers
  <2>4. ~(Taking \/ Cleared)'
           => qcnt' + Ahead' <= Cardinality(EleBlocks(Known')) + alarms' + Behind'
    BY <1>6, <1>5, <1>11, <2>1, <2>2, Bits DEF Numbers
  <2>5. Live' => size' + Room' <= Cardinality(EleBlocks(Known'))
    BY <1>6, <1>5, <1>11, <2>1, <2>2, Bits DEF Numbers
  <2> QED
    BY <2>3, <2>4, <2>5 DEF Numbers, EleBlocks
<1>13. Whole' => Sizes(k, m)'
  <2>1. /\ Whole => Sizes(k, m)
        /\ k \in Nat /\ m \in Nat
    BY <1>2, Starts DEF Shape
  <2>2. qcnt \in Int /\ size \in Nat
    BY <1>3, Numeric
  <2>3. Whole' => Whole
    BY <1>6 DEF Whole
  <2>4. Sizes(k, m) => size' + Late' = k + m + Turning' + Early'
    BY <1>6, <1>5, <2>1, <2>2, Bits DEF Sizes
  <2>5. Sizes(k, m) => (cmd' # "new" => qcnt' + More' = size' + Fewer')
    BY <1>6, <1>5, <2>1, <2>2, Bits DEF Sizes
  <2> QED
    BY <2>1, <2>3, <2>4, <2>5 DEF Sizes
<1>14. Whole' => Tails(k, L, m, M)'
  BY <1>1, <1>2, <1>3, <1>4, <1>6, Starts DEF Shape, Whole, Tails, Linked, Grown, Rest
<1>15. Whole' => Says(k, L, m, M)'
  BY <1>1, <1>2, <1>3, <1>4, <1>6, Starts DEF Shape, Whole, Says,
     Linked, Grown, Unlinked, Shrunk, Removed, Rest
<1>16. /\ pc' \in EleInHand => ele' \in Elements \ S
       /\ \A i \in 1 .. k, j \in 1 .. m : L[i] # M[j]
  BY <1>1, <1>2, <1>4 DEF Shape
<1> HIDE DEF TurnEnds
<1>17. Shape(k, L, m, M)'
  BY <1>9, <1>10, <1>12, <1>13, <1>14, <1>15, <1>16 DEF Shape
<1> QED
  BY <1>1, <1>7, <1>8, <1>17, SameCounts DEF IInv

LEMMA MallocValueStep == IInv /\ MallocValue /\ InCall => IInv'
<1> USE DEF MallocValue, Takes
<1>1. SUFFICES ASSUME IInv, MallocValue, InCall, Takes(<<"value", ele>>) PROVE IInv'
  <2>1. SUFFICES ASSUME IInv, MallocValue, InCall PROVE Takes(<<"value", ele>>)
    OBVIOUS
  <2>2. ele \in Elements
    BY <2>1 DEF IInv, Shape
  <2>3. <<"value", ele>> \in Blocks /\ step = "none" /\ test_malloc(<<"value", ele>>)
    BY <2>1, <2>2 DEF Blocks
  <2> HIDE DEF MallocValue, Takes, InCall
  <2> QED
    BY <2>1, <2>3, IsTaken
<1>2. PICK k, L, m, M : Shape(k, L, m, M)
  BY <1>1 DEF IInv
<1> DEFINE S == Members(k, L) \cup Members(m, M)
<1>3. TypeOK /\ Control
  BY <1>1 DEF IInv
<1>4. pc = "malloc value" /\ pc' = "store" /\ cmd \in {"ih", "it"} /\ q # NULL
  BY <1>1, <1>2, <1>3 DEF Control, Result, Shape
<1>5. UNCHANGED <<Turning, Out, In, Ahead, Behind, Room, Late, Early, More, Fewer>>
  BY <1>1, <1>4 DEF Turning, Out, In, Ahead, Behind, Room, Late, Early, More, Fewer,
     One, Unlinked, Shrunk, Removed, Linked, Grown
<1>6. /\ (Live' <=> Live) /\ ((Taking \/ Cleared)' <=> (Taking \/ Cleared))
      /\ size' = size /\ UNCHANGED <<qcnt, alarms, held, cmd>>
  BY <1>1, <1>4 DEF Live, HasQueue, Taking, Cleared
<1>7. ele \in Elements \ S
  BY <1>2, <1>4 DEF Shape
<1>8. Known' \subseteq Blocks
  <2>1. <<"value", ele>> \in Blocks /\ Known \subseteq Blocks
    BY <1>3, <1>7 DEF TypeOK, Blocks
  <2> QED
    BY <1>1, <2>1
<1>9. TypeOK'
  BY <1>1, <1>3, <1>4, <1>7, Signs, <1>8 DEF TypeOK, Labels
<1>10. Control'
  BY <1>1, <1>3, <1>4, Signs DEF Control, Result
<1>11. Chain(next, Front, k, L)' /\ Chain(next, Rest, m, M)'
  <2>1. Front' = Front /\ Rest' = Rest
    BY <1>1, <1>4 DEF Front, Rest, Live, HasQueue, Taking, Cleared
  <2> QED
    BY <1>1, <1>2, <2>1 DEF Shape
<1>12. Books(S)'
  <2>1. Owned(S)' = Owned(S) \cup {<<"value", ele>>}
    BY <1>1, <1>4 DEF Owned, Pending, HasQueue, Cleared
  <2>2. Books(S)
    BY <1>2 DEF Shape
  <2> QED
    BY <1>1, <1>3, <2>1, <2>2, BooksMalloc
<1>13. EleBlocks(Known') = EleBlocks(Known)
  BY <1>1, EleSame
<1>14. Numbers(k, m)'
  <2>1. Numbers(k, m) /\ k \in Nat /\ m \in Nat
    BY <1>2, Starts DEF Shape
  <2>2. /\ qcnt \in Int /\ size \in Nat /\ alarms \in Nat
        /\ Cardinality(EleBlocks(Known)) \in Nat
    BY <1>3, Numeric
  <2>3. k + m + Turning' + Out' <= qcnt' + In' + alarms'
    BY <1>6, <1>5, <2>1, <2>2, Bits DEF Numbers
  <2>4. ~(Taking \/ Cleared)'
           => qcnt' + Ahead' <= Cardinality(EleBlocks(Known')) + alarms' + Behind'
    BY <1>6, <1>5, <1>13, <2>1, <2>2, Bits DEF Numbers
  <2>5. Live' => size' + Room' <= Cardinality(EleBlocks(Known'))
    BY <1>6, <1>5, <1>13, <2>1, <2>2, Bits DEF Numbers
  <2> QED
    BY <2>3, <2>4, <2>5 DEF Numbers, EleBlocks
<1>15. Whole' => Sizes(k, m)'
  <2>1. /\ Whole => Sizes(k, m)
        /\ k \in Nat /\ m \in Nat
    BY <1>2, Starts DEF Shape
  <2>2. qcnt \in Int /\ size \in Nat
    BY <1>3, Numeric
  <2>3. Whole' => Whole
    BY <1>6 DEF Whole
  <2>4. Sizes(k, m) => size' + Late' = k + m + Turning' + Early'
    BY <1>6, <1>5, <2>1, <2>2, Bits DEF Sizes
  <2>5. Sizes(k, m) => (cmd' # "new" => qcnt' + More' = size' + Fewer')
    BY <1>6, <1>5, <2>1, <2>2, Bits DEF Sizes
  <2> QED
    BY <2>1, <2>3, <2>4, <2>5 DEF Sizes
<1>16. Whole' => Tails(k, L, m, M)'
  BY <1>1, <1>2, <1>3, <1>4, <1>6, Starts DEF Shape, Whole, Tails, Linked, Grown
<1>17. Whole' => Says(k, L, m, M)'
  BY <1>1, <1>2, <1>3, <1>4, <1>6, Starts DEF Shape, Whole, Says,
     Linked, Grown, Unlinked, Shrunk, Removed
<1>18. /\ pc' \in EleInHand => ele' \in Elements \ S
       /\ \A i \in 1 .. k, j \in 1 .. m : L[i] # M[j]
  BY <1>1, <1>2, <1>4 DEF Shape
<1> HIDE DEF MallocValue, Takes
<1>19. Shape(k, L, m, M)'
  BY <1>11, <1>12, <1>14, <1>15, <1>16, <1>17, <1>18 DEF Shape
<1> QED
  BY <1>1, <1>9, <1>10, <1>19, SameCounts DEF IInv

LEMMA MallocValueFailsStep == IInv /\ MallocValueFails /\ InCall => IInv'
<1> USE DEF MallocValueFails, Return, Gives
<1>1. SUFFICES ASSUME IInv, MallocValueFails, InCall, Gives(<<"ele", ele>>) PROVE IInv'
  BY IsGiven
<1>2. PICK k, L, m, M : Shape(k, L, m, M)
  BY <1>1 DEF IInv
<1> DEFINE S == Members(k, L) \cup Members(m, M)
<1>3. TypeOK /\ Control
  BY <1>1 DEF IInv
<1>4. pc = "malloc value" /\ pc' = "return" /\ cmd \in {"ih", "it"} /\ q # NULL
  BY <1>1, <1>2, <1>3 DEF Control, Result, Shape
<1>5. /\ UNCHANGED <<Turning, Out, In, Behind, Late, Early, More, Fewer>>
      /\ Ahead = 1 /\ Ahead' = 0 /\ Room = 1 /\ Room' = 0
  BY <1>1, <1>4 DEF Turning, Out, In, Ahead, Behind, Room, Late, Early, More, Fewer,
     One, Unlinked, Shrunk, Removed, Linked, Grown
<1>6. /\ (Live' <=> Live) /\ ((Taking \/ Cleared)' <=> (Taking \/ Cleared))
      /\ size' = size /\ UNCHANGED <<qcnt, alarms, held, cmd>>
  BY <1>1, <1>4 DEF Live, HasQueue, Taking, Cleared
<1>7. ele \in Elements \ S
  BY <1>2, <1>4 DEF Shape
<1>8. Known' \subseteq Blocks
  <2>1. <<"ele", ele>> \in Blocks /\ Known \subseteq Blocks
    BY <1>3, <1>7 DEF TypeOK, Blocks
  <2> QED
    BY <1>1, <2>1
<1>9. TypeOK'
  BY <1>1, <1>3, <1>4, <1>7, Signs, <1>8 DEF TypeOK, Labels
<1>10. Control'
  BY <1>1, <1>3, <1>4, Signs DEF Control, Result
<1>11. Chain(next, Front, k, L)' /\ Chain(next, Rest, m, M)'
  <2>1. Front' = Front /\ Rest' = Rest
    BY <1>1, <1>4 DEF Front, Rest, Live, HasQueue, Taking, Cleared
  <2> QED
    BY <1>1, <1>2, <2>1 DEF Shape
<1>12. Books(S)'
  <2>1. <<"ele", ele>> \in Owned(S) /\ <<"ele", ele>> \in Pending /\ (HasQueue' <=> HasQueue)
    BY <1>1, <1>4 DEF Owned, Pending, HasQueue, Cleared
  <2>2. Pending' = Pending \ {<<"ele", ele>>}
    <3>1. Pending = {<<"ele", ele>>} /\ Pending' = {}
      BY <1>1, <1>4 DEF Pending
    <3> QED
      BY <3>1
  <2>3. <<"ele", ele>> \notin {"ele", "value"} \X S /\ <<"ele", ele>> # <<"queue", q>>
    BY <1>7
  <2>4. Owned(S)' = Owned(S) \ {<<"ele", ele>>}
    BY <1>1, <2>1, <2>2, <2>3 DEF Owned
  <2>5. Books(S)
    BY <1>2 DEF Shape
  <2> QED
    BY <1>1, <1>3, <2>1, <2>4, <2>5, BooksFree
<1>13. Cardinality(EleBlocks(Known')) = Cardinality(EleBlocks(Known)) - 1
  <2>1. <<"ele", ele>> \in Known
    BY <1>2, <1>4 DEF Shape, Books, Sound, Owned, Pending
  <2> QED
    BY <1>1, <1>3, <1>7, <2>1, EleFree DEF TypeOK
<1>14. Numbers(k, m)'
  <2>1. Numbers(k, m) /\ k \in Nat /\ m \in Nat
    BY <1>2, Starts DEF Shape
  <2>2. /\ qcnt \in Int /\ size \in Nat /\ alarms \in Nat
        /\ Cardinality(EleBlocks(Known)) \in Nat
    BY <1>3, Numeric
  <2>3. k + m + Turning' + Out' <= qcnt' + In' + alarms'
    BY <1>6, <1>5, <2>1, <2>2, Bits DEF Numbers
  <2>4. ~(Taking \/ Cleared)'
           => qcnt' + Ahead' <= Cardinality(EleBlocks(Known')) + alarms' + Behind'
    BY <1>6, <1>5, <1>13, <2>1, <2>2, Bits DEF Numbers
  <2>5. Live' => size' + Room' <= Cardinality(EleBlocks(Known'))
    BY <1>6, <1>5, <1>13, <2>1, <2>2, Bits DEF Numbers
  <2> QED
    BY <2>3, <2>4, <2>5 DEF Numbers, EleBlocks
<1>15. Whole' => Sizes(k, m)'
  <2>1. /\ Whole => Sizes(k, m)
        /\ k \in Nat /\ m \in Nat
    BY <1>2, Starts DEF Shape
  <2>2. qcnt \in Int /\ size \in Nat
    BY <1>3, Numeric
  <2>3. Whole' => Whole
    BY <1>6 DEF Whole
  <2>4. Sizes(k, m) => size' + Late' = k + m + Turning' + Early'
    BY <1>6, <1>5, <2>1, <2>2, Bits DEF Sizes
  <2>5. Sizes(k, m) => (cmd' # "new" => qcnt' + More' = size' + Fewer')
    BY <1>6, <1>5, <2>1, <2>2, Bits DEF Sizes
  <2> QED
    BY <2>1, <2>3, <2>4, <2>5 DEF Sizes
<1>16. Whole' => Tails(k, L, m, M)'
  BY <1>1, <1>2, <1>3, <1>4, <1>6, Starts DEF Shape, Whole, Tails, Linked, Grown
<1>17. Whole' => Says(k, L, m, M)'
  BY <1>1, <1>2, <1>3, <1>4, <1>6, Starts DEF Shape, Whole, Says,
     Linked, Grown, Unlinked, Shrunk, Removed
<1>18. /\ pc' \in EleInHand => ele' \in Elements \ S
       /\ \A i \in 1 .. k, j \in 1 .. m : L[i] # M[j]
  BY <1>1, <1>2, <1>4 DEF Shape
<1> HIDE DEF MallocValueFails, Return, Gives
<1>19. Shape(k, L, m, M)'
  BY <1>11, <1>12, <1>14, <1>15, <1>16, <1>17, <1>18 DEF Shape
<1> QED
  BY <1>1, <1>9, <1>10, <1>19, SameCounts DEF IInv

LEMMA FreeValueStep == IInv /\ FreeValue /\ InCall => IInv'
<1> USE DEF FreeValue, Gives
<1>1. SUFFICES ASSUME IInv, FreeValue, InCall, Gives(<<"value", ele>>) PROVE IInv'
  BY IsGiven
<1>2. PICK k, L, m, M : Shape(k, L, m, M)
  BY <1>1 DEF IInv
<1> DEFINE S == Members(k, L) \cup Members(m, M)
<1>3. TypeOK /\ Control
  BY <1>1 DEF IInv
<1>4. pc = "free value" /\ pc' = "free ele" /\ cmd \in {"free", "renew", "quit", "rh"} /\ q # NULL
  BY <1>1, <1>2, <1>3 DEF Control, Result, Shape
<1>5. UNCHANGED <<Turning, Out, In, Ahead, Behind, Room, Late, Early, More, Fewer>>
  BY <1>1, <1>4 DEF Turning, Out, In, Ahead, Behind, Room, Late, Early, More, Fewer,
     One, Unlinked, Shrunk, Removed, Linked, Grown
<1>6. /\ (Live' <=> Live) /\ ((Taking \/ Cleared)' <=> (Taking \/ Cleared))
      /\ size' = size /\ UNCHANGED <<qcnt, alarms, held, cmd>>
  BY <1>1, <1>4 DEF Live, HasQueue, Taking, Cleared
<1>7. ele \in Elements \ S
  BY <1>2, <1>4 DEF Shape
<1>8. Known' \subseteq Blocks
  <2>1. <<"value", ele>> \in Blocks /\ Known \subseteq Blocks
    BY <1>3, <1>7 DEF TypeOK, Blocks
  <2> QED
    BY <1>1, <2>1
<1>9. TypeOK'
  BY <1>1, <1>3, <1>4, <1>7, Signs, <1>8 DEF TypeOK, Labels
<1>10. Control'
  BY <1>1, <1>3, <1>4, Signs DEF Control, Result
<1>11. Chain(next, Front, k, L)' /\ Chain(next, Rest, m, M)'
  <2>1. Front' = Front /\ Rest' = Rest
    BY <1>1, <1>4 DEF Front, Rest, Live, HasQueue, Taking, Cleared
  <2> QED
    BY <1>1, <1>2, <2>1 DEF Shape
<1>12. Books(S)'
  <2>1. <<"value", ele>> \in Owned(S) /\ <<"value", ele>> \in Pending /\ (HasQueue' <=> HasQueue)
    BY <1>1, <1>4 DEF Owned, Pending, HasQueue, Cleared
  <2>2. Pending' = Pending \ {<<"value", ele>>}
    <3>1. Pending = {<<"ele", ele>>, <<"value", ele>>} /\ Pending' = {<<"ele", ele>>}
      BY <1>1, <1>4 DEF Pending
    <3> QED
      BY <3>1
  <2>3. <<"value", ele>> \notin {"ele", "value"} \X S /\ <<"value", ele>> # <<"queue", q>>
    BY <1>7
  <2>4. Owned(S)' = Owned(S) \ {<<"value", ele>>}
    BY <1>1, <2>1, <2>2, <2>3 DEF Owned
  <2>5. Books(S)
    BY <1>2 DEF Shape
  <2> QED
    BY <1>1, <1>3, <2>1, <2>4, <2>5, BooksFree
<1>13. EleBlocks(Known') = EleBlocks(Known)
  BY <1>1, EleSame
<1>14. Numbers(k, m)'
  <2>1. Numbers(k, m) /\ k \in Nat /\ m \in Nat
    BY <1>2, Starts DEF Shape
  <2>2. /\ qcnt \in Int /\ size \in Nat /\ alarms \in Nat
        /\ Cardinality(EleBlocks(Known)) \in Nat
    BY <1>3, Numeric
  <2>3. k + m + Turning' + Out' <= qcnt' + In' + alarms'
    BY <1>6, <1>5, <2>1, <2>2, Bits DEF Numbers
  <2>4. ~(Taking \/ Cleared)'
           => qcnt' + Ahead' <= Cardinality(EleBlocks(Known')) + alarms' + Behind'
    BY <1>6, <1>5, <1>13, <2>1, <2>2, Bits DEF Numbers
  <2>5. Live' => size' + Room' <= Cardinality(EleBlocks(Known'))
    BY <1>6, <1>5, <1>13, <2>1, <2>2, Bits DEF Numbers
  <2> QED
    BY <2>3, <2>4, <2>5 DEF Numbers, EleBlocks
<1>15. Whole' => Sizes(k, m)'
  <2>1. /\ Whole => Sizes(k, m)
        /\ k \in Nat /\ m \in Nat
    BY <1>2, Starts DEF Shape
  <2>2. qcnt \in Int /\ size \in Nat
    BY <1>3, Numeric
  <2>3. Whole' => Whole
    BY <1>6 DEF Whole
  <2>4. Sizes(k, m) => size' + Late' = k + m + Turning' + Early'
    BY <1>6, <1>5, <2>1, <2>2, Bits DEF Sizes
  <2>5. Sizes(k, m) => (cmd' # "new" => qcnt' + More' = size' + Fewer')
    BY <1>6, <1>5, <2>1, <2>2, Bits DEF Sizes
  <2> QED
    BY <2>1, <2>3, <2>4, <2>5 DEF Sizes
<1>16. Whole' => Tails(k, L, m, M)'
  BY <1>1, <1>2, <1>3, <1>4, <1>6, Starts DEF Shape, Whole, Tails, Linked, Grown
<1>17. Whole' => Says(k, L, m, M)'
  BY <1>1, <1>2, <1>3, <1>4, <1>6, Starts DEF Shape, Whole, Says,
     Linked, Grown, Unlinked, Shrunk, Removed
<1>18. /\ pc' \in EleInHand => ele' \in Elements \ S
       /\ \A i \in 1 .. k, j \in 1 .. m : L[i] # M[j]
  BY <1>1, <1>2, <1>4 DEF Shape
<1> HIDE DEF FreeValue, Gives
<1>19. Shape(k, L, m, M)'
  BY <1>11, <1>12, <1>14, <1>15, <1>16, <1>17, <1>18 DEF Shape
<1> QED
  BY <1>1, <1>9, <1>10, <1>19, SameCounts DEF IInv

LEMMA q_reverseStep == IInv /\ q_reverse /\ InCall => IInv'
<1> USE DEF q_reverse
<1>1. SUFFICES ASSUME IInv, q_reverse, InCall PROVE IInv'
  OBVIOUS
<1>2. PICK k, L, m, M : Shape(k, L, m, M)
  BY <1>1 DEF IInv
<1> DEFINE S == Members(k, L) \cup Members(m, M)
<1>3. TypeOK /\ Control
  BY <1>1 DEF IInv
<1>4. pc = "reverse" /\ pc' \in {"turn tail", "cancel"} /\ cmd = "reverse" /\ (pc' = "cancel" <=> q = NULL)
  BY <1>1, <1>2, <1>3 DEF Control, Result, Shape
<1>5. UNCHANGED <<Turning, Out, In, Ahead, Behind, Room, Late, Early, More, Fewer>>
  BY <1>1, <1>4 DEF Turning, Out, In, Ahead, Behind, Room, Late, Early, More, Fewer,
     One, Unlinked, Shrunk, Removed, Linked, Grown
<1>6. /\ (Live' <=> Live) /\ ((Taking \/ Cleared)' <=> (Taking \/ Cleared))
      /\ size' = size /\ UNCHANGED <<qcnt, alarms, held, cmd>>
  BY <1>1, <1>4 DEF Live, HasQueue, Taking, Cleared
<1>7. ptr' = head /\ head \in Elements \cup {NULL}
  BY <1>1, <1>3 DEF TypeOK
<1>8. TypeOK'
  BY <1>1, <1>3, <1>4, <1>7 DEF TypeOK, Labels
<1>9. Control'
  BY <1>1, <1>3, <1>4, <1>7 DEF Control, Result
<1>10. Chain(next, Front, k, L)' /\ Chain(next, Rest, m, M)'
  <2>1. Front' = Front /\ Rest' = Rest
    BY <1>1, <1>4 DEF Front, Rest, Live, HasQueue, Taking, Cleared
  <2> QED
    BY <1>1, <1>2, <2>1 DEF Shape
<1>11. Books(S)'
  <2>1. Owned(S)' = Owned(S)
    BY <1>1, <1>4 DEF Owned, Pending, HasQueue, Cleared
  <2> QED
    BY <1>1, <1>2, <2>1 DEF Shape, Books
<1>12. EleBlocks(Known') = EleBlocks(Known)
  BY <1>1
<1>13. Numbers(k, m)'
  <2>1. Numbers(k, m) /\ k \in Nat /\ m \in Nat
    BY <1>2, Starts DEF Shape
  <2>2. /\ qcnt \in Int /\ size \in Nat /\ alarms \in Nat
        /\ Cardinality(EleBlocks(Known)) \in Nat
    BY <1>3, Numeric
  <2>3. k + m + Turning' + Out' <= qcnt' + In' + alarms'
    BY <1>6, <1>5, <2>1, <2>2, Bits DEF Numbers
  <2>4. ~(Taking \/ Cleared)'
           => qcnt' + Ahead' <= Cardinality(EleBlocks(Known')) + alarms' + Behind'
    BY <1>6, <1>5, <1>12, <2>1, <2>2, Bits DEF Numbers
  <2>5. Live' => size' + Room' <= Cardinality(EleBlocks(Known'))
    BY <1>6, <1>5, <1>12, <2>1, <2>2, Bits DEF Numbers
  <2> QED
    BY <2>3, <2>4, <2>5 DEF Numbers, EleBlocks
<1>14. Whole' => Sizes(k, m)'
  <2>1. /\ Whole => Sizes(k, m)
        /\ k \in Nat /\ m \in Nat
    BY <1>2, Starts DEF Shape
  <2>2. qcnt \in Int /\ size \in Nat
    BY <1>3, Numeric
  <2>3. Whole' => Whole
    BY <1>6 DEF Whole
  <2>4. Sizes(k, m) => size' + Late' = k + m + Turning' + Early'
    BY <1>6, <1>5, <2>1, <2>2, Bits DEF Sizes
  <2>5. Sizes(k, m) => (cmd' # "new" => qcnt' + More' = size' + Fewer')
    BY <1>6, <1>5, <2>1, <2>2, Bits DEF Sizes
  <2> QED
    BY <2>1, <2>3, <2>4, <2>5 DEF Sizes
<1>15. Whole' => Tails(k, L, m, M)'
  BY <1>1, <1>2, <1>3, <1>4, <1>6, Starts DEF Shape, Whole, Tails, Linked, Grown, Live, HasQueue
<1>16. Whole' => Says(k, L, m, M)'
  BY <1>1, <1>2, <1>3, <1>4, <1>6, Starts DEF Shape, Whole, Says,
     Linked, Grown, Unlinked, Shrunk, Removed, Live, HasQueue
<1>17. /\ pc' \in EleInHand => ele' \in Elements \ S
       /\ \A i \in 1 .. k, j \in 1 .. m : L[i] # M[j]
  BY <1>1, <1>2, <1>4 DEF Shape
<1> HIDE DEF q_reverse
<1>18. Shape(k, L, m, M)'
  BY <1>10, <1>11, <1>13, <1>14, <1>15, <1>16, <1>17 DEF Shape
<1> QED
  BY <1>1, <1>8, <1>9, <1>18, SameCounts DEF IInv

LEMMA q_newStep == IInv /\ q_new /\ InCall => IInv'
<1> USE DEF q_new, Takes
<1>1. SUFFICES ASSUME IInv, q_new, InCall, Takes(<<"queue", ptr'>>) PROVE IInv'
  <2>1. SUFFICES ASSUME IInv, q_new, InCall PROVE Takes(<<"queue", ptr'>>)
    OBVIOUS
  <2>2. ptr' \in Queues /\ step = "none" /\ test_malloc(<<"queue", ptr'>>)
    BY <2>1
  <2>3. <<"queue", ptr'>> \in Blocks
    BY <2>2 DEF Blocks
  <2> HIDE DEF q_new, Takes, InCall
  <2> QED
    BY <2>1, <2>2, <2>3, IsTaken
<1>2. PICK k, L, m, M : Shape(k, L, m, M)
  BY <1>1 DEF IInv
<1> DEFINE S == Members(k, L) \cup Members(m, M)
<1>3. TypeOK /\ Control
  BY <1>1 DEF IInv
<1>4. pc = "q_new" /\ pc' = "assign" /\ cmd = "new" /\ q = NULL
  BY <1>1, <1>2, <1>3 DEF Control, Result, Shape
<1>5. UNCHANGED <<Turning, Out, In, Ahead, Behind, Room, Late, Early, More, Fewer>>
  BY <1>1, <1>4 DEF Turning, Out, In, Ahead, Behind, Room, Late, Early, More, Fewer,
     One, Unlinked, Shrunk, Removed, Linked, Grown
<1>6. /\ (Live' <=> Live) /\ ((Taking \/ Cleared)' <=> (Taking \/ Cleared))
      /\ size' = size /\ UNCHANGED <<qcnt, alarms, held, cmd>>
  BY <1>1, <1>4 DEF Live, HasQueue, Taking, Cleared
<1>7. ptr' \in Queues
  BY <1>1
<1>8. Known' \subseteq Blocks
  <2>1. <<"queue", ptr'>> \in Blocks /\ Known \subseteq Blocks
    BY <1>3, <1>7 DEF TypeOK, Blocks
  <2> QED
    BY <1>1, <2>1
<1>9. TypeOK'
  BY <1>1, <1>3, <1>4, <1>7, Signs, <1>8 DEF TypeOK, Labels
<1>10. Control'
  BY <1>1, <1>3, <1>4, Signs DEF Control, Result
<1>11. Chain(next, Front, k, L)' /\ Chain(next, Rest, m, M)'
  <2>1. Front' = Front /\ Rest' = Rest
    BY <1>1, <1>4 DEF Front, Rest, Live, HasQueue, Taking, Cleared
  <2> QED
    BY <1>1, <1>2, <2>1 DEF Shape
<1>12. Books(S)'
  <2>1. Owned(S)' = Owned(S) \cup {<<"queue", ptr'>>}
    BY <1>1, <1>4 DEF Owned, Pending, HasQueue, Cleared
  <2>2. Books(S)
    BY <1>2 DEF Shape
  <2>3. Takes(<<"queue", ptr'>>) /\ counting = 0
    BY <1>1
  <2> QED
    BY <1>1, <1>3, <2>1, <2>2, <2>3, BooksMalloc
<1>13. EleBlocks(Known') = EleBlocks(Known)
  <2>1. Known' = Known \cup {<<"queue", ptr'>>}
    BY <1>1
  <2> QED
    BY <2>1, EleSame
<1>14. Numbers(k, m)'
  <2>1. Numbers(k, m) /\ k \in Nat /\ m \in Nat
    BY <1>2, Starts DEF Shape
  <2>2. /\ qcnt \in Int /\ size \in Nat /\ alarms \in Nat
        /\ Cardinality(EleBlocks(Known)) \in Nat
    BY <1>3, Numeric
  <2>3. k + m + Turning' + Out' <= qcnt' + In' + alarms'
    BY <1>6, <1>5, <2>1, <2>2, Bits DEF Numbers
  <2>4. ~(Taking \/ Cleared)'
           => qcnt' + Ahead' <= Cardinality(EleBlocks(Known')) + alarms' + Behind'
    BY <1>6, <1>5, <1>13, <2>1, <2>2, Bits DEF Numbers
  <2>5. Live' => size' + Room' <= Cardinality(EleBlocks(Known'))
    BY <1>6, <1>5, <1>13, <2>1, <2>2, Bits DEF Numbers
  <2> QED
    BY <2>3, <2>4, <2>5 DEF Numbers, EleBlocks
<1>15. Whole' => Sizes(k, m)'
  <2>1. /\ Whole => Sizes(k, m)
        /\ k \in Nat /\ m \in Nat
    BY <1>2, Starts DEF Shape
  <2>2. qcnt \in Int /\ size \in Nat
    BY <1>3, Numeric
  <2>3. Whole' => Whole
    BY <1>6 DEF Whole
  <2>4. Sizes(k, m) => size' + Late' = k + m + Turning' + Early'
    BY <1>6, <1>5, <2>1, <2>2, Bits DEF Sizes
  <2>5. Sizes(k, m) => (cmd' # "new" => qcnt' + More' = size' + Fewer')
    BY <1>6, <1>5, <2>1, <2>2, Bits DEF Sizes
  <2> QED
    BY <2>1, <2>3, <2>4, <2>5 DEF Sizes
<1>16. Whole' => Tails(k, L, m, M)'
  BY <1>1, <1>2, <1>3, <1>4, <1>6, Starts DEF Shape, Whole, Tails, Linked, Grown
<1>17. Whole' => Says(k, L, m, M)'
  BY <1>1, <1>2, <1>3, <1>4, <1>6, Starts DEF Shape, Whole, Says,
     Linked, Grown, Unlinked, Shrunk, Removed
<1>18. /\ pc' \in EleInHand => ele' \in Elements \ S
       /\ \A i \in 1 .. k, j \in 1 .. m : L[i] # M[j]
  BY <1>1, <1>2, <1>4 DEF Shape
<1> HIDE DEF q_new, Takes
<1>19. Shape(k, L, m, M)'
  BY <1>11, <1>12, <1>14, <1>15, <1>16, <1>17, <1>18 DEF Shape
<1> QED
  BY <1>1, <1>9, <1>10, <1>19, SameCounts DEF IInv

LEMMA MallocEleStep == IInv /\ MallocEle /\ InCall => IInv'
<1> USE DEF MallocEle, Takes
<1>1. SUFFICES ASSUME IInv, MallocEle, InCall, Takes(<<"ele", ele'>>) PROVE IInv'
  <2>1. SUFFICES ASSUME IInv, MallocEle, InCall PROVE Takes(<<"ele", ele'>>)
    OBVIOUS
  <2>2. ele' \in Elements /\ step = "none" /\ test_malloc(<<"ele", ele'>>)
    BY <2>1
  <2>3. <<"ele", ele'>> \in Blocks
    BY <2>2 DEF Blocks
  <2> HIDE DEF MallocEle, Takes, InCall
  <2> QED
    BY <2>1, <2>2, <2>3, IsTaken
<1>2. PICK k, L, m, M : Shape(k, L, m, M)
  BY <1>1 DEF IInv
<1> DEFINE S == Members(k, L) \cup Members(m, M)
<1>3. TypeOK /\ Control
  BY <1>1 DEF IInv
<1>4. pc = "insert" /\ pc' = "malloc value" /\ cmd \in {"ih", "it"} /\ q # NULL
  BY <1>1, <1>2, <1>3 DEF Control, Result, Shape
<1>5. /\ UNCHANGED <<Turning, Out, In, Behind, Late, Early, More, Fewer>>
      /\ Ahead = 0 /\ Ahead' = 1 /\ Room = 0 /\ Room' = 1
  BY <1>1, <1>4 DEF Turning, Out, In, Ahead, Behind, Room, Late, Early, More, Fewer,
     One, Unlinked, Shrunk, Removed, Linked, Grown
<1>6. /\ (Live' <=> Live) /\ ((Taking \/ Cleared)' <=> (Taking \/ Cleared))
      /\ size' = size /\ UNCHANGED <<qcnt, alarms, held, cmd>>
  BY <1>1, <1>4 DEF Live, HasQueue, Taking, Cleared
<1>7. ele' \in Elements \ S
  <2>1. ele' \in Elements /\ <<"ele", ele'>> \notin Known
    BY <1>1
  <2>2. {"ele", "value"} \X S \subseteq Known
    BY <1>2 DEF Shape, Books, Sound, Owned
  <2> QED
    BY <2>1, <2>2
<1>8. Known' \subseteq Blocks
  <2>1. <<"ele", ele'>> \in Blocks /\ Known \subseteq Blocks
    BY <1>3, <1>7 DEF TypeOK, Blocks
  <2> QED
    BY <1>1, <2>1
<1>9. TypeOK'
  BY <1>1, <1>3, <1>4, <1>7, Signs, <1>8 DEF TypeOK, Labels
<1>10. Control'
  BY <1>1, <1>3, <1>4, Signs DEF Control, Result
<1>11. Chain(next, Front, k, L)' /\ Chain(next, Rest, m, M)'
  <2>1. Front' = Front /\ Rest' = Rest
    BY <1>1, <1>4 DEF Front, Rest, Live, HasQueue, Taking, Cleared
  <2> QED
    BY <1>1, <1>2, <2>1 DEF Shape
<1>12. Books(S)'
  <2>1. Owned(S)' = Owned(S) \cup {<<"ele", ele'>>}
    BY <1>1, <1>4 DEF Owned, Pending, HasQueue, Cleared
  <2>2. Books(S)
    BY <1>2 DEF Shape
  <2>3. Takes(<<"ele", ele'>>) /\ counting = 0
    BY <1>1
  <2> QED
    BY <1>1, <1>3, <2>1, <2>2, <2>3, BooksMalloc
<1>13. Cardinality(EleBlocks(Known')) = Cardinality(EleBlocks(Known)) + 1
  BY <1>1, <1>3, <1>7, EleMalloc DEF TypeOK
<1>14. Numbers(k, m)'
  <2>1. Numbers(k, m) /\ k \in Nat /\ m \in Nat
    BY <1>2, Starts DEF Shape
  <2>2. /\ qcnt \in Int /\ size \in Nat /\ alarms \in Nat
        /\ Cardinality(EleBlocks(Known)) \in Nat
    BY <1>3, Numeric
  <2>3. k + m + Turning' + Out' <= qcnt' + In' + alarms'
    BY <1>6, <1>5, <2>1, <2>2, Bits DEF Numbers
  <2>4. ~(Taking \/ Cleared)'
           => qcnt' + Ahead' <= Cardinality(EleBlocks(Known')) + alarms' + Behind'
    BY <1>6, <1>5, <1>13, <2>1, <2>2, Bits DEF Numbers
  <2>5. Live' => size' + Room' <= Cardinality(EleBlocks(Known'))
    BY <1>6, <1>5, <1>13, <2>1, <2>2, Bits DEF Numbers
  <2> QED
    BY <2>3, <2>4, <2>5 DEF Numbers, EleBlocks
<1>15. Whole' => Sizes(k, m)'
  <2>1. /\ Whole => Sizes(k, m)
        /\ k \in Nat /\ m \in Nat
    BY <1>2, Starts DEF Shape
  <2>2. qcnt \in Int /\ size \in Nat
    BY <1>3, Numeric
  <2>3. Whole' => Whole
    BY <1>6 DEF Whole
  <2>4. Sizes(k, m) => size' + Late' = k + m + Turning' + Early'
    BY <1>6, <1>5, <2>1, <2>2, Bits DEF Sizes
  <2>5. Sizes(k, m) => (cmd' # "new" => qcnt' + More' = size' + Fewer')
    BY <1>6, <1>5, <2>1, <2>2, Bits DEF Sizes
  <2> QED
    BY <2>1, <2>3, <2>4, <2>5 DEF Sizes
<1>16. Whole' => Tails(k, L, m, M)'
  BY <1>1, <1>2, <1>3, <1>4, <1>6, Starts DEF Shape, Whole, Tails, Linked, Grown
<1>17. Whole' => Says(k, L, m, M)'
  BY <1>1, <1>2, <1>3, <1>4, <1>6, Starts DEF Shape, Whole, Says,
     Linked, Grown, Unlinked, Shrunk, Removed
<1>18. /\ pc' \in EleInHand => ele' \in Elements \ S
       /\ \A i \in 1 .. k, j \in 1 .. m : L[i] # M[j]
  BY <1>1, <1>2, <1>4, <1>7 DEF Shape
<1> HIDE DEF MallocEle, Takes
<1>19. Shape(k, L, m, M)'
  BY <1>11, <1>12, <1>14, <1>15, <1>16, <1>17, <1>18 DEF Shape
<1> QED
  BY <1>1, <1>9, <1>10, <1>19, SameCounts DEF IInv

LEMMA StoreStep == IInv /\ Store /\ InCall => IInv'
<1> USE DEF Store
<1>1. SUFFICES ASSUME IInv, Store, InCall PROVE IInv'
  OBVIOUS
<1>2. PICK k, L, m, M : Shape(k, L, m, M)
  BY <1>1 DEF IInv
<1> DEFINE S == Members(k, L) \cup Members(m, M)
<1>3. TypeOK /\ Control
  BY <1>1 DEF IInv
<1>4. pc = "store" /\ pc' \in {"link head", "first tail", "link tail"} /\ cmd \in {"ih", "it"} /\ q # NULL
  BY <1>1, <1>2, <1>3 DEF Control, Result, Shape
<1>5. UNCHANGED <<Turning, Out, In, Ahead, Behind, Room, Late, Early, More, Fewer>>
  BY <1>1, <1>4 DEF Turning, Out, In, Ahead, Behind, Room, Late, Early, More, Fewer,
     One, Unlinked, Shrunk, Removed, Linked, Grown
<1>6. /\ (Live' <=> Live) /\ ((Taking \/ Cleared)' <=> (Taking \/ Cleared))
      /\ size' = size /\ UNCHANGED <<qcnt, alarms, held, cmd>>
  BY <1>1, <1>4 DEF Live, HasQueue, Taking, Cleared
<1>7. ele \in Elements \ S
  BY <1>2, <1>4 DEF Shape
<1>8. \A i \in 1 .. k : value'[L[i]] = value[L[i]] /\ L[i] # ele
  <2>1. \A i \in 1 .. k : L[i] \in S /\ L[i] \in Elements
    BY <1>2, Starts
  <2> QED
    BY <1>1, <1>3, <1>7, <2>1 DEF TypeOK
<1>9. next'[ele'] = IF cmd = "ih" THEN head' ELSE NULL
  BY <1>1, <1>3, <1>7 DEF TypeOK
<1>10. /\ UNCHANGED <<q, head, tail, size, cmd, str, ele, ptr, rval, alarms, held>>
       /\ pc' = IF cmd = "ih" THEN "link head"
                 ELSE IF size = 0 THEN "first tail" ELSE "link tail"
  BY <1>1
<1>11. counting' # 1 /\ counting' # -1
  <2>1. counting = 0 /\ counting' = counting
    BY <1>1
  <2> QED
    BY <2>1, Signs
<1>12. TypeOK'
  BY <1>1, <1>3, <1>4, <1>7 DEF TypeOK, Labels
<1>13. Control'
  <2> HIDE DEF Store, InCall
  <2> QED
    BY <1>3, <1>4, <1>9, <1>10, <1>11 DEF Control, Result
<1>14. Chain(next, Front, k, L)' /\ Chain(next, Rest, m, M)'
  <2>1. Front' = Front /\ Rest' = Rest
    BY <1>1, <1>4 DEF Front, Rest, Live, HasQueue, Taking, Cleared
  <2>2. next \in Link
    BY <1>3 DEF TypeOK, Link
  <2>3. Chain(next, Front, k, L) /\ Chain(next, Rest, m, M)
    BY <1>2 DEF Shape
  <2>4. PICK x : next' = [next EXCEPT ![ele] = x]
    BY <1>1
  <2> QED
    BY <1>7, <2>1, <2>2, <2>3, <2>4, ChainFrame
<1>15. Books(S)'
  <2>1. Owned(S)' = Owned(S)
    BY <1>1, <1>4 DEF Owned, Pending, HasQueue, Cleared
  <2> QED
    BY <1>1, <1>2, <2>1 DEF Shape, Books
<1>16. EleBlocks(Known') = EleBlocks(Known)
  BY <1>1
<1>17. Numbers(k, m)'
  <2>1. Numbers(k, m) /\ k \in Nat /\ m \in Nat
    BY <1>2, Starts DEF Shape
  <2>2. /\ qcnt \in Int /\ size \in Nat /\ alarms \in Nat
        /\ Cardinality(EleBlocks(Known)) \in Nat
    BY <1>3, Numeric
  <2>3. k + m + Turning' + Out' <= qcnt' + In' + alarms'
    BY <1>6, <1>5, <2>1, <2>2, Bits DEF Numbers
  <2>4. ~(Taking \/ Cleared)'
           => qcnt' + Ahead' <= Cardinality(EleBlocks(Known')) + alarms' + Behind'
    BY <1>6, <1>5, <1>16, <2>1, <2>2, Bits DEF Numbers
  <2>5. Live' => size' + Room' <= Cardinality(EleBlocks(Known'))
    BY <1>6, <1>5, <1>16, <2>1, <2>2, Bits DEF Numbers
  <2> QED
    BY <2>3, <2>4, <2>5 DEF Numbers, EleBlocks
<1>18. Whole' => Sizes(k, m)'
  <2>1. /\ Whole => Sizes(k, m)
        /\ k \in Nat /\ m \in Nat
    BY <1>2, Starts DEF Shape
  <2>2. qcnt \in Int /\ size \in Nat
    BY <1>3, Numeric
  <2>3. Whole' => Whole
    BY <1>6 DEF Whole
  <2>4. Sizes(k, m) => size' + Late' = k + m + Turning' + Early'
    BY <1>6, <1>5, <2>1, <2>2, Bits DEF Sizes
  <2>5. Sizes(k, m) => (cmd' # "new" => qcnt' + More' = size' + Fewer')
    BY <1>6, <1>5, <2>1, <2>2, Bits DEF Sizes
  <2> QED
    BY <2>1, <2>3, <2>4, <2>5 DEF Sizes
<1>19. Whole' => Tails(k, L, m, M)'
  <2>1. (Whole' => Whole /\ Tails(k, L, m, M) /\ Sizes(k, m)) /\ k \in Nat /\ m \in Nat
    BY <1>2, <1>6, Starts DEF Shape, Whole
  <2>2. Rest = NULL /\ m = 0
    BY <1>2, <1>4, Starts DEF Rest, Taking
  <2>3. Turning = 0 /\ Early = 0 /\ Late = 0
    BY <1>4 DEF Turning, Early, Late, One
  <2>4. Sizes(k, m) => (k # 0 => k > 0) /\ (size = 0 <=> k = 0)
    BY <1>3, <2>1, <2>2, <2>3, Numeric DEF Sizes
  <2>5. Tails(k, L, m, M) => tail = IF k = 0 THEN NULL ELSE L[k]
    BY <1>4 DEF Tails
  <2>6. /\ pc' = IF cmd = "ih" THEN "link head"
                 ELSE IF size = 0 THEN "first tail" ELSE "link tail"
        /\ tail' = tail
    BY <1>1
  <2> QED
    BY <1>4, <1>6, <2>1, <2>4, <2>5, <2>6 DEF Tails, Linked, Grown
<1>20. Whole' => Says(k, L, m, M)'
  <2>1. Whole' => Whole /\ Says(k, L, m, M)
    BY <1>2, <1>6 DEF Shape, Whole
  <2>2. Says(k, L, m, M) => held = [j \in 1 .. k |-> value[L[j]]]
    BY <1>4 DEF Says, Linked, Grown, Unlinked, Shrunk, Removed
  <2>3. [j \in 1 .. k |-> value[L[j]]] = [j \in 1 .. k |-> value'[L[j]]]
    BY <1>8
  <2>4. value'[ele'] = str'
    BY <1>1, <1>3, <1>7 DEF TypeOK
  <2> HIDE DEF Store
  <2> QED
    BY <1>4, <1>6, <2>1, <2>2, <2>3, <2>4 DEF Says, Linked, Grown, Unlinked, Shrunk, Removed
<1>21. /\ pc' \in EleInHand => ele' \in Elements \ S
       /\ \A i \in 1 .. k, j \in 1 .. m : L[i] # M[j]
  BY <1>1, <1>2, <1>4 DEF Shape
<1> HIDE DEF Store
<1>22. Shape(k, L, m, M)'
  BY <1>14, <1>15, <1>17, <1>18, <1>19, <1>20, <1>21 DEF Shape
<1> QED
  BY <1>1, <1>12, <1>13, <1>22, SameCounts DEF IInv

LEMMA FreeEleStep == IInv /\ FreeEle /\ InCall => IInv'
<1> USE DEF FreeEle, Gives
<1>1. SUFFICES ASSUME IInv, FreeEle, InCall, Gives(<<"ele", ele>>) PROVE IInv'
  BY IsGiven
<1>2. PICK k, L, m, M : Shape(k, L, m, M)
  BY <1>1 DEF IInv
<1> DEFINE S == Members(k, L) \cup Members(m, M)
<1>3. TypeOK /\ Control
  BY <1>1 DEF IInv
<1>4. pc = "free ele" /\ pc' \in {"cancel", "free next"} /\ cmd \in {"free", "renew", "quit", "rh"} /\ q # NULL /\ IF cmd = "rh" THEN pc' = "cancel" /\ rval' ELSE pc' = "free next"
  BY <1>1, <1>2, <1>3 DEF Control, Result, Shape
<1>5. /\ UNCHANGED <<Turning, Out, In, Ahead, Late, Early, More, Fewer>>
      /\ Room' <= Room
  <2>1. CASE cmd = "rh"
    <3>1. Room = 1 /\ Room' = 0
      BY <1>1, <1>4, <2>1 DEF Room, One, Shrunk, Removed
    <3>2. UNCHANGED <<Turning, Out, In, Ahead, Late, Early, More, Fewer>>
      BY <1>1, <1>4, <2>1 DEF Turning, Out, In, Ahead, Late, Early, More, Fewer,
         One, Unlinked, Shrunk, Removed, Linked, Grown
    <3> QED
      BY <3>1, <3>2
  <2>2. CASE cmd # "rh"
    <3>1. Room = 0 /\ Room' = 0
      BY <1>1, <1>4, <2>2 DEF Room, One, Shrunk, Removed
    <3>2. UNCHANGED <<Turning, Out, In, Ahead, Late, Early, More, Fewer>>
      BY <1>1, <1>4, <2>2 DEF Turning, Out, In, Ahead, Late, Early, More, Fewer,
         One, Unlinked, Shrunk, Removed, Linked, Grown
    <3> QED
      BY <3>1, <3>2
  <2> QED
    BY <2>1, <2>2
<1>6. /\ (Live' <=> Live) /\ ((Taking \/ Cleared)' <=> (Taking \/ Cleared))
      /\ size' = size /\ UNCHANGED <<qcnt, alarms, held, cmd>>
  BY <1>1, <1>4 DEF Live, HasQueue, Taking, Cleared
<1>7. ele \in Elements \ S
  BY <1>2, <1>4 DEF Shape
<1>8. \A i \in 1 .. k : value'[L[i]] = value[L[i]] /\ L[i] # ele
  <2>1. \A i \in 1 .. k : L[i] \in S /\ L[i] \in Elements
    BY <1>2, Starts
  <2> QED
    BY <1>1, <1>3, <1>7, <2>1 DEF TypeOK
<1>9. Known' \subseteq Blocks
  <2>1. <<"ele", ele>> \in Blocks /\ Known \subseteq Blocks
    BY <1>3, <1>7 DEF TypeOK, Blocks
  <2> QED
    BY <1>1, <2>1
<1>10. TypeOK'
  BY <1>1, <1>3, <1>4, <1>7, Signs, <1>9 DEF TypeOK, Labels
<1>11. Live \/ ~(Taking \/ Cleared) => Behind = 0 /\ Behind' = 1 /\ Room = 1 /\ Room' = 0
  BY <1>1, <1>4 DEF Live, Taking, Behind, Room, One, Shrunk, Removed
<1>12. Control'
  BY <1>1, <1>3, <1>4, Signs DEF Control, Result
<1>13. Chain(next, Front, k, L)' /\ Chain(next, Rest, m, M)'
  <2>1. Front' = Front /\ Rest' = Rest
    BY <1>1, <1>4 DEF Front, Rest, Live, HasQueue, Taking, Cleared
  <2>2. next \in Link
    BY <1>3 DEF TypeOK, Link
  <2>3. Chain(next, Front, k, L) /\ Chain(next, Rest, m, M)
    BY <1>2 DEF Shape
  <2>4. PICK x : next' = [next EXCEPT ![ele] = x]
    BY <1>1
  <2> QED
    BY <1>7, <2>1, <2>2, <2>3, <2>4, ChainFrame
<1>14. Books(S)'
  <2>1. <<"ele", ele>> \in Owned(S) /\ <<"ele", ele>> \in Pending /\ (HasQueue' <=> HasQueue)
    BY <1>1, <1>4 DEF Owned, Pending, HasQueue, Cleared
  <2>2. Pending' = Pending \ {<<"ele", ele>>}
    <3>1. Pending = {<<"ele", ele>>} /\ Pending' = {}
      BY <1>1, <1>4 DEF Pending
    <3> QED
      BY <3>1
  <2>3. <<"ele", ele>> \notin {"ele", "value"} \X S /\ <<"ele", ele>> # <<"queue", q>>
    BY <1>7
  <2>4. Owned(S)' = Owned(S) \ {<<"ele", ele>>}
    BY <1>1, <2>1, <2>2, <2>3 DEF Owned
  <2>5. Books(S)
    BY <1>2 DEF Shape
  <2> QED
    BY <1>1, <1>3, <2>1, <2>4, <2>5, BooksFree
<1>15. Cardinality(EleBlocks(Known')) = Cardinality(EleBlocks(Known)) - 1
  <2>1. <<"ele", ele>> \in Known
    BY <1>2, <1>4 DEF Shape, Books, Sound, Owned, Pending
  <2> QED
    BY <1>1, <1>3, <1>7, <2>1, EleFree DEF TypeOK
<1>16. Numbers(k, m)'
  <2>1. Numbers(k, m) /\ k \in Nat /\ m \in Nat
    BY <1>2, Starts DEF Shape
  <2>2. /\ qcnt \in Int /\ size \in Nat /\ alarms \in Nat
        /\ Cardinality(EleBlocks(Known)) \in Nat
    BY <1>3, Numeric
  <2>3. k + m + Turning' + Out' <= qcnt' + In' + alarms'
    BY <1>6, <1>5, <2>1, <2>2, Bits DEF Numbers
  <2>4. ~(Taking \/ Cleared)'
           => qcnt' + Ahead' <= Cardinality(EleBlocks(Known')) + alarms' + Behind'
    BY <1>6, <1>5, <1>11, <1>15, <2>1, <2>2, Bits DEF Numbers
  <2>5. Live' => size' + Room' <= Cardinality(EleBlocks(Known'))
    BY <1>6, <1>5, <1>11, <1>15, <2>1, <2>2, Bits DEF Numbers
  <2> QED
    BY <2>3, <2>4, <2>5 DEF Numbers, EleBlocks
<1>17. Whole' => Sizes(k, m)'
  <2>1. /\ Whole => Sizes(k, m)
        /\ k \in Nat /\ m \in Nat
    BY <1>2, Starts DEF Shape
  <2>2. qcnt \in Int /\ size \in Nat
    BY <1>3, Numeric
  <2>3. Whole' => Whole
    BY <1>6 DEF Whole
  <2>4. Sizes(k, m) => size' + Late' = k + m + Turning' + Early'
    BY <1>6, <1>5, <2>1, <2>2, Bits DEF Sizes
  <2>5. Sizes(k, m) => (cmd' # "new" => qcnt' + More' = size' + Fewer')
    BY <1>6, <1>5, <2>1, <2>2, Bits DEF Sizes
  <2> QED
    BY <2>1, <2>3, <2>4, <2>5 DEF Sizes
<1>18. Whole' => Tails(k, L, m, M)'
  BY <1>1, <1>2, <1>3, <1>4, <1>6, Starts DEF Shape, Whole, Tails, Linked, Grown
<1>19. Whole' => Says(k, L, m, M)'
  <2>1. Whole' => Whole /\ Says(k, L, m, M) /\ cmd = "rh"
    BY <1>2, <1>4, <1>6 DEF Shape, Whole, Live, Taking
  <2>2. Says(k, L, m, M) /\ cmd = "rh"
           => held = [j \in 1 .. k + 1 |-> IF j = 1 THEN held[1] ELSE value[L[j - 1]]]
    BY <1>4 DEF Says, Linked, Grown, Unlinked, Shrunk, Removed
  <2>3. [j \in 1 .. k + 1 |-> IF j = 1 THEN held[1] ELSE value[L[j - 1]]]
           = [j \in 1 .. k + 1 |-> IF j = 1 THEN held[1] ELSE value'[L[j - 1]]]
    <3>1. k \in Nat
      BY <1>2, Starts
    <3>2. \A j \in 1 .. k + 1 : j # 1 => j - 1 \in 1 .. k
      BY <3>1
    <3> QED
      BY <1>8, <3>2
  <2> HIDE DEF FreeEle, Gives
  <2> QED
    BY <1>4, <1>6, <2>1, <2>2, <2>3 DEF Says, Linked, Grown, Unlinked, Shrunk, Removed
<1>20. /\ pc' \in EleInHand => ele' \in Elements \ S
       /\ \A i \in 1 .. k, j \in 1 .. m : L[i] # M[j]
  BY <1>1, <1>2, <1>4 DEF Shape
<1> HIDE DEF FreeEle, Gives
<1>21. Shape(k, L, m, M)'
  BY <1>13, <1>14, <1>16, <1>17, <1>18, <1>19, <1>20 DEF Shape
<1> QED
  BY <1>1, <1>10, <1>12, <1>21, SameCounts DEF IInv

LEMMA HarnessCallStep == IInv /\ HarnessCall /\ InCall => IInv'
<1> USE DEF HarnessCall
<1>1. SUFFICES ASSUME IInv, HarnessCall, InCall PROVE IInv'
  OBVIOUS
<1>2. PICK k, L, m, M : Shape(k, L, m, M)
  BY <1>1 DEF IInv
<1> DEFINE S == Members(k, L) \cup Members(m, M)
<1>3. TypeOK /\ Control
  BY <1>1 DEF IInv
<1>4. /\ UNCHANGED <<next, value, q, head, tail, size, pc, cmd, str, ele, ptr,
                  qcnt, fail_count, err_cnt, reps, alarms, held>>
  BY <1>1
<1>5. {rval', error_occurred', ok'} = {rval, error_occurred, ok}
  BY <1>1
<1>6. rval' <=> rval
  BY <1>1
<1>7. Counted
  BY <1>1, <1>3, HarnessGoesOn, Numeric
<1>8. /\ allocated_count' + counting' = allocated_count + counting
      /\ counting' # 0 => UNCHANGED <<counting, blk, allocated_count>>
  <2>1. allocated_count \in Int /\ counting \in Int
    BY <1>3, Numeric
  <2> QED
    BY <1>7, <2>1 DEF Counted
<1>9. counting' = 0 => Sound(Owned(S), Known, allocated_count', alarms)
  <2>1. Sound(Owned(S), Known, allocated_count + counting, alarms)
    BY <1>2 DEF Shape, Books
  <2>2. counting' = 0 => allocated_count' = allocated_count + counting
    <3>1. allocated_count \in Int /\ counting \in Int
      BY <1>3, Numeric
    <3> QED
      BY <1>7, <3>1 DEF Counted
  <2> QED
    BY <2>1, <2>2
<1>10. allocated_count' \in 0 .. Cardinality(Blocks) + MaxAlarms
  <2> SUFFICES ASSUME counting' = 0 PROVE allocated_count' \in 0 .. Cardinality(Blocks) + MaxAlarms
    BY <1>3, <1>8 DEF TypeOK
  <2>1. /\ Owned(S) \in SUBSET Blocks /\ Known \in SUBSET Blocks
        /\ Cardinality(Owned(S)) <= allocated_count'
        /\ allocated_count' <= Cardinality(Known) + alarms
    BY <1>3, <1>9, KnownType DEF Sound, TypeOK
  <2>2. /\ Cardinality(Owned(S)) \in Nat
        /\ Cardinality(Known) \in Nat /\ Cardinality(Known) <= Cardinality(Blocks)
        /\ Cardinality(Blocks) \in Nat
    <3> HIDE DEF S
    <3> QED
      BY <2>1, BlocksFinite
  <2>3. alarms \in 0 .. MaxAlarms /\ MaxAlarms \in Nat
    BY <1>3, QTestAssumption DEF Control
  <2>4. allocated_count' \in Int
    <3>1. allocated_count \in Int /\ counting \in Int
      BY <1>3, Numeric
    <3> QED
      BY <1>7, <3>1 DEF Counted
  <2> QED
    BY <2>1, <2>2, <2>3, <2>4
<1> HIDE DEF HarnessCall, InCall
<1>11. TypeOK'
  <2>1. HarnessTypeOK' /\ cautious_mode' = cautious_mode
    BY <1>1, <1>7 DEF InCall, Counted
  <2> QED
    BY <1>3, <1>4, <1>5, <1>10, <2>1 DEF TypeOK
<1>12. Control'
  <2>1. Result'
    BY <1>3, <1>4, <1>6 DEF Control, Result
  <2>2. Control /\ UNCHANGED <<next, value, q, head, tail, size, pc, cmd, str, ele, ptr,
                             alarms, held>>
           /\ UNCHANGED <<counting, blk>> /\ Result' => Control'
    BY DEF Control
  <2>3. Control /\ UNCHANGED <<next, value, q, head, tail, size, pc, cmd, str, ele, ptr,
                             alarms, held>>
           /\ counting' # 1 /\ counting' # -1 /\ Result' => Control'
    BY DEF Control
  <2> QED
    BY <1>3, <1>4, <1>8, <2>1, <2>2, <2>3, Signs
<1>13. Books(S)'
  <2>1. Owned(S)' = Owned(S)
    BY <1>4 DEF Owned, Pending, HasQueue, Cleared
  <2>2. Sound(Owned(S), Known, allocated_count + counting, alarms)
    BY <1>2 DEF Shape, Books
  <2>3. counting = -1 => Known # Blocks
    BY <1>2 DEF Shape, Books
  <2> QED
    BY <1>4, <1>7, <1>8, <2>1, <2>2, <2>3, Signs DEF Books, Counted
<1>14. /\ Numbers(k, m)' /\ (Whole' => Sizes(k, m)' /\ Tails(k, L, m, M)' /\ Says(k, L, m, M)')
       /\ Chain(next, Front, k, L)' /\ Chain(next, Rest, m, M)'
       /\ pc' \in EleInHand => ele' \in Elements \ S
  <2>1. /\ Numbers(k, m) /\ (Whole => Sizes(k, m) /\ Tails(k, L, m, M) /\ Says(k, L, m, M))
        /\ Chain(next, Front, k, L) /\ Chain(next, Rest, m, M)
        /\ pc \in EleInHand => ele \in Elements \ S
    BY <1>2 DEF Shape
  <2>2. /\ (Live' <=> Live) /\ (Whole' <=> Whole) /\ (Taking' <=> Taking) /\ (Cleared' <=> Cleared)
        /\ Front' = Front /\ Rest' = Rest
    BY <1>4 DEF Whole, Live, HasQueue, Taking, Cleared, Front, Rest
  <2>3. UNCHANGED <<Turning, Out, In, Ahead, Behind, Room, Late, Early, More, Fewer>>
    BY <1>4, <1>6 DEF Turning, Out, In, Ahead, Behind, Room, Late, Early, More, Fewer,
       One, Unlinked, Shrunk, Removed, Linked, Grown
  <2>4. Numbers(k, m)' /\ (Sizes(k, m)' <=> Sizes(k, m))
    BY <1>4, <1>7, <2>1, <2>2, <2>3 DEF Numbers, Sizes, Counted, EleBlocks
  <2>5. Tails(k, L, m, M) => Tails(k, L, m, M)'
    <3>1. Linked' <=> Linked
      BY <1>4, <1>6 DEF Linked, Grown
    <3>2. UNCHANGED <<next, value, pc, cmd, tail, head, ele, ptr>> /\ (Linked' <=> Linked)
             /\ Tails(k, L, m, M) => Tails(k, L, m, M)'
      BY DEF Tails
    <3> QED
      BY <1>4, <3>1, <3>2
  <2>6. Says(k, L, m, M)' <=> Says(k, L, m, M)
    BY <1>4, <1>6 DEF Says, Linked, Grown, Unlinked, Shrunk, Removed
  <2> HIDE DEF EleInHand, S
  <2> QED
    BY <1>4, <2>1, <2>2, <2>4, <2>5, <2>6
<1>15. Shape(k, L, m, M)'
  BY <1>2, <1>13, <1>14 DEF Shape
<1> QED
  BY <1>1, <1>11, <1>12, <1>15, SameCounts DEF IInv

LEMMA LinkHeadStep == IInv /\ LinkHead /\ InCall => IInv'
<1> USE DEF LinkHead, SetHead
<1>1. SUFFICES ASSUME IInv, LinkHead, InCall PROVE IInv'
  OBVIOUS
<1>2. PICK k, L, m, M : Shape(k, L, m, M)
  BY <1>1 DEF IInv
<1> DEFINE S == Members(k, L) \cup Members(m, M)
<1>3. TypeOK /\ Control
  BY <1>1 DEF IInv
<1>4. pc = "link head" /\ pc' = "grow" /\ cmd = "ih" /\ q # NULL
  BY <1>1, <1>2, <1>3 DEF Control, Result, Shape
<1>5. /\ UNCHANGED <<Turning, Out, Ahead, Behind, Room, Early, More, Fewer>>
      /\ In = 0 /\ In' = 1 /\ Late = 0 /\ Late' = 1
  BY <1>1, <1>4 DEF Turning, Out, In, Ahead, Behind, Room, Late, Early, More, Fewer,
     One, Unlinked, Shrunk, Removed, Linked, Grown
<1>6. /\ (Live' <=> Live) /\ ((Taking \/ Cleared)' <=> (Taking \/ Cleared))
      /\ size' = size /\ UNCHANGED <<qcnt, alarms, held, cmd>>
  BY <1>1, <1>4 DEF Live, HasQueue, Taking, Cleared
<1>7. ele \in Elements \ S
  BY <1>2, <1>4 DEF Shape
<1>8. PICK k2, L2 : k2 = k + 1 /\ L2 = Pushed(ele, k, L)
  OBVIOUS
<1>9. /\ Chain(next, ele, k2, L2) /\ Members(k2, L2) = Members(k, L) \cup {ele}
      /\ Front' = ele /\ Rest' = Rest
  <2>1. Front = head /\ Front' = ele /\ Rest' = Rest
    BY <1>1, <1>4 DEF Front, Rest, Live, HasQueue, Taking, Cleared
  <2>2. next[ele] = head
    BY <1>3, <1>4 DEF Control
  <2>3. Chain(next, head, k, L) /\ ele \notin Members(k, L) /\ ele \in Elements
    BY <1>2, <1>7, <2>1 DEF Shape
  <2> QED
    BY <1>8, <2>1, <2>2, <2>3, ChainPush
<1>10. /\ k \in Nat /\ k2 \in Nat /\ k2 > 0 /\ k2 # 0 /\ (k2 = 1 <=> k = 0)
       /\ L2[1] = ele /\ \A i \in 1 .. k : L2[i + 1] = L[i]
       /\ k # 0 => L2[k2] = L[k]
  <2>1. k \in Nat
    BY <1>2, Starts
  <2>2. L2[1] = ele /\ \A i \in 1 .. k : L2[i + 1] = L[i]
    BY <1>8, <2>1 DEF Pushed
  <2>3. k # 0 => k \in 1 .. k
    BY <2>1
  <2> QED
    BY <1>8, <2>1, <2>2, <2>3
<1>11. TypeOK'
  BY <1>1, <1>3, <1>4, <1>7 DEF TypeOK, Labels
<1>12. Control'
  BY <1>1, <1>3, <1>4, <1>7 DEF Control, Result
<1>13. Chain(next, Front, k2, L2)' /\ Chain(next, Rest, m, M)'
  BY <1>1, <1>2, <1>9 DEF Shape
<1>14. Books(Members(k2, L2) \cup Members(m, M))'
  <2>1. Owned(Members(k2, L2) \cup Members(m, M))' = Owned(S)
    <3>1. Owned(Members(k2, L2) \cup Members(m, M))' = Pending' \cup ({"ele", "value"} \X (S \cup {ele}))
                                  \cup (IF HasQueue THEN {<<"queue", q>>} ELSE {})
      BY <1>1, <1>4, <1>9 DEF Owned, HasQueue, Cleared
    <3>2. Pending' \cup ({"ele", "value"} \X (S \cup {ele}))
             = Pending \cup ({"ele", "value"} \X S)
      <4>1. Pending = {<<"ele", ele>>, <<"value", ele>>} /\ Pending' = {}
        BY <1>1, <1>4 DEF Pending
      <4> QED
        BY <4>1
    <3> QED
      BY <3>1, <3>2 DEF Owned
  <2> QED
    BY <1>1, <1>2, <2>1 DEF Shape, Books
<1>15. EleBlocks(Known') = EleBlocks(Known)
  BY <1>1
<1>16. Numbers(k2, m)'
  <2>1. Numbers(k, m) /\ k \in Nat /\ m \in Nat
    BY <1>2, Starts DEF Shape
  <2>2. /\ qcnt \in Int /\ size \in Nat /\ alarms \in Nat
        /\ Cardinality(EleBlocks(Known)) \in Nat
    BY <1>3, Numeric
  <2>3. k2 + m + Turning' + Out' <= qcnt' + In' + alarms'
    BY <1>6, <1>5, <1>8, <2>1, <2>2, Bits DEF Numbers
  <2>4. ~(Taking \/ Cleared)'
           => qcnt' + Ahead' <= Cardinality(EleBlocks(Known')) + alarms' + Behind'
    BY <1>6, <1>5, <1>15, <2>1, <2>2, Bits DEF Numbers
  <2>5. Live' => size' + Room' <= Cardinality(EleBlocks(Known'))
    BY <1>6, <1>5, <1>15, <2>1, <2>2, Bits DEF Numbers
  <2> QED
    BY <2>3, <2>4, <2>5 DEF Numbers, EleBlocks
<1>17. Whole' => Sizes(k2, m)'
  <2>1. /\ Whole => Sizes(k, m)
        /\ k \in Nat /\ m \in Nat
    BY <1>2, Starts DEF Shape
  <2>2. qcnt \in Int /\ size \in Nat
    BY <1>3, Numeric
  <2>3. Whole' => Whole
    BY <1>6 DEF Whole
  <2>4. Sizes(k, m) => size' + Late' = k2 + m + Turning' + Early'
    BY <1>6, <1>5, <1>8, <2>1, <2>2, Bits DEF Sizes
  <2>5. Sizes(k, m) => (cmd' # "new" => qcnt' + More' = size' + Fewer')
    BY <1>6, <1>5, <2>1, <2>2, Bits DEF Sizes
  <2> QED
    BY <2>1, <2>3, <2>4, <2>5 DEF Sizes
<1>18. Whole' => Tails(k2, L2, m, M)'
  <2>1. (Whole' => Whole /\ Tails(k, L, m, M))
    BY <1>2, <1>6 DEF Shape, Whole
  <2>2. Tails(k, L, m, M) => tail = IF k = 0 THEN NULL ELSE L[k]
    BY <1>4 DEF Tails
  <2>3. tail' = tail
    BY <1>1
  <2>4. Whole' => tail' = IF k2 = 1 THEN NULL ELSE L2[k2]
    BY <1>10, <2>1, <2>2, <2>3
  <2> QED
    BY <1>4, <1>6, <1>10, <2>4 DEF Tails, Linked, Grown
<1>19. Whole' => Says(k2, L2, m, M)'
  <2>1. Whole' => Whole /\ Says(k, L, m, M)
    BY <1>2, <1>6 DEF Shape, Whole
  <2>2. Says(k, L, m, M) => held = [j \in 1 .. k |-> value[L[j]]] /\ value[ele] = str
    BY <1>4 DEF Says, Linked, Grown, Unlinked, Shrunk, Removed
  <2>3. [j \in 1 .. k |-> value[L[j]]] = [j \in 1 .. k2 - 1 |-> value[L2[j + 1]]]
    <3>1. k2 - 1 = k
      BY <1>8, <1>10
    <3> QED
      BY <1>10, <3>1
  <2>4. value' = value /\ str' = str
    BY <1>1
  <2> HIDE DEF LinkHead, SetHead
  <2> QED
    BY <1>4, <1>6, <1>10, <2>1, <2>2, <2>3, <2>4 DEF Says, Linked
<1>20. /\ pc' \in EleInHand => ele' \in Elements \ (Members(k2, L2) \cup Members(m, M))
       /\ \A i \in 1 .. k2, j \in 1 .. m : L2[i] # M[j]
  <2>1. \A i \in 1 .. k2 : L2[i] = ele \/ \E n \in 1 .. k : L2[i] = L[n]
    <3>1. \A i \in 1 .. k2 : L2[i] \in Members(k2, L2)
      BY DEF Members
    <3>2. \A e \in Members(k, L) : \E n \in 1 .. k : e = L[n]
      BY DEF Members
    <3> QED
      BY <1>9, <3>1, <3>2
  <2>2. \A j \in 1 .. m : M[j] # ele
    BY <1>7, <1>2, Starts
  <2>3. \A i \in 1 .. k, j \in 1 .. m : L[i] # M[j]
    BY <1>2 DEF Shape
  <2>4. pc' \notin EleInHand
    BY <1>4
  <2> QED
    BY <2>1, <2>2, <2>3, <2>4
<1>21. Shape(k2, L2, m, M)'
  BY <1>13, <1>14, <1>16, <1>17, <1>18, <1>19, <1>20 DEF Shape
<1> QED
  BY <1>1, <1>11, <1>12, <1>21, SameCounts DEF IInv

LEMMA TurnedStep == IInv /\ Turned /\ InCall => IInv'
<1> USE DEF Turned, SetHead
<1>1. SUFFICES ASSUME IInv, Turned, InCall PROVE IInv'
  OBVIOUS
<1>2. PICK k, L, m, M : Shape(k, L, m, M)
  BY <1>1 DEF IInv
<1> DEFINE S == Members(k, L) \cup Members(m, M)
<1>3. TypeOK /\ Control
  BY <1>1 DEF IInv
<1>4. pc = "turned" /\ pc' = "turn" /\ cmd = "reverse" /\ q # NULL
  BY <1>1, <1>2, <1>3 DEF Control, Result, Shape
<1>5. /\ UNCHANGED <<Out, In, Ahead, Behind, Room, Late, Early, More, Fewer>>
      /\ Turning = 1 /\ Turning' = 0
  BY <1>1, <1>4 DEF Turning, Out, In, Ahead, Behind, Room, Late, Early, More, Fewer,
     One, Unlinked, Shrunk, Removed, Linked, Grown
<1>6. /\ (Live' <=> Live) /\ ((Taking \/ Cleared)' <=> (Taking \/ Cleared))
      /\ size' = size /\ UNCHANGED <<qcnt, alarms, held, cmd>>
  BY <1>1, <1>4 DEF Live, HasQueue, Taking, Cleared
<1>7. ele \in Elements \ S
  BY <1>2, <1>4 DEF Shape
<1>8. PICK k2, L2 : k2 = k + 1 /\ L2 = Pushed(ele, k, L)
  OBVIOUS
<1>9. /\ Chain(next, ele, k2, L2) /\ Members(k2, L2) = Members(k, L) \cup {ele}
      /\ Front' = ele /\ Rest' = Rest
  <2>1. Front = head /\ Front' = ele /\ Rest' = Rest
    BY <1>1, <1>4 DEF Front, Rest, Live, HasQueue, Taking, Cleared
  <2>2. next[ele] = head
    BY <1>3, <1>4 DEF Control
  <2>3. Chain(next, head, k, L) /\ ele \notin Members(k, L) /\ ele \in Elements
    BY <1>2, <1>7, <2>1 DEF Shape
  <2> QED
    BY <1>8, <2>1, <2>2, <2>3, ChainPush
<1>10. /\ k \in Nat /\ k2 \in Nat /\ k2 > 0 /\ k2 # 0 /\ (k2 = 1 <=> k = 0)
       /\ L2[1] = ele /\ \A i \in 1 .. k : L2[i + 1] = L[i]
       /\ k # 0 => L2[k2] = L[k]
  <2>1. k \in Nat
    BY <1>2, Starts
  <2>2. L2[1] = ele /\ \A i \in 1 .. k : L2[i + 1] = L[i]
    BY <1>8, <2>1 DEF Pushed
  <2>3. k # 0 => k \in 1 .. k
    BY <2>1
  <2> QED
    BY <1>8, <2>1, <2>2, <2>3
<1>11. TypeOK'
  BY <1>1, <1>3, <1>4, <1>7 DEF TypeOK, Labels
<1>12. Control'
  BY <1>1, <1>3, <1>4, <1>7 DEF Control, Result
<1>13. Chain(next, Front, k2, L2)' /\ Chain(next, Rest, m, M)'
  BY <1>1, <1>2, <1>9 DEF Shape
<1>14. Books(Members(k2, L2) \cup Members(m, M))'
  <2>1. Owned(Members(k2, L2) \cup Members(m, M))' = Owned(S)
    <3>1. Owned(Members(k2, L2) \cup Members(m, M))' = Pending' \cup ({"ele", "value"} \X (S \cup {ele}))
                                  \cup (IF HasQueue THEN {<<"queue", q>>} ELSE {})
      BY <1>1, <1>4, <1>9 DEF Owned, HasQueue, Cleared
    <3>2. Pending' \cup ({"ele", "value"} \X (S \cup {ele}))
             = Pending \cup ({"ele", "value"} \X S)
      <4>1. Pending = {<<"ele", ele>>, <<"value", ele>>} /\ Pending' = {}
        BY <1>1, <1>4 DEF Pending
      <4> QED
        BY <4>1
    <3> QED
      BY <3>1, <3>2 DEF Owned
  <2> QED
    BY <1>1, <1>2, <2>1 DEF Shape, Books
<1>15. EleBlocks(Known') = EleBlocks(Known)
  BY <1>1
<1>16. Numbers(k2, m)'
  <2>1. Numbers(k, m) /\ k \in Nat /\ m \in Nat
    BY <1>2, Starts DEF Shape
  <2>2. /\ qcnt \in Int /\ size \in Nat /\ alarms \in Nat
        /\ Cardinality(EleBlocks(Known)) \in Nat
    BY <1>3, Numeric
  <2>3. k2 + m + Turning' + Out' <= qcnt' + In' + alarms'
    BY <1>6, <1>5, <1>8, <2>1, <2>2, Bits DEF Numbers
  <2>4. ~(Taking \/ Cleared)'
           => qcnt' + Ahead' <= Cardinality(EleBlocks(Known')) + alarms' + Behind'
    BY <1>6, <1>5, <1>15, <2>1, <2>2, Bits DEF Numbers
  <2>5. Live' => size' + Room' <= Cardinality(EleBlocks(Known'))
    BY <1>6, <1>5, <1>15, <2>1, <2>2, Bits DEF Numbers
  <2> QED
    BY <2>3, <2>4, <2>5 DEF Numbers, EleBlocks
<1>17. Whole' => Sizes(k2, m)'
  <2>1. /\ Whole => Sizes(k, m)
        /\ k \in Nat /\ m \in Nat
    BY <1>2, Starts DEF Shape
  <2>2. qcnt \in Int /\ size \in Nat
    BY <1>3, Numeric
  <2>3. Whole' => Whole
    BY <1>6 DEF Whole
  <2>4. Sizes(k, m) => size' + Late' = k2 + m + Turning' + Early'
    BY <1>6, <1>5, <1>8, <2>1, <2>2, Bits DEF Sizes
  <2>5. Sizes(k, m) => (cmd' # "new" => qcnt' + More' = size' + Fewer')
    BY <1>6, <1>5, <2>1, <2>2, Bits DEF Sizes
  <2> QED
    BY <2>1, <2>3, <2>4, <2>5 DEF Sizes
<1>18. Whole' => Tails(k2, L2, m, M)'
  <2>1. (Whole' => Whole /\ Tails(k, L, m, M))
    BY <1>2, <1>6 DEF Shape, Whole
  <2>2. Tails(k, L, m, M) => tail = IF k > 0 THEN L[k] ELSE ele
    BY <1>4 DEF Tails
  <2>3. tail' = tail
    BY <1>1
  <2>4. Tails(k, L, m, M) => tail' = L2[k2]
    <3>1. CASE k = 0
      BY <1>10, <1>8, <2>2, <2>3, <3>1
    <3>2. CASE k # 0
      BY <1>10, <2>2, <2>3, <3>2
    <3> QED
      BY <3>1, <3>2
  <2> QED
    BY <1>4, <1>6, <1>10, <2>1, <2>4 DEF Tails, Linked, Grown
<1>19. Whole' => Says(k2, L2, m, M)'
  <2>1. Whole' => Whole /\ Says(k, L, m, M)
    BY <1>2, <1>6 DEF Shape, Whole
  <2>2. Says(k, L, m, M)
           => held = [j \in 1 .. k + 1 + m |-> value[IF j <= k THEN L[k + 1 - j]
                                                      ELSE IF j = k + 1 THEN ele
                                                      ELSE M[j - k - 1]]]
    BY <1>4 DEF Says, Linked, Grown, Unlinked, Shrunk, Removed
  <2>3. [j \in 1 .. k + 1 + m |-> value[IF j <= k THEN L[k + 1 - j]
                                         ELSE IF j = k + 1 THEN ele
                                         ELSE M[j - k - 1]]]
           = [j \in 1 .. k2 + m |-> value[IF j <= k2 THEN L2[k2 + 1 - j] ELSE M[j - k2]]]
    <3>1. m \in Nat /\ k2 + m = k + 1 + m
      BY <1>2, <1>8, <1>10, Starts
    <3>2. ASSUME NEW j \in 1 .. k2 + m
          PROVE  (IF j <= k THEN L[k + 1 - j] ELSE IF j = k + 1 THEN ele ELSE M[j - k - 1])
                    = IF j <= k2 THEN L2[k2 + 1 - j] ELSE M[j - k2]
      <4>1. CASE j <= k
        <5>1. k + 1 - j \in 1 .. k /\ k2 + 1 - j = k + 1 - j + 1 /\ j <= k2
          BY <1>8, <1>10, <3>1, <4>1
        <5> QED
          BY <1>10, <4>1, <5>1
      <4>2. CASE j = k + 1
        <5>1. ~(j <= k) /\ j <= k2 /\ k2 + 1 - j = 1
          BY <1>8, <1>10, <3>1, <4>2
        <5> QED
          BY <1>10, <4>2, <5>1
      <4>3. CASE j > k + 1
        <5>1. ~(j <= k) /\ ~(j <= k2) /\ j # k + 1 /\ j - k2 = j - k - 1
          BY <1>8, <1>10, <3>1, <4>3
        <5> QED
          BY <5>1
      <4> QED
        BY <1>10, <3>1, <4>1, <4>2, <4>3
    <3> QED
      BY <3>1, <3>2
  <2>4. value' = value
    BY <1>1
  <2> HIDE DEF Turned, SetHead
  <2> QED
    BY <1>4, <1>6, <2>1, <2>2, <2>3, <2>4 DEF Says, Linked, Grown, Unlinked, Shrunk, Removed
<1>20. /\ pc' \in EleInHand => ele' \in Elements \ (Members(k2, L2) \cup Members(m, M))
       /\ \A i \in 1 .. k2, j \in 1 .. m : L2[i] # M[j]
  <2>1. \A i \in 1 .. k2 : L2[i] = ele \/ \E n \in 1 .. k : L2[i] = L[n]
    <3>1. \A i \in 1 .. k2 : L2[i] \in Members(k2, L2)
      BY DEF Members
    <3>2. \A e \in Members(k, L) : \E n \in 1 .. k : e = L[n]
      BY DEF Members
    <3> QED
      BY <1>9, <3>1, <3>2
  <2>2. \A j \in 1 .. m : M[j] # ele
    BY <1>7, <1>2, Starts
  <2>3. \A i \in 1 .. k, j \in 1 .. m : L[i] # M[j]
    BY <1>2 DEF Shape
  <2>4. pc' \notin EleInHand
    BY <1>4
  <2> QED
    BY <2>1, <2>2, <2>3, <2>4
<1>21. Shape(k2, L2, m, M)'
  BY <1>13, <1>14, <1>16, <1>17, <1>18, <1>19, <1>20 DEF Shape
<1> QED
  BY <1>1, <1>11, <1>12, <1>21, SameCounts DEF IInv

LEMMA FirstHeadStep == IInv /\ FirstHead /\ InCall => IInv'
<1> USE DEF FirstHead, SetHead
<1>1. SUFFICES ASSUME IInv, FirstHead, InCall PROVE IInv'
  OBVIOUS
<1>2. PICK k, L, m, M : Shape(k, L, m, M)
  BY <1>1 DEF IInv
<1> DEFINE S == Members(k, L) \cup Members(m, M)
<1>3. TypeOK /\ Control
  BY <1>1 DEF IInv
<1>4. pc = "first head" /\ pc' = "grow" /\ cmd = "it" /\ q # NULL
  BY <1>1, <1>2, <1>3 DEF Control, Result, Shape
<1>5. /\ UNCHANGED <<Turning, Out, Ahead, Behind, Room, Early, More, Fewer>>
      /\ In = 0 /\ In' = 1 /\ Late = 0 /\ Late' = 1
  BY <1>1, <1>4 DEF Turning, Out, In, Ahead, Behind, Room, Late, Early, More, Fewer,
     One, Unlinked, Shrunk, Removed, Linked, Grown
<1>6. /\ (Live' <=> Live) /\ ((Taking \/ Cleared)' <=> (Taking \/ Cleared))
      /\ size' = size /\ UNCHANGED <<qcnt, alarms, held, cmd>>
  BY <1>1, <1>4 DEF Live, HasQueue, Taking, Cleared
<1>7. ele \in Elements \ S
  BY <1>2, <1>4 DEF Shape
<1>8. PICK k2, L2 : k2 = 1 /\ L2 = Pushed(ele, 0, Nothing)
  OBVIOUS
<1>9. L2[1] = ele
  BY <1>8 DEF Pushed
<1>10. /\ Chain(next, ele, k2, L2) /\ Members(k2, L2) = {ele}
       /\ Front' = ele /\ Rest' = Rest
  <2>1. tail = ele /\ next[ele] = NULL
    BY <1>3, <1>4 DEF Control
  <2>2. Front' = tail /\ Rest' = Rest
    BY <1>1, <1>4 DEF Front, Rest, Live, HasQueue, Taking, Cleared
  <2>3. Chain(next, NULL, 0, Nothing) /\ Members(0, Nothing) = {}
    BY ChainNone
  <2>4. ele \in Elements
    BY <1>7
  <2>5. /\ Chain(next, ele, 0 + 1, Pushed(ele, 0, Nothing))
        /\ Members(0 + 1, Pushed(ele, 0, Nothing)) = {} \cup {ele}
    BY <2>1, <2>3, <2>4, ChainPush
  <2> QED
    BY <1>8, <2>1, <2>2, <2>5
<1>11. Whole => k = 0
  BY <1>2, <1>4 DEF Shape, Tails
<1>12. alarms = 0 => Whole
  BY <1>3, <1>4 DEF Control, Whole, Live, HasQueue, Taking, Cleared
<1>13. TypeOK'
  BY <1>1, <1>3, <1>4, <1>7 DEF TypeOK, Labels
<1>14. Control'
  BY <1>1, <1>3, <1>4, <1>7 DEF Control, Result
<1>15. Chain(next, Front, k2, L2)' /\ Chain(next, Rest, m, M)'
  BY <1>1, <1>2, <1>10 DEF Shape
<1>16. Books(Members(k2, L2) \cup Members(m, M))'
  <2>1. Pending = {<<"ele", ele>>, <<"value", ele>>} /\ Pending' = {} /\ HasQueue' = HasQueue /\ q' = q
    BY <1>1, <1>4 DEF Pending, HasQueue, Cleared
  <2> DEFINE T == Members(k2, L2) \cup Members(m, M)
  <2>2. T = {ele} \cup Members(m, M) /\ (alarms = 0 => S = Members(m, M))
    <3>1. alarms = 0 => k = 0
      BY <1>12, <1>11
    <3>2. k = 0 => Members(k, L) = {}
      BY <1>2, ChainStart DEF Shape
    <3> QED
      BY <1>10, <3>1, <3>2
  <2>3. Owned(T)' = ({"ele", "value"} \X T) \cup (IF HasQueue THEN {<<"queue", q>>} ELSE {})
    BY <2>1, <1>10 DEF Owned
  <2> HIDE DEF T
  <2>4. /\ Pending \cup ({"ele", "value"} \X Members(m, M)) = {"ele", "value"} \X T
        /\ {"ele", "value"} \X T \subseteq Pending \cup ({"ele", "value"} \X S)
    BY <2>1, <2>2
  <2>5. Owned(T)' \subseteq Owned(S)
    BY <2>3, <2>4 DEF Owned
  <2>6. ASSUME alarms = 0 PROVE Owned(T)' = Owned(S)
    <3>1. Owned(S) = Pending \cup ({"ele", "value"} \X Members(m, M))
                       \cup (IF HasQueue THEN {<<"queue", q>>} ELSE {})
      BY <2>2, <2>6 DEF Owned
    <3> QED
      BY <2>3, <2>4, <3>1
  <2>7. Books(S) /\ UNCHANGED <<Known, allocated_count, counting, alarms>>
    BY <1>1, <1>2 DEF Shape
  <2>8. Books(T)'
    <3> HIDE DEF S
    <3>1. alarms = 0 => Owned(T)' = Owned(S)
      BY <2>6
    <3> QED
      BY <1>3, <2>5, <2>7, <3>1, BooksDrop
  <2> QED
    BY <2>8 DEF T
<1>17. EleBlocks(Known') = EleBlocks(Known)
  BY <1>1
<1>18. Numbers(k2, m)'
  <2>1. Numbers(k, m) /\ k \in Nat /\ m \in Nat
    BY <1>2, Starts DEF Shape
  <2>2. /\ qcnt \in Int /\ size \in Nat /\ alarms \in Nat
        /\ Cardinality(EleBlocks(Known)) \in Nat
    BY <1>3, Numeric
  <2>3. k2 + m + Turning' + Out' <= qcnt' + In' + alarms'
    BY <1>6, <1>5, <1>8, <2>1, <2>2, Bits DEF Numbers
  <2>4. ~(Taking \/ Cleared)'
           => qcnt' + Ahead' <= Cardinality(EleBlocks(Known')) + alarms' + Behind'
    BY <1>6, <1>5, <1>17, <2>1, <2>2, Bits DEF Numbers
  <2>5. Live' => size' + Room' <= Cardinality(EleBlocks(Known'))
    BY <1>6, <1>5, <1>17, <2>1, <2>2, Bits DEF Numbers
  <2> QED
    BY <2>3, <2>4, <2>5 DEF Numbers, EleBlocks
<1>19. Whole' => Sizes(k2, m)'
  <2>1. /\ Whole => Sizes(k, m) /\ k = 0
        /\ k \in Nat /\ m \in Nat
    BY <1>2, <1>11, Starts DEF Shape
  <2>2. qcnt \in Int /\ size \in Nat
    BY <1>3, Numeric
  <2>3. Whole' => Whole
    BY <1>6 DEF Whole
  <2>4. Sizes(k, m) /\ k = 0 => size' + Late' = k2 + m + Turning' + Early'
    BY <1>6, <1>5, <1>8, <2>1, <2>2, Bits DEF Sizes
  <2>5. Sizes(k, m) => (cmd' # "new" => qcnt' + More' = size' + Fewer')
    BY <1>6, <1>5, <2>1, <2>2, Bits DEF Sizes
  <2> QED
    BY <2>1, <2>3, <2>4, <2>5 DEF Sizes
<1>20. Whole' => Tails(k2, L2, m, M)'
  <2>1. tail' = tail /\ tail = ele
    BY <1>1, <1>3, <1>4 DEF Control
  <2>2. k2 > 0 /\ k2 # 0 /\ tail' = L2[k2]
    BY <1>8, <1>9, <2>1
  <2> HIDE DEF FirstHead, SetHead
  <2> QED
    BY <1>4, <1>6, <2>2 DEF Tails, Linked, Grown
<1>21. Whole' => Says(k2, L2, m, M)'
  <2>1. Whole' => Whole /\ Says(k, L, m, M) /\ k = 0
    BY <1>2, <1>6, <1>11 DEF Shape, Whole
  <2>2. Says(k, L, m, M) => held = [j \in 1 .. k |-> value[L[j]]] /\ value[ele] = str
    BY <1>4 DEF Says, Linked, Grown, Unlinked, Shrunk, Removed
  <2>3. [j \in 1 .. 0 |-> value[L[j]]] = [j \in 1 .. k2 - 1 |-> value[L2[j]]]
    <3>1. k2 - 1 = 0
      BY <1>8
    <3> QED
      BY <3>1
  <2>4. value' = value /\ str' = str /\ L2[k2] = ele
    BY <1>1, <1>9, <1>8
  <2> HIDE DEF FirstHead, SetHead
  <2> QED
    BY <1>4, <1>6, <2>1, <2>2, <2>3, <2>4 DEF Says, Linked
<1>22. /\ pc' \in EleInHand => ele' \in Elements \ (Members(k2, L2) \cup Members(m, M))
       /\ \A i \in 1 .. k2, j \in 1 .. m : L2[i] # M[j]
  <2>1. \A i \in 1 .. k2 : L2[i] = ele
    BY <1>8, <1>9
  <2>2. \A j \in 1 .. m : M[j] # ele
    BY <1>7, <1>2, Starts
  <2>4. pc' \notin EleInHand
    BY <1>4
  <2> QED
    BY <2>1, <2>2, <2>4
<1>23. Shape(k2, L2, m, M)'
  BY <1>15, <1>16, <1>18, <1>19, <1>20, <1>21, <1>22 DEF Shape
<1> QED
  BY <1>1, <1>13, <1>14, <1>23, SameCounts DEF IInv

LEMMA NoHeadStep == IInv /\ NoHead /\ InCall => IInv'
<1> USE DEF NoHead, SetHead
<1>1. SUFFICES ASSUME IInv, NoHead, InCall PROVE IInv'
  OBVIOUS
<1>2. PICK k, L, m, M : Shape(k, L, m, M)
  BY <1>1 DEF IInv
<1> DEFINE S == Members(k, L) \cup Members(m, M)
<1>3. TypeOK /\ Control
  BY <1>1 DEF IInv
<1>4. pc = "no head" /\ pc' = "no tail" /\ cmd = "rh" /\ q # NULL
  BY <1>1, <1>2, <1>3 DEF Control, Result, Shape
<1>5. UNCHANGED <<Turning, Out, In, Ahead, Behind, Room, Late, Early, More, Fewer>>
  BY <1>1, <1>4 DEF Turning, Out, In, Ahead, Behind, Room, Late, Early, More, Fewer,
     One, Unlinked, Shrunk, Removed, Linked, Grown
<1>6. /\ (Live' <=> Live) /\ ((Taking \/ Cleared)' <=> (Taking \/ Cleared))
      /\ size' = size /\ UNCHANGED <<qcnt, alarms, held, cmd>>
  BY <1>1, <1>4 DEF Live, HasQueue, Taking, Cleared
<1>7. PICK k2, L2 : k2 = 0 /\ L2 = Nothing
  OBVIOUS
<1>8. k2 = 0
  BY <1>7
<1>9. /\ Chain(next, NULL, k2, L2) /\ Members(k2, L2) = {}
      /\ Front' = NULL /\ Rest' = Rest
  <2>1. Front' = NULL /\ Rest' = Rest
    BY <1>1, <1>4 DEF Front, Rest, Live, HasQueue, Taking, Cleared
  <2> QED
    BY <1>7, <2>1, ChainNone
<1>10. Whole => k = 0
  BY <1>2, <1>4 DEF Shape, Tails
<1>11. alarms = 0 => Whole
  BY <1>3, <1>4 DEF Control, Whole, Live, HasQueue, Taking, Cleared
<1>12. TypeOK'
  BY <1>1, <1>3, <1>4 DEF TypeOK, Labels
<1>13. Control'
  BY <1>1, <1>3, <1>4 DEF Control, Result
<1>14. Chain(next, Front, k2, L2)' /\ Chain(next, Rest, m, M)'
  BY <1>1, <1>2, <1>9 DEF Shape
<1>15. Books(Members(k2, L2) \cup Members(m, M))'
  <2> DEFINE T == Members(k2, L2) \cup Members(m, M)
  <2>1. Pending' = Pending /\ (HasQueue' <=> HasQueue) /\ q' = q
    BY <1>1, <1>4 DEF Pending, HasQueue, Cleared
  <2>2. T \subseteq S /\ S = Members(k, L) \cup T
    BY <1>9
  <2>3. alarms = 0 => T = S
    <3>1. alarms = 0 => k = 0
      BY <1>11, <1>10
    <3>2. k = 0 => Members(k, L) = {}
      BY <1>2, ChainStart DEF Shape
    <3> QED
      BY <1>9, <3>1, <3>2
  <2>4. Books(S) /\ UNCHANGED <<Known, allocated_count, counting, alarms>>
    BY <1>1, <1>2 DEF Shape
  <2> HIDE DEF S, T
  <2>5. Owned(T)' \subseteq Owned(S)
    BY <2>1, <2>2, OwnedLess
  <2>6. alarms = 0 => Owned(T)' = Owned(S)
    BY <2>1, <2>3 DEF Owned
  <2>7. Books(T)'
    BY <1>3, <2>4, <2>5, <2>6, BooksDrop
  <2> QED
    BY <2>7 DEF T
<1>16. EleBlocks(Known') = EleBlocks(Known)
  BY <1>1
<1>17. Numbers(k2, m)'
  <2>1. Numbers(k, m) /\ k \in Nat /\ m \in Nat
    BY <1>2, Starts DEF Shape
  <2>2. /\ qcnt \in Int /\ size \in Nat /\ alarms \in Nat
        /\ Cardinality(EleBlocks(Known)) \in Nat
    BY <1>3, Numeric
  <2>3. k2 + m + Turning' + Out' <= qcnt' + In' + alarms'
    BY <1>6, <1>5, <1>7, <2>1, <2>2, Bits DEF Numbers
  <2>4. ~(Taking \/ Cleared)'
           => qcnt' + Ahead' <= Cardinality(EleBlocks(Known')) + alarms' + Behind'
    BY <1>6, <1>5, <1>16, <2>1, <2>2, Bits DEF Numbers
  <2>5. Live' => size' + Room' <= Cardinality(EleBlocks(Known'))
    BY <1>6, <1>5, <1>16, <2>1, <2>2, Bits DEF Numbers
  <2> QED
    BY <2>3, <2>4, <2>5 DEF Numbers, EleBlocks
<1>18. Whole' => Sizes(k2, m)'
  <2>1. /\ Whole => Sizes(k, m) /\ k = 0
        /\ k \in Nat /\ m \in Nat
    BY <1>2, <1>10, Starts DEF Shape
  <2>2. qcnt \in Int /\ size \in Nat
    BY <1>3, Numeric
  <2>3. Whole' => Whole
    BY <1>6 DEF Whole
  <2>4. Sizes(k, m) /\ k = 0 => size' + Late' = k2 + m + Turning' + Early'
    BY <1>6, <1>5, <1>7, <2>1, <2>2, Bits DEF Sizes
  <2>5. Sizes(k, m) => (cmd' # "new" => qcnt' + More' = size' + Fewer')
    BY <1>6, <1>5, <2>1, <2>2, Bits DEF Sizes
  <2> QED
    BY <2>1, <2>3, <2>4, <2>5 DEF Sizes
<1>19. Whole' => Tails(k2, L2, m, M)'
  <2>1. Whole' => Whole /\ Tails(k, L, m, M) /\ k = 0
    BY <1>2, <1>6, <1>10 DEF Shape, Whole
  <2>2. Tails(k, L, m, M) /\ k = 0 => tail' = ele'
    BY <1>1, <1>4 DEF Tails
  <2>3. Whole' => tail' = IF k2 = 0 THEN ele' ELSE L2[k2]
    BY <1>8, <2>1, <2>2
  <2>4. (pc' = "shrink" \/ pc' = "no tail") /\ cmd' = "rh"
    BY <1>4, <1>6
  <2> QED
    BY <1>8, <2>3, <2>4, TailsUnlinked, Zenon
<1>20. Whole' => Says(k2, L2, m, M)'
  <2>1. Whole' => Whole /\ Says(k, L, m, M) /\ k = 0
    BY <1>2, <1>6, <1>10 DEF Shape, Whole
  <2>2. Says(k, L, m, M)
           => held = [j \in 1 .. k + 1 |-> IF j = 1 THEN held[1] ELSE value[L[j - 1]]]
    BY <1>4 DEF Says, Linked, Grown, Unlinked, Shrunk, Removed
  <2>3. k = 0 => [j \in 1 .. k + 1 |-> IF j = 1 THEN held[1] ELSE value[L[j - 1]]]
           = [j \in 1 .. k2 + 1 |-> IF j = 1 THEN held[1] ELSE value[L2[j - 1]]]
    <3>1. \A j \in 1 .. 0 + 1 : j = 1
      OBVIOUS
    <3> QED
      BY <1>7, <3>1
  <2>4. value' = value
    BY <1>1
  <2>5. Whole' => held' = [j \in 1 .. k2 + 1 |-> IF j = 1 THEN held'[1] ELSE value'[L2[j - 1]]]
    BY <1>6, <2>1, <2>2, <2>3, <2>4
  <2>6. (pc' = "shrink" \/ pc' = "no tail") /\ cmd' = "rh"
    BY <1>4, <1>6
  <2> QED
    BY <2>5, <2>6, SaysUnlinked, Zenon
<1>21. /\ pc' \in EleInHand => ele' \in Elements \ (Members(k2, L2) \cup Members(m, M))
       /\ \A i \in 1 .. k2, j \in 1 .. m : L2[i] # M[j]
  <2>1. ele' = ele /\ ele \in Elements \ S
    BY <1>1, <1>2, <1>4 DEF Shape
  <2>2. Members(k2, L2) \cup Members(m, M) \subseteq S
    BY <1>9
  <2>3. \A i \in 1 .. k2 : FALSE
    BY <1>8
  <2> QED
    BY <2>1, <2>2, <2>3
<1>22. Shape(k2, L2, m, M)'
  BY <1>14, <1>15, <1>17, <1>18, <1>19, <1>20, <1>21 DEF Shape
<1> QED
  BY <1>1, <1>12, <1>13, <1>22, SameCounts DEF IInv

LEMMA TurnHeadStep == IInv /\ TurnHead /\ InCall => IInv'
<1> USE DEF TurnHead, SetHead
<1>1. SUFFICES ASSUME IInv, TurnHead, InCall PROVE IInv'
  OBVIOUS
<1>2. PICK k, L, m, M : Shape(k, L, m, M)
  BY <1>1 DEF IInv
<1> DEFINE S == Members(k, L) \cup Members(m, M)
<1>3. TypeOK /\ Control
  BY <1>1 DEF IInv
<1>4. pc = "turn head" /\ pc' = "turn" /\ cmd = "reverse" /\ q # NULL
  BY <1>1, <1>2, <1>3 DEF Control, Result, Shape
<1>5. UNCHANGED <<Turning, Out, In, Ahead, Behind, Room, Late, Early, More, Fewer>>
  BY <1>1, <1>4 DEF Turning, Out, In, Ahead, Behind, Room, Late, Early, More, Fewer,
     One, Unlinked, Shrunk, Removed, Linked, Grown
<1>6. /\ (Live' <=> Live) /\ ((Taking \/ Cleared)' <=> (Taking \/ Cleared))
      /\ size' = size /\ UNCHANGED <<qcnt, alarms, held, cmd>>
  BY <1>1, <1>4 DEF Live, HasQueue, Taking, Cleared
<1>7. PICK k2, L2, m2, M2 : k2 = 0 /\ L2 = Nothing /\ m2 = k /\ M2 = L
  OBVIOUS
<1>8. k2 = 0
  BY <1>7
<1>9. /\ Chain(next, Front', k2, L2) /\ Chain(next, Rest', m2, M2)
      /\ Members(k2, L2) = {} /\ Members(m, M) = {} /\ m = 0 /\ Front = head
  <2>1. Front' = NULL /\ Rest' = Front /\ Rest = NULL /\ Front = head
    BY <1>1, <1>3, <1>4 DEF Front, Rest, Live, HasQueue, Taking, Cleared, Control
  <2>2. Chain(next, Front, k, L) /\ Chain(next, Rest, m, M)
    BY <1>2 DEF Shape
  <2>3. m = 0 /\ Members(m, M) = {}
    BY <2>1, <2>2, ChainStart
  <2> QED
    BY <1>7, <2>1, <2>2, <2>3, ChainNone
<1>10. TypeOK'
  BY <1>1, <1>3, <1>4 DEF TypeOK, Labels
<1>11. Control'
  BY <1>1, <1>3, <1>4 DEF Control, Result
<1>12. Chain(next, Front, k2, L2)' /\ Chain(next, Rest, m2, M2)'
  BY <1>1, <1>9
<1>13. Books(Members(k2, L2) \cup Members(m2, M2))'
  <2>1. Members(k2, L2) \cup Members(m2, M2) = S
    BY <1>7, <1>9
  <2>2. Owned(S)' = Owned(S)
    BY <1>1, <1>4 DEF Owned, Pending, HasQueue, Cleared
  <2>3. Books(S)'
    BY <1>1, <1>2, <2>2 DEF Shape, Books
  <2> QED
    BY <2>1, <2>3
<1>14. EleBlocks(Known') = EleBlocks(Known)
  BY <1>1
<1>15. Numbers(k2, m2)'
  <2>1. Numbers(k, m) /\ k \in Nat /\ m \in Nat
    BY <1>2, Starts DEF Shape
  <2>2. /\ qcnt \in Int /\ size \in Nat /\ alarms \in Nat
        /\ Cardinality(EleBlocks(Known)) \in Nat
    BY <1>3, Numeric
  <2>3. k2 + m2 + Turning' + Out' <= qcnt' + In' + alarms'
    BY <1>6, <1>5, <1>7, <2>1, <2>2, Bits DEF Numbers
  <2>4. ~(Taking \/ Cleared)'
           => qcnt' + Ahead' <= Cardinality(EleBlocks(Known')) + alarms' + Behind'
    BY <1>6, <1>5, <1>14, <2>1, <2>2, Bits DEF Numbers
  <2>5. Live' => size' + Room' <= Cardinality(EleBlocks(Known'))
    BY <1>6, <1>5, <1>14, <2>1, <2>2, Bits DEF Numbers
  <2> QED
    BY <2>3, <2>4, <2>5 DEF Numbers, EleBlocks
<1>16. Whole' => Sizes(k2, m2)'
  <2>1. /\ Whole => Sizes(k, m)
        /\ k \in Nat /\ m = 0
    BY <1>2, <1>9, Starts DEF Shape
  <2>2. qcnt \in Int /\ size \in Nat
    BY <1>3, Numeric
  <2>3. Whole' => Whole
    BY <1>6 DEF Whole
  <2>4. Sizes(k, m) => size' + Late' = k2 + m2 + Turning' + Early'
    BY <1>6, <1>5, <1>7, <2>1, <2>2, Bits DEF Sizes
  <2>5. Sizes(k, m) => (cmd' # "new" => qcnt' + More' = size' + Fewer')
    BY <1>6, <1>5, <2>1, <2>2, Bits DEF Sizes
  <2> QED
    BY <2>1, <2>3, <2>4, <2>5 DEF Sizes
<1>17. Whole' => Tails(k2, L2, m2, M2)'
  <2>1. Whole' => Whole /\ Tails(k, L, m, M)
    BY <1>2, <1>6 DEF Shape, Whole
  <2>2. Tails(k, L, m, M) => tail' = head
    BY <1>1, <1>4 DEF Tails
  <2>3. k \in Nat /\ head = IF k > 0 THEN L[1] ELSE NULL
    <3>1. k \in Nat /\ (k > 0 <=> k # 0)
      BY <1>2, Starts
    <3> QED
      BY <1>2, <1>9, <3>1, Starts
  <2>4. Whole' => tail' = IF m2 > 0 THEN M2[1] ELSE NULL
    BY <1>7, <2>1, <2>2, <2>3
  <2>5. ~(k2 > 0)
    BY <1>8
  <2>6. Whole' => tail' = IF k2 > 0 THEN L2[k2] ELSE IF pc' = "turned" THEN ele'
                          ELSE IF m2 > 0 THEN M2[1] ELSE NULL
    BY <1>4, <2>4, <2>5
  <2>7. (pc' = "turn" \/ pc' = "turned") /\ cmd' = "reverse"
    BY <1>4, <1>6
  <2> QED
    BY <2>6, <2>7, TailsTurn, Zenon
<1>18. Whole' => Says(k2, L2, m2, M2)'
  <2>1. Whole' => Whole /\ Says(k, L, m, M)
    BY <1>2, <1>6 DEF Shape, Whole
  <2>2. Says(k, L, m, M) => held = [j \in 1 .. k |-> value[L[j]]]
    BY <1>4 DEF Says, Linked, Grown, Unlinked, Shrunk, Removed
  <2>3. [j \in 1 .. k |-> value[L[j]]]
           = [j \in 1 .. k2 + m2 |-> value[IF j <= k2 THEN L2[k2 + 1 - j] ELSE M2[j - k2]]]
    <3>1. k \in Nat /\ k2 + m2 = k
      BY <1>2, <1>7, Starts
    <3>2. \A j \in 1 .. k : ~(j <= k2) /\ j - k2 = j
      BY <1>7, <3>1
    <3> QED
      BY <1>7, <3>1, <3>2
  <2>4. value' = value
    BY <1>1
  <2>5. Whole' => held' = [j \in 1 .. k2 + m2 |->
                             value'[IF j <= k2 THEN L2[k2 + 1 - j] ELSE M2[j - k2]]]
    BY <1>6, <2>1, <2>2, <2>3, <2>4
  <2> QED
    BY <1>4, <1>6, <2>5, SaysTurning, Zenon
<1>19. /\ pc' \in EleInHand => ele' \in Elements \ (Members(k2, L2) \cup Members(m2, M2))
       /\ \A i \in 1 .. k2, j \in 1 .. m2 : L2[i] # M2[j]
  <2>1. pc' \notin EleInHand
    BY <1>4
  <2>2. \A i \in 1 .. k2 : FALSE
    BY <1>8
  <2> QED
    BY <2>1, <2>2
<1>20. Shape(k2, L2, m2, M2)'
  BY <1>12, <1>13, <1>15, <1>16, <1>17, <1>18, <1>19 DEF Shape
<1> QED
  BY <1>1, <1>10, <1>11, <1>20, SameCounts DEF IInv

LEMMA UnlinkStep == IInv /\ Unlink /\ InCall => IInv'
<1> USE DEF Unlink, SetHead
<1>1. SUFFICES ASSUME IInv, Unlink, InCall PROVE IInv'
  OBVIOUS
<1>2. PICK k, L, m, M : Shape(k, L, m, M)
  BY <1>1 DEF IInv
<1> DEFINE S == Members(k, L) \cup Members(m, M)
<1>3. TypeOK /\ Control
  BY <1>1 DEF IInv
<1>4. pc = "unlink" /\ pc' = "shrink" /\ cmd = "rh" /\ q # NULL
  BY <1>1, <1>2, <1>3 DEF Control, Result, Shape
<1>5. /\ UNCHANGED <<Turning, In, Ahead, Behind, Room, Late, More, Fewer>>
      /\ Out = 0 /\ Out' = 1 /\ Early = 0 /\ Early' = 1
  BY <1>1, <1>4 DEF Turning, Out, In, Ahead, Behind, Room, Late, Early, More, Fewer,
     One, Unlinked, Shrunk, Removed, Linked, Grown
<1>6. /\ (Live' <=> Live) /\ ((Taking \/ Cleared)' <=> (Taking \/ Cleared))
      /\ size' = size /\ UNCHANGED <<qcnt, alarms, held, cmd>>
  BY <1>1, <1>4 DEF Live, HasQueue, Taking, Cleared
<1>7. head # NULL /\ ele = head
  BY <1>1, <1>3, <1>4 DEF Control
<1>8. PICK k2, L2 : k2 = k - 1 /\ L2 = Popped(k, L)
  OBVIOUS
<1>9. /\ Chain(next, Front', k2, L2) /\ Rest' = Rest
      /\ Members(k2, L2) = Members(k, L) \ {ele}
      /\ ele \in Members(k, L) /\ ele \in Elements /\ L[1] = ele
  <2>1. Front = head /\ Front' = next[head] /\ Rest' = Rest
    BY <1>1, <1>4 DEF Front, Rest, Live, HasQueue, Taking, Cleared
  <2>2. Chain(next, head, k, L)
    BY <1>2, <2>1 DEF Shape
  <2> QED
    BY <1>7, <1>8, <2>1, <2>2, ChainPop, ChainStart
<1>10. k2 + 1 = k /\ k \in Nat /\ k2 \in Nat
  BY <1>8, <1>9, <1>2, Starts DEF Chain
<1>11. ele \notin Members(m, M)
  <2>1. L[1] = ele /\ 1 \in 1 .. k
    BY <1>10, <1>9
  <2> QED
    BY <1>2, <2>1 DEF Shape, Members
<1>12. /\ k2 + 1 = k /\ k \in Nat /\ k2 \in Nat /\ k # 0 /\ L[1] = ele
       /\ \A i \in 1 .. k2 : i + 1 \in 1 .. k /\ L2[i] = L[i + 1]
       /\ k2 = 0 => L[k] = ele
       /\ k2 # 0 => L2[k2] = L[k]
  <2>1. \A i \in 1 .. k2 : i + 1 \in 1 .. k /\ L2[i] = L[i + 1]
    BY <1>8, <1>10 DEF Popped
  <2> QED
    BY <1>10, <1>9, <2>1
<1>13. TypeOK'
  BY <1>1, <1>3, <1>4 DEF TypeOK, Labels
<1>14. Control'
  BY <1>1, <1>3, <1>4, <1>7 DEF Control, Result
<1>15. Chain(next, Front, k2, L2)' /\ Chain(next, Rest, m, M)'
  BY <1>1, <1>2, <1>9 DEF Shape
<1>16. Books(Members(k2, L2) \cup Members(m, M))'
  <2> DEFINE T == Members(k2, L2) \cup Members(m, M)
  <2>1. Pending = {} /\ Pending' = {<<"ele", ele>>, <<"value", ele>>}
    BY <1>1, <1>4 DEF Pending
  <2>2. S = T \cup {ele}
    BY <1>9, <1>11
  <2>3. (HasQueue' <=> HasQueue) /\ q' = q
    BY <1>1, <1>4 DEF HasQueue, Cleared
  <2> HIDE DEF S, T
  <2>4. Owned(T)' = Owned(S)
    <3>1. Pending' \cup ({"ele", "value"} \X T) = Pending \cup ({"ele", "value"} \X S)
      BY <2>1, <2>2
    <3> QED
      BY <2>3, <3>1 DEF Owned
  <2>5. Books(S)
    BY <1>2 DEF Shape, S
  <2>6. Books(T)'
    BY <1>1, <2>4, <2>5 DEF Books
  <2> QED
    BY <2>6 DEF T
<1>17. EleBlocks(Known') = EleBlocks(Known)
  BY <1>1
<1>18. Numbers(k2, m)'
  <2>1. Numbers(k, m) /\ k \in Nat /\ m \in Nat
    BY <1>2, Starts DEF Shape
  <2>2. /\ qcnt \in Int /\ size \in Nat /\ alarms \in Nat
        /\ Cardinality(EleBlocks(Known)) \in Nat
    BY <1>3, Numeric
  <2>3. k2 + m + Turning' + Out' <= qcnt' + In' + alarms'
    BY <1>6, <1>5, <1>10, <2>1, <2>2, Bits DEF Numbers
  <2>4. ~(Taking \/ Cleared)'
           => qcnt' + Ahead' <= Cardinality(EleBlocks(Known')) + alarms' + Behind'
    BY <1>6, <1>5, <1>17, <2>1, <2>2, Bits DEF Numbers
  <2>5. Live' => size' + Room' <= Cardinality(EleBlocks(Known'))
    BY <1>6, <1>5, <1>17, <2>1, <2>2, Bits DEF Numbers
  <2> QED
    BY <2>3, <2>4, <2>5 DEF Numbers, EleBlocks
<1>19. Whole' => Sizes(k2, m)'
  <2>1. /\ Whole => Sizes(k, m)
        /\ k \in Nat /\ m \in Nat
    BY <1>2, Starts DEF Shape
  <2>2. qcnt \in Int /\ size \in Nat
    BY <1>3, Numeric
  <2>3. Whole' => Whole
    BY <1>6 DEF Whole
  <2>4. Sizes(k, m) => size' + Late' = k2 + m + Turning' + Early'
    BY <1>6, <1>5, <1>10, <2>1, <2>2, Bits DEF Sizes
  <2>5. Sizes(k, m) => (cmd' # "new" => qcnt' + More' = size' + Fewer')
    BY <1>6, <1>5, <2>1, <2>2, Bits DEF Sizes
  <2> QED
    BY <2>1, <2>3, <2>4, <2>5 DEF Sizes
<1>20. Whole' => Tails(k2, L2, m, M)'
  <2>1. Whole' => Whole /\ Tails(k, L, m, M)
    BY <1>2, <1>6 DEF Shape, Whole
  <2>2. Tails(k, L, m, M) => tail = IF k = 0 THEN NULL ELSE L[k]
    BY <1>4 DEF Tails
  <2>3. tail' = tail /\ ele' = ele
    BY <1>1
  <2>4. Whole' => tail' = IF k2 = 0 THEN ele' ELSE L2[k2]
    BY <1>12, <2>1, <2>2, <2>3
  <2>5. (pc' = "shrink" \/ pc' = "no tail") /\ cmd' = "rh" /\ ~(pc' = "no tail")
    BY <1>4, <1>6
  <2> QED
    BY <2>4, <2>5, TailsUnlinked, Zenon
<1>21. Whole' => Says(k2, L2, m, M)'
  <2>1. Whole' => Whole /\ Says(k, L, m, M)
    BY <1>2, <1>6 DEF Shape, Whole
  <2>2. Says(k, L, m, M) => held = [j \in 1 .. k |-> value[L[j]]]
    BY <1>4 DEF Says, Linked, Grown, Unlinked, Shrunk, Removed
  <2>3. held = [j \in 1 .. k |-> value[L[j]]]
           => held = [j \in 1 .. k2 + 1 |-> IF j = 1 THEN held[1] ELSE value[L2[j - 1]]]
    <3>1. k2 + 1 = k /\ 1 \in 1 .. k
      BY <1>12
    <3>2. \A j \in 1 .. k : j # 1 => L2[j - 1] = L[j]
      <4>1. \A j \in 1 .. k : j # 1 => j - 1 \in 1 .. k2 /\ j - 1 + 1 = j
        BY <1>12
      <4> QED
        BY <1>12, <4>1
    <3> QED
      BY <3>1, <3>2
  <2>4. value' = value
    BY <1>1
  <2>5. Whole' => held' = [j \in 1 .. k2 + 1 |-> IF j = 1 THEN held'[1] ELSE value'[L2[j - 1]]]
    BY <1>6, <2>1, <2>2, <2>3, <2>4
  <2>6. (pc' = "shrink" \/ pc' = "no tail") /\ cmd' = "rh"
    BY <1>4, <1>6
  <2> QED
    BY <2>5, <2>6, SaysUnlinked, Zenon
<1>22. /\ pc' \in EleInHand => ele' \in Elements \ (Members(k2, L2) \cup Members(m, M))
       /\ \A i \in 1 .. k2, j \in 1 .. m : L2[i] # M[j]
  <2>1. ele' = ele /\ ele \in Elements /\ ele \notin Members(k2, L2)
    BY <1>1, <1>9, <1>11
  <2>2. ASSUME NEW i \in 1 .. k2, NEW j \in 1 .. m
        PROVE  L2[i] # M[j]
    <3>1. i + 1 \in 1 .. k /\ L2[i] = L[i + 1]
      BY <1>12
    <3> QED
      BY <1>2, <3>1 DEF Shape
  <2> QED
    BY <1>11, <2>1, <2>2
<1>23. Shape(k2, L2, m, M)'
  BY <1>15, <1>16, <1>18, <1>19, <1>20, <1>21, <1>22 DEF Shape
<1> QED
  BY <1>1, <1>13, <1>14, <1>23, SameCounts DEF IInv

LEMMA TurnNextStep == IInv /\ TurnNext /\ InCall => IInv'
<1> USE DEF TurnNext
<1>1. SUFFICES ASSUME IInv, TurnNext, InCall PROVE IInv'
  OBVIOUS
<1>2. PICK k, L, m, M : Shape(k, L, m, M)
  BY <1>1 DEF IInv
<1> DEFINE S == Members(k, L) \cup Members(m, M)
<1>3. TypeOK /\ Control
  BY <1>1 DEF IInv
<1>4. pc = "turn" /\ pc' = "turned" /\ cmd = "reverse" /\ q # NULL
  BY <1>1, <1>2, <1>3 DEF Control, Result, Shape
<1>5. /\ UNCHANGED <<Out, In, Ahead, Behind, Room, Late, Early, More, Fewer>>
      /\ Turning = 0 /\ Turning' = 1
  BY <1>1, <1>4 DEF Turning, Out, In, Ahead, Behind, Room, Late, Early, More, Fewer,
     One, Unlinked, Shrunk, Removed, Linked, Grown
<1>6. /\ (Live' <=> Live) /\ ((Taking \/ Cleared)' <=> (Taking \/ Cleared))
      /\ size' = size /\ UNCHANGED <<qcnt, alarms, held, cmd>>
  BY <1>1, <1>4 DEF Live, HasQueue, Taking, Cleared
<1>7. PICK m2, M2 : m2 = m - 1 /\ M2 = Popped(m, M)
  OBVIOUS
<1>8. /\ Chain(next, next[ptr], m2, M2) /\ Members(m2, M2) = Members(m, M) \ {ele'}
      /\ ele' = ptr /\ ele' \in Members(m, M) /\ ele' \in Elements /\ M[1] = ele'
  <2>1. ele' = ptr /\ ptr # NULL
    BY <1>1
  <2>2. Rest = ptr
    BY <1>4 DEF Rest, Taking
  <2>3. Chain(next, ptr, m, M)
    BY <1>2, <2>2 DEF Shape
  <2> QED
    BY <1>7, <2>1, <2>3, ChainPop, ChainStart
<1>9. m2 + 1 = m /\ m \in Nat /\ m2 \in Nat
  BY <1>7, <1>8, <1>2, Starts DEF Chain
<1>10. ele' \notin Members(k, L)
  <2>1. M[1] = ele' /\ 1 \in 1 .. m
    BY <1>9, <1>8
  <2> QED
    BY <1>2, <2>1 DEF Shape, Members
<1>11. /\ m2 + 1 = m /\ m \in Nat /\ m2 \in Nat /\ m > 0 /\ M[1] = ele'
       /\ \A i \in 1 .. m2 : i + 1 \in 1 .. m /\ M2[i] = M[i + 1]
  <2>1. \A i \in 1 .. m2 : i + 1 \in 1 .. m /\ M2[i] = M[i + 1]
    BY <1>7, <1>9 DEF Popped
  <2> QED
    BY <1>9, <1>8, <2>1
<1>12. /\ Chain(next', Front', k, L) /\ Chain(next', Rest', m2, M2)
       /\ Members(m2, M2) = Members(m, M) \ {ele'}
       /\ ele' \in Members(m, M) /\ ele' \in Elements
  <2>1. Front' = Front /\ Rest' = next[ptr]
    BY <1>1, <1>4 DEF Front, Rest, Live, HasQueue, Taking, Cleared
  <2>2. next \in Link
    BY <1>3 DEF TypeOK, Link
  <2>3. Chain(next, Front, k, L)
    BY <1>2 DEF Shape
  <2>4. next' = [next EXCEPT ![ele'] = head]
    BY <1>1
  <2>5. Chain(next', Front, k, L)
    BY <1>10, <2>2, <2>3, <2>4, ChainFrame
  <2>6. Chain(next', next[ptr], m2, M2)
    BY <1>8, <2>2, <2>4, ChainFrame
  <2> QED
    BY <1>8, <2>1, <2>5, <2>6
<1>13. /\ ptr' \in Elements \cup {NULL} /\ next'[ele'] = head
       /\ next' \in [Elements -> Elements \cup {NULL}]
  BY <1>1, <1>3, <1>8 DEF TypeOK
<1>14. TypeOK'
  BY <1>1, <1>3, <1>4, <1>12, <1>13 DEF TypeOK, Labels
<1>15. Control'
  BY <1>1, <1>3, <1>4, <1>13 DEF Control, Result
<1>16. Chain(next, Front, k, L)' /\ Chain(next, Rest, m2, M2)'
  BY <1>12
<1>17. Books(Members(k, L) \cup Members(m2, M2))'
  <2> DEFINE T == Members(k, L) \cup Members(m2, M2)
  <2>1. Pending = {} /\ Pending' = {<<"ele", ele'>>, <<"value", ele'>>}
    BY <1>1, <1>4 DEF Pending
  <2>2. S = T \cup {ele'}
    BY <1>12, <1>10
  <2>3. (HasQueue' <=> HasQueue) /\ q' = q
    BY <1>1, <1>4 DEF HasQueue, Cleared
  <2> HIDE DEF S, T
  <2>4. Owned(T)' = Owned(S)
    <3>1. Pending' \cup ({"ele", "value"} \X T) = Pending \cup ({"ele", "value"} \X S)
      BY <2>1, <2>2
    <3> QED
      BY <2>3, <3>1 DEF Owned
  <2>5. Books(S)
    BY <1>2 DEF Shape, S
  <2>6. Books(T)'
    BY <1>1, <2>4, <2>5 DEF Books
  <2> QED
    BY <2>6 DEF T
<1>18. EleBlocks(Known') = EleBlocks(Known)
  BY <1>1
<1>19. Numbers(k, m2)'
  <2>1. Numbers(k, m) /\ k \in Nat /\ m \in Nat
    BY <1>2, Starts DEF Shape
  <2>2. /\ qcnt \in Int /\ size \in Nat /\ alarms \in Nat
        /\ Cardinality(EleBlocks(Known)) \in Nat
    BY <1>3, Numeric
  <2>3. k + m2 + Turning' + Out' <= qcnt' + In' + alarms'
    BY <1>6, <1>5, <1>9, <2>1, <2>2, Bits DEF Numbers
  <2>4. ~(Taking \/ Cleared)'
           => qcnt' + Ahead' <= Cardinality(EleBlocks(Known')) + alarms' + Behind'
    BY <1>6, <1>5, <1>18, <2>1, <2>2, Bits DEF Numbers
  <2>5. Live' => size' + Room' <= Cardinality(EleBlocks(Known'))
    BY <1>6, <1>5, <1>18, <2>1, <2>2, Bits DEF Numbers
  <2> QED
    BY <2>3, <2>4, <2>5 DEF Numbers, EleBlocks
<1>20. Whole' => Sizes(k, m2)'
  <2>1. /\ Whole => Sizes(k, m)
        /\ k \in Nat /\ m \in Nat
    BY <1>2, Starts DEF Shape
  <2>2. qcnt \in Int /\ size \in Nat
    BY <1>3, Numeric
  <2>3. Whole' => Whole
    BY <1>6 DEF Whole
  <2>4. Sizes(k, m) => size' + Late' = k + m2 + Turning' + Early'
    BY <1>6, <1>5, <1>9, <2>1, <2>2, Bits DEF Sizes
  <2>5. Sizes(k, m) => (cmd' # "new" => qcnt' + More' = size' + Fewer')
    BY <1>6, <1>5, <2>1, <2>2, Bits DEF Sizes
  <2> QED
    BY <2>1, <2>3, <2>4, <2>5 DEF Sizes
<1>21. Whole' => Tails(k, L, m2, M2)'
  <2>1. Whole' => Whole /\ Tails(k, L, m, M)
    BY <1>2, <1>6 DEF Shape, Whole
  <2>2. Tails(k, L, m, M) => tail = IF k > 0 THEN L[k] ELSE IF m > 0 THEN M[1] ELSE NULL
    BY <1>4 DEF Tails
  <2>3. tail' = tail
    BY <1>1
  <2>4. Whole' => tail' = IF k > 0 THEN L[k] ELSE ele'
    BY <1>11, <2>1, <2>2, <2>3
  <2>5. (pc' = "turn" \/ pc' = "turned") /\ cmd' = "reverse"
    BY <1>4, <1>6
  <2>6. Whole' => tail' = IF k > 0 THEN L[k] ELSE IF pc' = "turned" THEN ele'
                          ELSE IF m2 > 0 THEN M2[1] ELSE NULL
    BY <1>4, <2>4
  <2> QED
    BY <2>5, <2>6, TailsTurn, Zenon
<1>22. Whole' => Says(k, L, m2, M2)'
  <2>1. Whole' => Whole /\ Says(k, L, m, M)
    BY <1>2, <1>6 DEF Shape, Whole
  <2>2. Says(k, L, m, M)
           => held = [j \in 1 .. k + m |-> value[IF j <= k THEN L[k + 1 - j] ELSE M[j - k]]]
    BY <1>4 DEF Says, Linked, Grown, Unlinked, Shrunk, Removed
  <2>3. [j \in 1 .. k + m |-> value[IF j <= k THEN L[k + 1 - j] ELSE M[j - k]]]
           = [j \in 1 .. k + 1 + m2 |-> value[IF j <= k THEN L[k + 1 - j]
                                               ELSE IF j = k + 1 THEN ele'
                                               ELSE M2[j - k - 1]]]
    <3>1. k \in Nat /\ m2 \in Nat /\ k + m = k + 1 + m2
      BY <1>2, <1>11, Starts
    <3>2. ASSUME NEW j \in 1 .. k + 1 + m2
          PROVE  (IF j <= k THEN L[k + 1 - j] ELSE M[j - k])
                    = IF j <= k THEN L[k + 1 - j] ELSE IF j = k + 1 THEN ele' ELSE M2[j - k - 1]
      <4>1. CASE j <= k
        BY <4>1
      <4>2. CASE j = k + 1
        <5>1. ~(j <= k) /\ j - k = 1
          BY <3>1, <4>2
        <5> QED
          BY <1>11, <4>2, <5>1
      <4>3. CASE j > k + 1
        <5>1. ~(j <= k) /\ j # k + 1 /\ j - k - 1 \in 1 .. m2 /\ j - k - 1 + 1 = j - k
          BY <3>1, <4>3
        <5>2. M2[j - k - 1] = M[j - k]
          BY <1>11, <5>1
        <5> QED
          BY <5>1, <5>2
      <4> QED
        BY <3>1, <4>1, <4>2, <4>3
    <3> QED
      BY <3>1, <3>2
  <2>4. value' = value
    BY <1>1
  <2>5. Whole' => held' = [j \in 1 .. k + 1 + m2 |-> value'[IF j <= k THEN L[k + 1 - j]
                                                          ELSE IF j = k + 1 THEN ele'
                                                          ELSE M2[j - k - 1]]]
    BY <1>6, <2>1, <2>2, <2>3, <2>4
  <2>6. pc' = "turned" /\ cmd' = "reverse"
    BY <1>4, <1>6
  <2> QED
    BY <2>5, <2>6, SaysTurned, Zenon
<1>23. /\ pc' \in EleInHand => ele' \in Elements \ (Members(k, L) \cup Members(m2, M2))
       /\ \A i \in 1 .. k, j \in 1 .. m2 : L[i] # M2[j]
  <2>1. ele' \in Elements /\ ele' \notin Members(m2, M2)
    BY <1>12, <1>10
  <2>2. ASSUME NEW i \in 1 .. k, NEW j \in 1 .. m2
        PROVE  L[i] # M2[j]
    <3>1. j + 1 \in 1 .. m /\ M2[j] = M[j + 1]
      BY <1>11
    <3> QED
      BY <1>2, <3>1 DEF Shape
  <2> QED
    BY <1>10, <2>1, <2>2
<1>24. Shape(k, L, m2, M2)'
  BY <1>16, <1>17, <1>19, <1>20, <1>21, <1>22, <1>23 DEF Shape
<1> QED
  BY <1>1, <1>14, <1>15, <1>24, SameCounts DEF IInv

LEMMA LinkTailStep == IInv /\ LinkTail /\ InCall => IInv'
<1> USE DEF LinkTail
<1>1. SUFFICES ASSUME IInv, LinkTail, InCall PROVE IInv'
  OBVIOUS
<1>2. PICK k, L, m, M : Shape(k, L, m, M)
  BY <1>1 DEF IInv
<1> DEFINE S == Members(k, L) \cup Members(m, M)
<1>3. TypeOK /\ Control
  BY <1>1 DEF IInv
<1>4. pc = "link tail" /\ pc' = "move tail" /\ cmd = "it" /\ q # NULL
  BY <1>1, <1>2, <1>3 DEF Control, Result, Shape
<1>5. /\ UNCHANGED <<Turning, Out, Ahead, Behind, Room, Early, More, Fewer>>
      /\ In = 0 /\ In' = 1 /\ Late = 0 /\ Late' = 1
  BY <1>1, <1>4 DEF Turning, Out, In, Ahead, Behind, Room, Late, Early, More, Fewer,
     One, Unlinked, Shrunk, Removed, Linked, Grown
<1>6. /\ (Live' <=> Live) /\ ((Taking \/ Cleared)' <=> (Taking \/ Cleared))
      /\ size' = size /\ UNCHANGED <<qcnt, alarms, held, cmd>>
  BY <1>1, <1>4 DEF Live, HasQueue, Taking, Cleared
<1>7. ele \in Elements \ S /\ next[ele] = NULL
  BY <1>2, <1>3, <1>4 DEF Shape, Control
<1>8. tail \in Elements
  <2>1. <<"ele", tail>> \in Blocks
    BY <1>1, <1>3, <1>4 DEF Touched, TypeOK, HarnessTypeOK
  <2> QED
    BY <2>1 DEF Blocks
<1>9. Whole => k > 0 /\ k \in 1 .. k /\ tail = L[k]
  <2>1. Whole => k > 0 /\ tail = L[k]
    BY <1>2, <1>4 DEF Shape, Tails
  <2>2. k \in Nat
    BY <1>2, Starts
  <2> QED
    BY <2>1, <2>2
<1>10. Rest = NULL /\ m = 0 /\ Members(m, M) = {}
  <2>1. Rest = NULL
    BY <1>4 DEF Rest, Taking
  <2>2. Chain(next, Rest, m, M)
    BY <1>2 DEF Shape
  <2> QED
    BY <2>1, <2>2, ChainStart
<1>11. \E k2, L2 :
          /\ Chain(next', Front, k2, L2) /\ k2 <= k + 1
          /\ Members(k2, L2) \subseteq Members(k, L) \cup {ele}
          /\ (k \in 1 .. k /\ tail = L[k]) =>
                 /\ k2 = k + 1 /\ L2 = Joined(k, L, ele)
                 /\ Members(k2, L2) = Members(k, L) \cup {ele}
  <2>1. next \in Link
    BY <1>3 DEF TypeOK, Link
  <2>2. Chain(next, Front, k, L) /\ ele \in Elements /\ ele \notin Members(k, L)
    BY <1>2, <1>7 DEF Shape
  <2>3. next' = [next EXCEPT ![tail] = ele]
    BY <1>1
  <2>4. CASE k \in 1 .. k /\ tail = L[k]
    <3>1. /\ Chain(next', Front, k + 1, Joined(k, L, ele))
          /\ Members(k + 1, Joined(k, L, ele)) = Members(k, L) \cup {ele}
      BY <1>7, <2>1, <2>2, <2>3, <2>4, ChainJoin
    <3>2. k + 1 <= k + 1
      BY <2>2 DEF Chain
    <3> QED
      BY <3>1, <3>2
  <2>5. CASE ~(k \in 1 .. k /\ tail = L[k]) /\ \E i \in 1 .. k : tail = L[i]
    <3>1. PICK i \in 1 .. k : tail = L[i]
      BY <2>5
    <3>2. /\ Chain(next', Front, i + 1, Joined(i, L, ele))
          /\ Members(i + 1, Joined(i, L, ele)) \subseteq Members(k, L) \cup {ele}
      BY <1>7, <2>1, <2>2, <2>3, <3>1, ChainJoin
    <3>3. i + 1 <= k + 1
      BY <2>2 DEF Chain
    <3> QED
      BY <2>5, <3>2, <3>3
  <2>6. CASE ~\E i \in 1 .. k : tail = L[i]
    <3>1. tail \notin Members(k, L)
      BY <2>6 DEF Members
    <3>2. Chain(next', Front, k, L)
      BY <2>1, <2>2, <2>3, <3>1, ChainFrame
    <3>3. k <= k + 1
      BY <2>2 DEF Chain
    <3> QED
      BY <2>6, <3>2, <3>3
  <2> QED
    BY <2>4, <2>5, <2>6
<1>12. PICK k2, L2 :
          /\ Chain(next', Front, k2, L2) /\ k2 <= k + 1
          /\ Members(k2, L2) \subseteq Members(k, L) \cup {ele}
          /\ (k \in 1 .. k /\ tail = L[k]) =>
                 /\ k2 = k + 1 /\ L2 = Joined(k, L, ele)
                 /\ Members(k2, L2) = Members(k, L) \cup {ele}
  BY <1>11
<1>13. /\ Chain(next', Front', k2, L2) /\ k2 <= k + 1 /\ Chain(next', Rest', m, M)
       /\ Members(k2, L2) \subseteq Members(k, L) \cup {ele} /\ m = 0
       /\ Whole => k2 = k + 1 /\ Members(k2, L2) = Members(k, L) \cup {ele}
  <2>1. Front' = Front /\ Rest' = Rest
    BY <1>1, <1>4 DEF Front, Rest, Live, HasQueue, Taking, Cleared
  <2>2. Chain(next', Rest, m, M)
    <3>1. Chain(next, Rest, m, M)
      BY <1>2 DEF Shape
    <3>2. \A i \in 1 .. m : FALSE
      BY <1>10
    <3> QED
      BY <1>10, <3>1, <3>2 DEF Chain
  <2> QED
    BY <1>12, <1>9, <1>10, <2>1, <2>2
<1>14. Whole => /\ k \in Nat /\ k > 0 /\ k2 = k + 1 /\ k2 > 1 /\ k2 > 0 /\ k2 - 1 = k
              /\ L2[k2] = ele /\ L2[k2 - 1] = L[k] /\ \A j \in 1 .. k : L2[j] = L[j]
  <2>1. Whole => k2 = k + 1 /\ L2 = Joined(k, L, ele) /\ k > 0 /\ k \in 1 .. k
    BY <1>12, <1>9
  <2>2. k \in Nat
    BY <1>2, Starts
  <2>3. Joined(k, L, ele)[k + 1] = ele /\ \A j \in 1 .. k : Joined(k, L, ele)[j] = L[j]
    BY <2>2 DEF Joined
  <2> QED
    BY <2>1, <2>2, <2>3
<1>15. alarms = 0 => Whole
  BY <1>3, <1>4 DEF Control, Whole, Live, HasQueue, Taking, Cleared
<1>16. TypeOK'
  BY <1>1, <1>3, <1>4, <1>8 DEF TypeOK, Labels
<1>17. Control'
  BY <1>1, <1>3, <1>4, <1>8 DEF Control, Result
<1>18. Chain(next, Front, k2, L2)' /\ Chain(next, Rest, m, M)'
  BY <1>1, <1>2, <1>13 DEF Shape
<1>19. Books(Members(k2, L2) \cup Members(m, M))'
  <2> DEFINE T == Members(k2, L2) \cup Members(m, M)
  <2>1. Pending = {<<"ele", ele>>, <<"value", ele>>} /\ Pending' = {}
    BY <1>1, <1>4 DEF Pending
  <2>2. T \subseteq S \cup {ele} /\ (alarms = 0 => T = S \cup {ele})
    BY <1>13, <1>15, <1>9
  <2>3. (HasQueue' <=> HasQueue) /\ q' = q
    BY <1>1, <1>4 DEF HasQueue, Cleared
  <2>4. Books(S) /\ UNCHANGED <<Known, allocated_count, counting, alarms>>
    BY <1>1, <1>2 DEF Shape
  <2> HIDE DEF S, T
  <2>5. Pending' \cup ({"ele", "value"} \X (S \cup {ele})) = Pending \cup ({"ele", "value"} \X S)
    BY <2>1
  <2>6. PICK U : U = S \cup {ele}
    OBVIOUS
  <2>7. Owned(U)' = Owned(S)
    BY <2>3, <2>5, <2>6 DEF Owned
  <2>8. Owned(T)' \subseteq Owned(U)' /\ (alarms = 0 => Owned(T)' = Owned(U)')
    BY <2>2, <2>6 DEF Owned
  <2>9. Owned(T)' \subseteq Owned(S) /\ (alarms = 0 => Owned(T)' = Owned(S))
    BY <2>7, <2>8
  <2>10. Books(T)'
    BY <1>3, <2>4, <2>9, BooksDrop
  <2> QED
    BY <2>10 DEF T
<1>20. EleBlocks(Known') = EleBlocks(Known)
  BY <1>1
<1>21. Numbers(k2, m)'
  <2>1. Numbers(k, m) /\ k \in Nat /\ m \in Nat
    BY <1>2, Starts DEF Shape
  <2>2. /\ qcnt \in Int /\ size \in Nat /\ alarms \in Nat
        /\ Cardinality(EleBlocks(Known)) \in Nat
    BY <1>3, Numeric
  <2>3. k2 \in Nat /\ k2 <= k + 1
    BY <1>13 DEF Chain
  <2>4. k2 + m + Turning' + Out' <= qcnt' + In' + alarms'
    BY <1>6, <1>5, <2>1, <2>2, <2>3, Bits DEF Numbers
  <2>5. ~(Taking \/ Cleared)'
           => qcnt' + Ahead' <= Cardinality(EleBlocks(Known')) + alarms' + Behind'
    BY <1>6, <1>5, <1>20, <2>1, <2>2, Bits DEF Numbers
  <2>6. Live' => size' + Room' <= Cardinality(EleBlocks(Known'))
    BY <1>6, <1>5, <1>20, <2>1, <2>2, Bits DEF Numbers
  <2> QED
    BY <2>4, <2>5, <2>6 DEF Numbers, EleBlocks
<1>22. Whole' => Sizes(k2, m)'
  <2>1. /\ Whole => Sizes(k, m) /\ k2 = k + 1
        /\ k \in Nat /\ m \in Nat
    BY <1>2, <1>9, <1>13, Starts DEF Shape
  <2>2. qcnt \in Int /\ size \in Nat
    BY <1>3, Numeric
  <2>3. Whole' => Whole
    BY <1>6 DEF Whole
  <2>4. Sizes(k, m) /\ k2 = k + 1 => size' + Late' = k2 + m + Turning' + Early'
    BY <1>6, <1>5, <2>1, <2>2, Bits DEF Sizes
  <2>5. Sizes(k, m) => (cmd' # "new" => qcnt' + More' = size' + Fewer')
    BY <1>6, <1>5, <2>1, <2>2, Bits DEF Sizes
  <2> QED
    BY <2>1, <2>3, <2>4, <2>5 DEF Sizes
<1>23. Whole' => Tails(k2, L2, m, M)'
  <2>1. Whole' => Whole
    BY <1>6 DEF Whole
  <2>2. tail' = tail /\ ele' = ele
    BY <1>1
  <2>3. Whole' => k2 > 1 /\ k2 > 0 /\ tail' = L2[k2 - 1] /\ ele' = L2[k2]
    BY <1>14, <1>9, <2>1, <2>2
  <2>4. pc' = "move tail" /\ cmd' = "it"
    BY <1>4, <1>6
  <2> QED
    BY <2>3, <2>4, TailsMoveTail, Zenon
<1>24. Whole' => Says(k2, L2, m, M)'
  <2>1. Whole' => Whole /\ Says(k, L, m, M)
    BY <1>2, <1>6 DEF Shape, Whole
  <2>2. Says(k, L, m, M) => held = [j \in 1 .. k |-> value[L[j]]] /\ value[ele] = str
    BY <1>4 DEF Says, Linked, Grown, Unlinked, Shrunk, Removed
  <2>3. Whole => [j \in 1 .. k |-> value[L[j]]] = [j \in 1 .. k2 - 1 |-> value[L2[j]]]
    <3>1. Whole => k2 - 1 = k
      BY <1>14, <1>9
    <3>2. Whole => \A j \in 1 .. k : L2[j] = L[j]
      BY <1>14, <1>9
    <3> QED
      BY <3>1, <3>2
  <2>4. value' = value /\ str' = str
    BY <1>1
  <2>5. Whole' => held' = [j \in 1 .. k2 - 1 |-> value'[L2[j]]]
    BY <1>6, <2>1, <2>2, <2>3, <2>4
  <2>6. Whole' => value'[L2[k2]] = str'
    BY <1>14, <1>9, <2>1, <2>2, <2>4
  <2>7. pc' = "move tail" /\ cmd' = "it"
    BY <1>4, <1>6
  <2> QED
    BY <2>5, <2>6, <2>7, SaysMoveTail, Zenon
<1>25. /\ pc' \in EleInHand => ele' \in Elements \ (Members(k2, L2) \cup Members(m, M))
       /\ \A i \in 1 .. k2, j \in 1 .. m : L2[i] # M[j]
  <2>1. pc' \notin EleInHand
    BY <1>4
  <2>2. \A j \in 1 .. m : FALSE
    BY <1>13
  <2> QED
    BY <2>1, <2>2
<1>26. Shape(k2, L2, m, M)'
  BY <1>18, <1>19, <1>21, <1>22, <1>23, <1>24, <1>25 DEF Shape
<1> QED
  BY <1>1, <1>16, <1>17, <1>26, SameCounts DEF IInv

LEMMA q_freeStep == IInv /\ q_free /\ InCall => IInv'
<1> USE DEF q_free
<1>1. SUFFICES ASSUME IInv, q_free, InCall PROVE IInv'
  OBVIOUS
<1>2. PICK k, L, m, M : Shape(k, L, m, M)
  BY <1>1 DEF IInv
<1> DEFINE S == Members(k, L) \cup Members(m, M)
<1>3. TypeOK /\ Control
  BY <1>1 DEF IInv
<1>4. pc = "q_free" /\ pc' \in {"free next", "cancel"} /\ cmd \in {"free", "renew", "quit"} /\ (pc' = "cancel" <=> q = NULL)
  BY <1>1, <1>2, <1>3 DEF Control, Result, Shape
<1>5. UNCHANGED <<Turning, Out, In, Ahead, Behind, Room, Late, Early, More, Fewer>>
  BY <1>1, <1>4 DEF Turning, Out, In, Ahead, Behind, Room, Late, Early, More, Fewer,
     One, Unlinked, Shrunk, Removed, Linked, Grown
<1>6. /\ ~Live' /\ (Taking \/ Cleared)'
      /\ UNCHANGED <<qcnt, alarms, held, cmd>>
  BY <1>1, <1>4 DEF Live, HasQueue, Taking, Cleared
<1>7. ptr' = head /\ head \in Elements \cup {NULL}
  BY <1>1, <1>3 DEF TypeOK
<1>8. PICK k2, L2, m2, M2 : k2 = 0 /\ L2 = Nothing /\ m2 = k /\ M2 = L
  OBVIOUS
<1>9. k2 = 0
  BY <1>8
<1>10. /\ Chain(next, Front', k2, L2) /\ Chain(next, Rest', m2, M2)
       /\ Members(k2, L2) = {} /\ Members(m, M) = {} /\ m = 0 
  <2>1. Front' = NULL /\ Rest' = Front /\ Rest = NULL 
    BY <1>1, <1>3, <1>4 DEF Front, Rest, Live, HasQueue, Taking, Cleared
  <2>2. Chain(next, Front, k, L) /\ Chain(next, Rest, m, M)
    BY <1>2 DEF Shape
  <2>3. m = 0 /\ Members(m, M) = {}
    BY <2>1, <2>2, ChainStart
  <2> QED
    BY <1>8, <2>1, <2>2, <2>3, ChainNone
<1>11. TypeOK'
  BY <1>1, <1>3, <1>4, <1>7 DEF TypeOK, Labels
<1>12. Control'
  BY <1>1, <1>3, <1>4, <1>7 DEF Control, Result
<1>13. Chain(next, Front, k2, L2)' /\ Chain(next, Rest, m2, M2)'
  BY <1>1, <1>10
<1>14. Books(Members(k2, L2) \cup Members(m2, M2))'
  <2>1. Members(k2, L2) \cup Members(m2, M2) = S
    BY <1>8, <1>10
  <2>2. Owned(S)' = Owned(S)
    BY <1>1, <1>4 DEF Owned, Pending, HasQueue, Cleared
  <2>3. Books(S)'
    BY <1>1, <1>2, <2>2 DEF Shape, Books
  <2> QED
    BY <2>1, <2>3
<1>15. EleBlocks(Known') = EleBlocks(Known)
  BY <1>1
<1>16. Numbers(k2, m2)'
  <2>1. Numbers(k, m) /\ k \in Nat /\ m \in Nat
    BY <1>2, Starts DEF Shape
  <2>2. qcnt \in Int /\ alarms \in Nat
    BY <1>3, Numeric
  <2>3. k2 + m2 + Turning' + Out' <= qcnt' + In' + alarms'
    BY <1>6, <1>5, <1>8, <1>10, <2>1, <2>2, Bits DEF Numbers
  <2> QED
    BY <1>6, <2>3 DEF Numbers
<1>17. Whole' => Sizes(k2, m2)'
  BY <1>6 DEF Whole
<1>18. Whole' => Tails(k2, L2, m2, M2)'
  BY <1>6 DEF Whole
<1>19. Whole' => Says(k2, L2, m2, M2)'
  BY <1>6 DEF Whole
<1>20. /\ pc' \in EleInHand => ele' \in Elements \ (Members(k2, L2) \cup Members(m2, M2))
       /\ \A i \in 1 .. k2, j \in 1 .. m2 : L2[i] # M2[j]
  <2>1. pc' \notin EleInHand
    BY <1>4
  <2>2. \A i \in 1 .. k2 : FALSE
    BY <1>9
  <2> QED
    BY <2>1, <2>2
<1>21. Shape(k2, L2, m2, M2)'
  BY <1>13, <1>14, <1>16, <1>17, <1>18, <1>19, <1>20 DEF Shape
<1> QED
  BY <1>1, <1>11, <1>12, <1>21, SameCounts DEF IInv

LEMMA FreeNextStep == IInv /\ FreeNext /\ InCall => IInv'
<1> USE DEF FreeNext
<1>1. SUFFICES ASSUME IInv, FreeNext, InCall PROVE IInv'
  OBVIOUS
<1>2. PICK k, L, m, M : Shape(k, L, m, M)
  BY <1>1 DEF IInv
<1> DEFINE S == Members(k, L) \cup Members(m, M)
<1>3. TypeOK /\ Control
  BY <1>1 DEF IInv
<1>4. pc = "free next" /\ pc' = "free value" /\ cmd \in {"free", "renew", "quit"} /\ q # NULL
  BY <1>1, <1>2, <1>3 DEF Control, Result, Shape
<1>5. UNCHANGED <<Turning, Out, In, Ahead, Behind, Room, Late, Early, More, Fewer>>
  BY <1>1, <1>4 DEF Turning, Out, In, Ahead, Behind, Room, Late, Early, More, Fewer,
     One, Unlinked, Shrunk, Removed, Linked, Grown
<1>6. /\ ~Live' /\ (Taking \/ Cleared)'
      /\ UNCHANGED <<qcnt, alarms, held, cmd>>
  BY <1>1, <1>4 DEF Live, HasQueue, Taking, Cleared
<1>7. PICK m2, M2 : m2 = m - 1 /\ M2 = Popped(m, M)
  OBVIOUS
<1>8. /\ Chain(next, Rest', m2, M2) /\ Members(m2, M2) = Members(m, M) \ {ele'}
      /\ ele' = ptr /\ ele' \in Members(m, M) /\ ele' \in Elements /\ M[1] = ele'
      /\ Chain(next, Front', k, L)
  <2>1. ele' = ptr /\ ptr # NULL
    BY <1>1
  <2>2. Rest = ptr /\ Rest' = next[ptr] /\ Front' = Front
    BY <1>1, <1>4 DEF Rest, Front, Live, Taking
  <2>3. Chain(next, ptr, m, M) /\ Chain(next, Front, k, L)
    BY <1>2, <2>2 DEF Shape
  <2> QED
    BY <1>7, <2>1, <2>2, <2>3, ChainPop, ChainStart
<1>9. m2 + 1 = m /\ m \in Nat /\ m2 \in Nat
  BY <1>7, <1>8, <1>2, Starts DEF Chain
<1>10. ele' \notin Members(k, L)
  <2>1. M[1] = ele' /\ 1 \in 1 .. m
    BY <1>9, <1>8
  <2> QED
    BY <1>2, <2>1 DEF Shape, Members
<1>11. \A i \in 1 .. m2 : i + 1 \in 1 .. m /\ M2[i] = M[i + 1]
  BY <1>7, <1>9 DEF Popped
<1>12. ptr' \in Elements \cup {NULL} /\ ele' \in Elements
  BY <1>1, <1>3, <1>8 DEF TypeOK
<1>13. TypeOK'
  BY <1>1, <1>3, <1>4, <1>12 DEF TypeOK, Labels
<1>14. Control'
  <2>1. Result'
    BY <1>1, <1>3, <1>4 DEF Control, Result
  <2>2. counting' # 1 /\ counting' # -1
    <3>1. counting' = counting /\ counting = 0
      BY <1>1
    <3> QED
      BY <3>1, Signs
  <2>3. /\ pc' = "free value" /\ UNCHANGED <<cmd, q, held, alarms, str>>
        /\ ptr' \in Elements \cup {NULL}
    BY <1>1, <1>12
  <2> HIDE DEF FreeNext, InCall
  <2> QED
    BY <1>3, <1>4, <2>1, <2>2, <2>3 DEF Control
<1>15. Chain(next, Front, k, L)' /\ Chain(next, Rest, m2, M2)'
  BY <1>1, <1>8
<1>16. Books(Members(k, L) \cup Members(m2, M2))'
  <2> DEFINE T == Members(k, L) \cup Members(m2, M2)
  <2>1. Pending = {} /\ Pending' = {<<"ele", ele'>>, <<"value", ele'>>}
    BY <1>1, <1>4 DEF Pending
  <2>2. S = T \cup {ele'}
    BY <1>8, <1>10
  <2>3. (HasQueue' <=> HasQueue) /\ q' = q
    BY <1>1, <1>4 DEF HasQueue, Cleared
  <2> HIDE DEF S, T
  <2>4. Owned(T)' = Owned(S)
    <3>1. Pending' \cup ({"ele", "value"} \X T) = Pending \cup ({"ele", "value"} \X S)
      BY <2>1, <2>2
    <3> QED
      BY <2>3, <3>1 DEF Owned
  <2>5. Books(S)
    BY <1>2 DEF Shape, S
  <2>6. Books(T)'
    BY <1>1, <2>4, <2>5 DEF Books
  <2> QED
    BY <2>6 DEF T
<1>17. EleBlocks(Known') = EleBlocks(Known)
  BY <1>1
<1>18. Numbers(k, m2)'
  <2>1. Numbers(k, m) /\ k \in Nat /\ m \in Nat
    BY <1>2, Starts DEF Shape
  <2>2. qcnt \in Int /\ alarms \in Nat
    BY <1>3, Numeric
  <2>3. k + m2 + Turning' + Out' <= qcnt' + In' + alarms'
    BY <1>6, <1>5, <1>9, <2>1, <2>2, Bits DEF Numbers
  <2> QED
    BY <1>6, <2>3 DEF Numbers
<1>19. Whole' => Sizes(k, m2)'
  BY <1>6 DEF Whole
<1>20. Whole' => Tails(k, L, m2, M2)'
  BY <1>6 DEF Whole
<1>21. Whole' => Says(k, L, m2, M2)'
  BY <1>6 DEF Whole
<1>22. /\ pc' \in EleInHand => ele' \in Elements \ (Members(k, L) \cup Members(m2, M2))
       /\ \A i \in 1 .. k, j \in 1 .. m2 : L[i] # M2[j]
  <2>1. ele' \in Elements /\ ele' \notin Members(m2, M2)
    BY <1>8, <1>10
  <2>2. ASSUME NEW i \in 1 .. k, NEW j \in 1 .. m2
        PROVE  L[i] # M2[j]
    <3>1. j + 1 \in 1 .. m /\ M2[j] = M[j + 1]
      BY <1>11
    <3> QED
      BY <1>2, <3>1 DEF Shape
  <2> QED
    BY <1>10, <2>1, <2>2
<1>23. Shape(k, L, m2, M2)'
  BY <1>15, <1>16, <1>18, <1>19, <1>20, <1>21, <1>22 DEF Shape
<1> QED
  BY <1>1, <1>13, <1>14, <1>23, SameCounts DEF IInv

LEMMA FreeQueueStep == IInv /\ FreeQueue /\ InCall => IInv'
<1> USE DEF FreeQueue, Gives
<1>1. SUFFICES ASSUME IInv, FreeQueue, InCall, Gives(<<"queue", q>>) PROVE IInv'
  BY IsGiven
<1>2. PICK k, L, m, M : Shape(k, L, m, M)
  BY <1>1 DEF IInv
<1> DEFINE S == Members(k, L) \cup Members(m, M)
<1>3. TypeOK /\ Control
  BY <1>1 DEF IInv
<1>4. pc = "free next" /\ pc' = "cancel" /\ cmd \in {"free", "renew", "quit"} /\ q # NULL
  BY <1>1, <1>2, <1>3 DEF Control, Result, Shape
<1>5. UNCHANGED <<Turning, Out, In, Ahead, Behind, Room, Late, Early, More, Fewer>>
  BY <1>1, <1>4 DEF Turning, Out, In, Ahead, Behind, Room, Late, Early, More, Fewer,
     One, Unlinked, Shrunk, Removed, Linked, Grown
<1>6. /\ ~Live' /\ (Taking \/ Cleared)'
      /\ UNCHANGED <<qcnt, alarms, held, cmd>>
  BY <1>1, <1>4 DEF Live, HasQueue, Taking, Cleared
<1>7. q \in Queues
  BY <1>3, <1>4 DEF TypeOK
<1>8. Known' \subseteq Blocks
  <2>1. <<"queue", q>> \in Blocks /\ Known \subseteq Blocks
    BY <1>3, <1>7 DEF TypeOK, Blocks
  <2> QED
    BY <1>1, <2>1
<1>9. 0 \in 0 .. Cardinality(Elements)
  <2>1. Cardinality(Elements) \in Nat
    BY <1>3, Numeric
  <2> QED
    BY <2>1
<1>10. TypeOK'
  BY <1>1, <1>3, <1>4, <1>9, <1>7, Signs, <1>8 DEF TypeOK, Labels
<1>11. Control'
  BY <1>1, <1>3, <1>4, Signs DEF Control, Result
<1>12. Chain(next, Front, k, L)' /\ Chain(next, Rest, m, M)'
  <2>1. Front = NULL /\ Rest = NULL /\ Front' = NULL /\ Rest' = NULL
    BY <1>1, <1>4 DEF Front, Rest, Live, HasQueue, Taking, Cleared
  <2> QED
    BY <1>1, <1>2, <2>1 DEF Shape
<1>13. Books(S)'
  <2>1. Owned(S) = {<<"queue", q>>}
    <3>1. Front = NULL /\ Rest = NULL
      BY <1>1, <1>4 DEF Front, Rest, Live, HasQueue, Taking, Cleared
    <3>2. Chain(next, Front, k, L) /\ Chain(next, Rest, m, M)
      BY <1>2 DEF Shape
    <3>3. S = {}
      BY <3>1, <3>2, ChainStart
    <3>4. Pending = {} /\ HasQueue
      BY <1>1, <1>4 DEF Pending, HasQueue, Cleared
    <3> HIDE DEF S
    <3> QED
      BY <3>3, <3>4 DEF Owned
  <2>2. Owned(S)' = {}
    <3>1. Front = NULL /\ Rest = NULL
      BY <1>1, <1>4 DEF Front, Rest, Live, HasQueue, Taking, Cleared
    <3>2. Chain(next, Front, k, L) /\ Chain(next, Rest, m, M)
      BY <1>2 DEF Shape
    <3>3. S = {}
      BY <3>1, <3>2, ChainStart
    <3>4. Pending' = {} /\ ~HasQueue'
      BY <1>1, <1>4 DEF Pending, HasQueue, Cleared
    <3> HIDE DEF S
    <3> QED
      BY <3>3, <3>4 DEF Owned
  <2>3. Books(S)
    BY <1>2 DEF Shape
  <2>4. Gives(<<"queue", q>>) /\ counting = 0 /\ UNCHANGED alarms
    BY <1>1
  <2> HIDE DEF S, Gives
  <2> QED
    BY <1>3, <2>1, <2>2, <2>3, <2>4, BooksFree
<1>14. EleBlocks(Known') = EleBlocks(Known)
  BY <1>1, EleSame
<1>15. Numbers(k, m)'
  <2>1. Numbers(k, m) /\ k \in Nat /\ m \in Nat
    BY <1>2, Starts DEF Shape
  <2>2. qcnt \in Int /\ alarms \in Nat
    BY <1>3, Numeric
  <2>3. k + m + Turning' + Out' <= qcnt' + In' + alarms'
    BY <1>6, <1>5, <2>1, <2>2, Bits DEF Numbers
  <2> QED
    BY <1>6, <2>3 DEF Numbers
<1>16. Whole' => Sizes(k, m)'
  BY <1>6 DEF Whole
<1>17. Whole' => Tails(k, L, m, M)'
  BY <1>6 DEF Whole
<1>18. Whole' => Says(k, L, m, M)'
  BY <1>6 DEF Whole
<1>19. /\ pc' \in EleInHand => ele' \in Elements \ S
       /\ \A i \in 1 .. k, j \in 1 .. m : L[i] # M[j]
  BY <1>1, <1>2, <1>4 DEF Shape
<1> HIDE DEF FreeQueue, Gives
<1>20. Shape(k, L, m, M)'
  BY <1>12, <1>13, <1>15, <1>16, <1>17, <1>18, <1>19 DEF Shape
<1> QED
  BY <1>1, <1>10, <1>11, <1>20, SameCounts DEF IInv

LEMMA AssignStep == IInv /\ Assign /\ InCall => IInv'
<1> USE DEF Assign
<1>1. SUFFICES ASSUME IInv, Assign, InCall PROVE IInv'
  OBVIOUS
<1>2. PICK k, L, m, M : Shape(k, L, m, M)
  BY <1>1 DEF IInv
<1> DEFINE S == Members(k, L) \cup Members(m, M)
<1>3. TypeOK /\ Control
  BY <1>1 DEF IInv
<1>4. pc = "assign" /\ pc' = "cancel" /\ cmd = "new" /\ q = NULL
  BY <1>1, <1>2, <1>3 DEF Control, Result, Shape
<1>5. UNCHANGED <<Turning, Out, In, Ahead, Behind, Room, Late, Early, More, Fewer>>
  BY <1>1, <1>4 DEF Turning, Out, In, Ahead, Behind, Room, Late, Early, More, Fewer,
     One, Unlinked, Shrunk, Removed, Linked, Grown
<1>6. ptr \in Queues /\ ptr # NULL
  BY <1>3, <1>4, QueueAssumption DEF Control
<1>7. /\ Live' /\ ~(Taking \/ Cleared)' /\ ~(Taking \/ Cleared)
      /\ size' = 0 /\ UNCHANGED <<qcnt, alarms, held, cmd>>
  <2>1. ~Taking /\ ~Cleared /\ ~Taking' /\ ~Cleared'
    BY <1>1, <1>4 DEF Taking, Cleared
  <2>2. size' = 0 /\ UNCHANGED <<qcnt, alarms, held, cmd>> /\ q' # NULL
    BY <1>1, <1>6
  <2> QED
    BY <2>1, <2>2 DEF Live, HasQueue
<1>8. 0 \in 0 .. Cardinality(Elements)
  <2>1. Cardinality(Elements) \in Nat
    BY <1>3, Numeric
  <2> QED
    BY <2>1
<1>9. k = 0 /\ m = 0
  <2>1. Front = NULL /\ Rest = NULL
    BY <1>4 DEF Front, Rest, Live, HasQueue, Taking
  <2> QED
    BY <1>2, <2>1, Starts
<1>10. TypeOK'
  BY <1>1, <1>3, <1>4, <1>6, <1>8 DEF TypeOK, Labels
<1>11. Control'
  BY <1>1, <1>3, <1>4, <1>6 DEF Control, Result
<1>12. Chain(next, Front, k, L)' /\ Chain(next, Rest, m, M)'
  <2>1. Front = NULL /\ Rest = NULL /\ Front' = NULL /\ Rest' = NULL
    BY <1>1, <1>4 DEF Front, Rest, Live, HasQueue, Taking, Cleared
  <2> QED
    BY <1>1, <1>2, <2>1 DEF Shape
<1>13. Books(S)'
  <2>1. Pending = {<<"queue", ptr>>} /\ ~HasQueue /\ Pending' = {} /\ HasQueue' /\ q' = ptr
    BY <1>1, <1>4, <1>6 DEF Pending, HasQueue, Cleared
  <2> HIDE DEF S
  <2>2. Owned(S)' = Owned(S)
    BY <2>1 DEF Owned
  <2>3. Books(S)
    BY <1>2 DEF Shape, S
  <2> QED
    BY <1>1, <2>2, <2>3 DEF Books
<1>14. EleBlocks(Known') = EleBlocks(Known)
  BY <1>1
<1>15. Numbers(k, m)'
  <2>1. Numbers(k, m) /\ k \in Nat /\ m \in Nat
    BY <1>2, Starts DEF Shape
  <2>2. /\ qcnt \in Int /\ alarms \in Nat
        /\ Cardinality(EleBlocks(Known)) \in Nat
    BY <1>3, Numeric
  <2>3. k + m + Turning' + Out' <= qcnt' + In' + alarms'
    BY <1>7, <1>5, <2>1, <2>2, Bits DEF Numbers
  <2>4. ~(Taking \/ Cleared)'
           => qcnt' + Ahead' <= Cardinality(EleBlocks(Known')) + alarms' + Behind'
    BY <1>7, <1>5, <1>14, <2>1, <2>2, Bits DEF Numbers
  <2>5. Room' = 0
    BY <1>4 DEF Room, One, Shrunk, Removed
  <2>6. size' + Room' <= Cardinality(EleBlocks(Known'))
    BY <1>7, <1>14, <2>2, <2>5
  <2> QED
    BY <2>3, <2>4, <2>6 DEF Numbers, EleBlocks
<1>16. Whole' => Sizes(k, m)'
  <2>1. k = 0 /\ m = 0
    BY <1>9
  <2>2. Late' = 0 /\ Turning' = 0 /\ Early' = 0
    BY <1>4 DEF Late, Turning, Early, One, Linked, Grown
  <2> QED
    BY <1>4, <1>7, <2>1, <2>2 DEF Sizes
<1>17. Whole' => Tails(k, L, m, M)'
  <2>1. tail' = NULL
    BY <1>1
  <2> QED
    BY <1>4, <1>7, <1>9, <2>1 DEF Tails, Linked, Grown
<1>18. Whole' => Says(k, L, m, M)'
  BY <1>4, <1>7 DEF Says
<1>19. /\ pc' \in EleInHand => ele' \in Elements \ S
       /\ \A i \in 1 .. k, j \in 1 .. m : L[i] # M[j]
  BY <1>1, <1>2, <1>4 DEF Shape
<1> HIDE DEF Assign
<1>20. Shape(k, L, m, M)'
  BY <1>12, <1>13, <1>15, <1>16, <1>17, <1>18, <1>19 DEF Shape
<1> QED
  BY <1>1, <1>10, <1>11, <1>20, SameCounts DEF IInv

-----------------------------------------------------------------------------
(* The commands.                                                           *)
USE DEF NewEle, EleInHand, BothInHand, Freeing, Inserting, counters, element, queue, harness, calls

(* The first i elements of a list.                                         *)
Prefix(L, i) == [j \in 1 .. i |-> L[j]]

LEMMA PrefixIs ==
    ASSUME NEW L, NEW i \in Nat, NEW k \in Nat, i <= k, L \in [1 .. k -> Elements]
    PROVE  /\ Prefix(L, i) \in Seq(Elements) /\ Len(Prefix(L, i)) = i
           /\ \A j \in 1 .. i : Prefix(L, i)[j] = L[j]
           /\ Prefix(L, i) = <<>> <=> i = 0
           /\ i < k => Append(Prefix(L, i), L[i + 1]) = Prefix(L, i + 1)
<1>1. Prefix(L, i) \in Seq(Elements) /\ Len(Prefix(L, i)) = i
  BY DEF Prefix
<1>2. \A j \in 1 .. i : Prefix(L, i)[j] = L[j]
  BY DEF Prefix
<1>3. Prefix(L, i) = <<>> <=> i = 0
  BY <1>1
<1>4. ASSUME i < k PROVE Append(Prefix(L, i), L[i + 1]) = Prefix(L, i + 1)
  <2>1. L[i + 1] \in Elements /\ i + 1 \in Nat
    BY <1>4
  <2>2. Prefix(L, i + 1) \in Seq(Elements) /\ Len(Prefix(L, i + 1)) = i + 1
    BY <1>4 DEF Prefix
  <2>3. \A j \in 1 .. i + 1 : Prefix(L, i + 1)[j] = L[j]
    BY DEF Prefix
  <2>4. Append(Prefix(L, i), L[i + 1]) \in Seq(Elements)
    BY <1>1, <2>1
  <2>5. Len(Append(Prefix(L, i), L[i + 1])) = i + 1
    BY <1>1, <2>1
  <2>6. \A j \in 1 .. i + 1 : Append(Prefix(L, i), L[i + 1])[j] = L[j]
    BY <1>1, <1>2, <2>1
  <2> DEFINE a == Append(Prefix(L, i), L[i + 1])
             b == Prefix(L, i + 1)
  <2>7. a \in Seq(Elements) /\ b \in Seq(Elements) /\ Len(a) = Len(b)
        /\ \A j \in 1 .. Len(a) : a[j] = b[j]
    BY <2>2, <2>3, <2>4, <2>5, <2>6
  <2> HIDE DEF a, b
  <2>8. a = b
    BY <2>7, SeqEqual
  <2> QED
    BY <2>8 DEF a, b
<1> QED
  BY <1>1, <1>2, <1>3, <1>4

(* The list that List walks is the chain from the head.                    *)
LEMMA ListIs ==
    ASSUME NEW k, NEW L, Chain(next, head, k, L), q # NULL
    PROVE  List = L
<1> DEFINE N == Cardinality(Elements)
           Longer(path, n) ==
               LET e == IF path = <<>> THEN head ELSE next[path[Len(path)]]
               IN  IF e = NULL \/ Len(path) < n - 1 THEN path ELSE Append(path, e)
           Walks(w) == w = [n \in 0 .. N |-> IF n = 0 THEN <<>> ELSE Longer(w[n - 1], n)]
           W == CHOOSE w : Walks(w)
           F == [n \in 0 .. N |-> Prefix(L, IF n < k THEN n ELSE k)]
           Same == {n \in 0 .. N : W[n] = F[n]}
<1>1. N \in Nat /\ k \in Nat /\ k <= N /\ L \in [1 .. k -> Elements]
  <2>1. k <= N
    BY ChainIsShort
  <2> QED
    BY <2>1, BlocksFinite DEF Chain
<1>2. List = W[N]
  BY DEF List
<1>3. ASSUME NEW n \in 0 .. N, n # 0
      PROVE  F[n] = Longer(F[n - 1], n)
  <2> DEFINE i == IF n - 1 < k THEN n - 1 ELSE k
             p == Prefix(L, i)
  <2>1. i \in Nat /\ i <= k /\ F[n - 1] = p
    BY <1>1, <1>3
  <2>2. /\ p \in Seq(Elements) /\ Len(p) = i /\ (p = <<>> <=> i = 0)
        /\ \A j \in 1 .. i : p[j] = L[j]
        /\ i < k => Append(p, L[i + 1]) = Prefix(L, i + 1)
    BY <1>1, <2>1, PrefixIs
  <2>3. (IF p = <<>> THEN head ELSE next[p[Len(p)]]) = IF i = k THEN NULL ELSE L[i + 1]
    <3>1. CASE i = 0
      BY <2>2, <3>1 DEF Chain
    <3>2. CASE i # 0
      <4>1. i \in 1 .. k /\ i \in 1 .. i
        BY <1>1, <2>1, <3>2
      <4>2. p[Len(p)] = L[i]
        BY <2>2, <4>1
      <4> HIDE DEF i, p
      <4> QED
        BY <2>2, <3>2, <4>1, <4>2 DEF Chain
    <3> QED
      BY <3>1, <3>2
  <2>4. CASE n - 1 < k
    <3>1. i = n - 1 /\ i < k /\ i # k /\ L[i + 1] # NULL /\ ~(i < n - 1)
      BY <1>1, <1>3, <2>4, QueueAssumption
    <3>2. F[n] = Prefix(L, i + 1)
      BY <1>1, <1>3, <2>4
    <3> HIDE DEF i, p, F
    <3> QED
      BY <2>1, <2>2, <2>3, <3>1, <3>2
  <2>5. CASE ~(n - 1 < k)
    <3>1. i = k /\ F[n] = p
      BY <1>1, <1>3, <2>5
    <3> HIDE DEF i, p, F
    <3> QED
      BY <2>1, <2>3, <3>1
  <2> QED
    BY <2>4, <2>5
<1>4. F[0] = <<>>
  BY <1>1, PrefixIs DEF Prefix
<1>5. Walks(F)
  <2> HIDE DEF Longer
  <2> SUFFICES ASSUME NEW n \in 0 .. N
               PROVE  F[n] = IF n = 0 THEN <<>> ELSE Longer(F[n - 1], n)
    BY Zenon
  <2> HIDE DEF F
  <2> QED
    BY <1>3, <1>4
<1>6. Walks(W)
  <2> HIDE DEF Walks
  <2> QED
    BY <1>5
<1> HIDE DEF W
<1>7. \A n \in 0 .. N : W[n] = IF n = 0 THEN <<>> ELSE Longer(W[n - 1], n)
  <2> HIDE DEF Longer
  <2> QED
    BY <1>6
<1> HIDE DEF Walks
<1>8. 0 \in Same
  BY <1>1, <1>4, <1>7
<1>9. ASSUME NEW n \in 0 .. N - 1, n \in Same
      PROVE  n + 1 \in Same
  <2>1. n + 1 \in 0 .. N /\ (n + 1) - 1 = n /\ n + 1 # 0
    BY <1>1
  <2> HIDE DEF F, Longer
  <2> QED
    BY <1>3, <1>7, <1>9, <2>1
<1>10. N \in Same
  <2>1. \A n \in 0 .. N : n \in Same
    <3> HIDE DEF Same, N
    <3> QED
      BY <1>1, <1>8, <1>9, UpTo
  <2> QED
    BY <1>1, <2>1
<1>11. F[N] = L
  BY <1>1 DEF Prefix
<1> QED
  BY <1>2, <1>10, <1>11

-----------------------------------------------------------------------------
(* The end of a command, or of one of its calls.                           *)
LEMMA ContentsIs ==
    ASSUME TypeOK, NEW k, NEW L, Chain(next, head, k, L), q # NULL
    PROVE  /\ Contents = [j \in 1 .. k |-> value[L[j]]]
           /\ Contents \in Seq(Strings \cup {Blank})
           /\ Contents # NoQueue /\ Contents # Broken
<1>1. k \in Nat /\ L \in [1 .. k -> Elements]
  BY DEF Chain
<1>2. List = L /\ DOMAIN L = 1 .. k
  BY <1>1, ListIs
<1>3. Contents = [j \in 1 .. k |-> value[L[j]]]
  BY <1>2 DEF Contents
<1>4. \A j \in 1 .. k : value[L[j]] \in Strings \cup {Blank}
  BY <1>1 DEF TypeOK
<1>5. Contents \in Seq(Strings \cup {Blank})
  <2> DEFINE e(j) == value[L[j]]
  <2>1. \A j \in 1 .. k : e(j) \in Strings \cup {Blank}
    BY <1>4
  <2>2. [j \in 1 .. k |-> e(j)] \in Seq(Strings \cup {Blank})
    <3> HIDE DEF e
    <3> QED
      BY <1>1, <2>1
  <2> QED
    BY <1>3, <2>2
<1> QED
  BY <1>3, <1>5, QTestAssumption

LEMMA KeptIs ==
    ASSUME TypeOK, Control, NEW k, NEW L, q # NULL => Chain(next, head, k, L), held' = Kept
    PROVE  /\ q # NULL /\ held = Broken => held' = Broken
           /\ q = NULL => held' = NoQueue
           /\ q # NULL /\ held' # Broken => held' = [j \in 1 .. k |-> value[L[j]]]
           /\ alarms = 0 => held' # Broken
<1>1. alarms = 0 => held # Broken
  BY DEF Control
<1>2. NoQueue # Broken
  BY QTestAssumption
<1>3. CASE q = NULL
  BY <1>2, <1>3 DEF Kept
<1>4. CASE q # NULL
  BY <1>1, <1>4, ContentsIs DEF Kept
<1> QED
  BY <1>3, <1>4

(* Nothing is in hand between a call of the queue and the next: what a     *)
(* command's bookkeeping does then.                                        *)
LEMMA Settle ==
    ASSUME TypeOK, Control, NEW k, NEW L, NEW m, NEW M, Shape(k, L, m, M),
           pc \in {"cancel", "interrupted", "return"}, cmd \notin Freeing \cup {"none"},
           pc' \in {"prompt", "exit", "insert", "cancel"}, cmd' \in Inserting \cup {"none"},
           counting = 0,
           UNCHANGED <<next, value, q, head, tail, size, Known, allocated_count,
                       counting, alarms>>,
           qcnt' = IF cmd = "new" THEN 0 ELSE qcnt + In - Out,
           q # NULL /\ held = Broken => held' = Broken,
           q # NULL /\ held' # Broken => held' = [j \in 1 .. k |-> value[L[j]]]
    PROVE  /\ Shape(k, L, m, M)' /\ NotBelow'
           /\ qcnt' \in -MaxAlarms .. Cardinality(Elements) + MaxAlarms
<1> DEFINE S == Members(k, L) \cup Members(m, M)
<1>1. ~Taking /\ ~Cleared /\ ~Taking' /\ ~Cleared'
  BY DEF Taking, Cleared
<1>2. (HasQueue <=> q # NULL) /\ (HasQueue' <=> q # NULL) /\ (Live <=> q # NULL) /\ (Live' <=> q # NULL)
  BY <1>1 DEF HasQueue, Live
<1>3. Front' = Front /\ Rest = NULL /\ Rest' = NULL
  BY <1>1, <1>2 DEF Front, Rest
<1>4. Chain(next, Front, k, L)' /\ Chain(next, Rest, m, M)' /\ m = 0 /\ k \in Nat
  <2>1. Chain(next, Front, k, L) /\ Chain(next, Rest, m, M)
    BY DEF Shape
  <2> QED
    BY <1>3, <2>1, ChainStart
<1>5. Turning = 0 /\ Late = 0 /\ Early = 0 /\ Room = 0 /\ Ahead = In /\ Behind = Out /\ More = In /\ Fewer = Out
  BY DEF Turning, Late, Early, Room, Ahead, Behind, In, Out, More, Fewer, One,
     Unlinked, Shrunk, Removed, Linked, Grown
<1>6. /\ Turning' = 0 /\ Late' = 0 /\ Early' = 0 /\ Room' = 0 /\ Ahead' = 0 /\ Behind' = 0
      /\ More' = 0 /\ Fewer' = 0 /\ In' = 0 /\ Out' = 0
  BY DEF Turning, Late, Early, Room, Ahead, Behind, In, Out, More, Fewer, One,
     Unlinked, Shrunk, Removed, Linked, Grown
<1>7. Books(S)'
  <2>1. Pending = {} /\ Pending' = {}
    BY DEF Pending
  <2>2. Owned(S)' = Owned(S)
    BY <1>2, <2>1 DEF Owned
  <2>3. Books(S)
    BY DEF Shape
  <2> QED
    BY <2>2, <2>3 DEF Books
<1>8. Whole' => Whole
  BY <1>2 DEF Whole
<1>9. cmd = "new" => k = 0 /\ In = 0 /\ Out = 0
  <2>1. ASSUME cmd = "new" PROVE k = 0
    <3>1. CASE q = NULL
      <4>1. Front = NULL
        BY <1>2, <3>1 DEF Front
      <4> QED
        BY <4>1, Starts
    <3>2. CASE q # NULL
      <4>1. held # Broken
        BY <2>1, QTestAssumption DEF Control
      <4>2. Whole
        BY <1>2, <3>2, <4>1 DEF Whole
      <4>3. Tails(k, L, m, M)
        BY <4>2 DEF Shape
      <4> QED
        BY <2>1, <4>3 DEF Tails
    <3> QED
      BY <3>1, <3>2
  <2>2. cmd = "new" => ~Linked /\ ~Unlinked
    BY DEF Linked, Grown, Unlinked, Shrunk, Removed, Control
  <2> QED
    BY <2>1, <2>2 DEF In, Out, One
<1>10. /\ In \in Nat /\ Out \in Nat /\ qcnt \in Int /\ size \in Nat /\ alarms \in Nat
       /\ qcnt' \in Int
       /\ Cardinality(Elements) \in Nat /\ Cardinality(EleBlocks(Known)) \in Nat
       /\ Cardinality(EleBlocks(Known)) <= Cardinality(Elements)
  BY Bits, Numeric
<1>11. EleBlocks(Known') = EleBlocks(Known) /\ alarms' = alarms /\ size' = size
  OBVIOUS
<1>12. k + m <= qcnt' + alarms /\ qcnt' <= Cardinality(EleBlocks(Known)) + alarms
  <2>1. /\ k + m + Turning + Out <= qcnt + In + alarms
        /\ qcnt + Ahead <= Cardinality(EleBlocks(Known)) + alarms + Behind
    BY <1>1 DEF Shape, Numbers
  <2>2. CASE cmd = "new"
    BY <1>4, <1>9, <1>10, <2>2
  <2>3. CASE cmd # "new"
    <3>1. qcnt' = qcnt + In - Out
      BY <2>3
    <3> QED
      BY <1>4, <1>5, <1>10, <2>1, <3>1
  <2> QED
    BY <2>2, <2>3
<1>13. Numbers(k, m)'
  <2>1. k + m + Turning' + Out' <= qcnt' + In' + alarms'
    BY <1>4, <1>6, <1>10, <1>11, <1>12
  <2>2. qcnt' + Ahead' <= Cardinality(EleBlocks(Known')) + alarms' + Behind'
    BY <1>6, <1>10, <1>11, <1>12
  <2>3. Live => size + Room <= Cardinality(EleBlocks(Known))
    BY DEF Shape, Numbers
  <2>4. Live' => size' + Room' <= Cardinality(EleBlocks(Known'))
    BY <1>2, <1>5, <1>6, <1>10, <1>11, <2>3
  <2> QED
    BY <2>1, <2>2, <2>4 DEF Numbers, EleBlocks
<1>14. NotBelow' /\ qcnt' \in -MaxAlarms .. Cardinality(Elements) + MaxAlarms
  <2>1. alarms <= MaxAlarms /\ MaxAlarms \in Nat
    <3>1. alarms \in 0 .. MaxAlarms
      BY DEF Control
    <3> QED
      BY <3>1, QTestAssumption
  <2>2. 0 <= qcnt' + alarms'
    BY <1>4, <1>10, <1>11, <1>12
  <2>3. -MaxAlarms <= qcnt' /\ qcnt' <= Cardinality(Elements) + MaxAlarms
    BY <1>4, <1>10, <1>12, <2>1
  <2> QED
    BY <1>10, <2>1, <2>2, <2>3 DEF NotBelow
<1>15. Whole' => Sizes(k, m)'
  <2>1. Whole => Sizes(k, m)
    BY DEF Shape
  <2>2. Sizes(k, m) => size' + Late' = k + m + Turning' + Early'
    BY <1>4, <1>5, <1>6, <1>10, <1>11 DEF Sizes
  <2>3. Sizes(k, m) => qcnt' + More' = size' + Fewer'
    <3>1. CASE cmd = "new"
      <4>1. qcnt' = 0 /\ k = 0 /\ m = 0
        BY <1>4, <1>9, <3>1
      <4> QED
        BY <1>5, <1>6, <1>10, <1>11, <4>1 DEF Sizes
    <3>2. CASE cmd # "new"
      <4>1. qcnt' = qcnt + In - Out
        BY <3>2
      <4>2. Sizes(k, m) => qcnt + More = size + Fewer
        BY <3>2 DEF Sizes
      <4> QED
        BY <1>5, <1>6, <1>10, <1>11, <4>1, <4>2
    <3> QED
      BY <3>1, <3>2
  <2> QED
    BY <1>8, <2>1, <2>2, <2>3 DEF Sizes
<1>16. Whole' => Tails(k, L, m, M)'
  <2>1. Whole => Tails(k, L, m, M)
    BY DEF Shape
  <2>2. Tails(k, L, m, M) => tail' = IF k = 0 THEN NULL ELSE L[k]
    BY DEF Tails
  <2>3. ~Linked' /\ cmd' # "new"
    BY DEF Linked, Grown
  <2>4. (tail' = IF k = 0 THEN NULL ELSE L[k]) => Tails(k, L, m, M)'
    BY <2>3 DEF Tails
  <2> QED
    BY <1>8, <2>1, <2>2, <2>4
<1>17. Whole' => Says(k, L, m, M)'
  <2>1. Whole' => held' = [j \in 1 .. k |-> value'[L[j]]]
    BY <1>2 DEF Whole
  <2>2. ~Linked' /\ ~Unlinked' /\ cmd' # "reverse"
    BY DEF Linked, Grown, Unlinked, Shrunk, Removed
  <2>3. held' = [j \in 1 .. k |-> value'[L[j]]] => Says(k, L, m, M)'
    BY <2>2 DEF Says
  <2> QED
    BY <2>1, <2>3
<1>18. /\ \A i \in 1 .. k, j \in 1 .. m : L[i] # M[j]
       /\ pc' \notin EleInHand
  BY DEF Shape
<1> QED
  BY <1>4, <1>7, <1>13, <1>14, <1>15, <1>16, <1>17, <1>18 DEF Shape

LEMMA Counts ==
    ASSUME TypeOK
    PROVE  /\ err_cnt \in Nat /\ err_limit \in Nat \ {0} /\ fail_limit \in Nat
           /\ fail_count \in 0 .. fail_limit /\ FailCount \in 0 .. fail_limit
<1>1. err_limit \in Nat \ {0} /\ fail_limit \in Nat
  BY QTestAssumption
<1>2. err_cnt \in Nat /\ fail_count \in 0 .. fail_limit
  BY <1>1 DEF TypeOK
<1> QED
  BY <1>1, <1>2 DEF FailCount

LEMMA FinishKept ==
    ASSUME IInv, GoesOn, pc \in {"cancel", "interrupted"}, counting = 0,
           cmd \notin Freeing,
           NEW result, Finish(result), UNCHANGED queue,
           error_occurred' \in BOOLEAN, fail_count' \in 0 .. fail_limit,
           qcnt' = IF cmd = "new" THEN 0 ELSE IF cmd = "rh" /\ rval THEN qcnt - 1 ELSE qcnt,
           \/ held' = Kept
           \/ held' = held /\ cmd \in Inserting \cup {"size", "show"}
    PROVE  IInv'
<1>1. TypeOK /\ Control
  BY DEF IInv
<1>2. PICK k, L, m, M : Shape(k, L, m, M)
  BY DEF IInv
<1>3. UNCHANGED <<next, value, q, head, tail, size, Known, allocated_count, counting, alarms>>
  BY DEF Finish
<1>4. /\ pc' \in {"prompt", "exit"} /\ cmd' = "none" /\ str' = Blank
      /\ ele' = NULL /\ ptr' = NULL /\ rval' = FALSE /\ ok' = TRUE
  BY DEF Finish, NoLocals
<1>5. q # NULL => Chain(next, head, k, L)
  <2>1. ~Taking /\ ~Cleared
    BY DEF Taking, Cleared
  <2>2. q # NULL => Front = head
    BY <2>1 DEF Front, Live, HasQueue
  <2> QED
    BY <1>2, <2>2 DEF Shape
<1>6. /\ q # NULL /\ held = Broken => held' = Broken
      /\ q = NULL => held' = NoQueue
      /\ q # NULL /\ held' # Broken => held' = [j \in 1 .. k |-> value[L[j]]]
      /\ alarms = 0 => held' # Broken
  <2>1. CASE held' = Kept
    BY <1>1, <1>5, <2>1, KeptIs
  <2>2. CASE held' = held /\ cmd \in Inserting \cup {"size", "show"}
    <3>1. /\ q = NULL => held = NoQueue
          /\ alarms = 0 => held # Broken
          /\ cmd \in Inserting /\ q # NULL /\ pc = "interrupted" => held = Broken
      BY <1>1 DEF Control
    <3>2. ASSUME q # NULL, held # Broken PROVE held = [j \in 1 .. k |-> value[L[j]]]
      <4>1. Whole
        BY <3>2 DEF Whole, Live, HasQueue, Taking, Cleared
      <4>2. Says(k, L, m, M)
        BY <1>2, <4>1 DEF Shape
      <4>3. ~Linked /\ ~Unlinked /\ cmd # "new" /\ cmd # "reverse"
        BY <2>2 DEF Linked, Grown, Unlinked, Shrunk, Removed
      <4>4. pc # "turn" /\ pc # "turned"
        OBVIOUS
      <4> QED
        BY <4>2, <4>3, <4>4 DEF Says
    <3> QED
      BY <2>2, <3>1, <3>2
  <2> QED
    BY <2>1, <2>2
<1>7. cmd # "none"
  BY <1>1 DEF Control
<1>8. qcnt' = IF cmd = "new" THEN 0 ELSE qcnt + In - Out
  <2>1. In = 0 /\ Out = IF cmd = "rh" /\ rval THEN 1 ELSE 0
    BY DEF In, Out, One, Linked, Grown, Unlinked, Shrunk, Removed
  <2>2. qcnt \in Int
    BY <1>1, Numeric
  <2> QED
    BY <2>1, <2>2
<1>9. Shape(k, L, m, M)' /\ NotBelow' /\ qcnt' \in -MaxAlarms .. Cardinality(Elements) + MaxAlarms
  <2>1. pc \in {"cancel", "interrupted", "return"} /\ cmd \notin Freeing \cup {"none"}
    BY <1>7
  <2>2. pc' \in {"prompt", "exit", "insert", "cancel"} /\ cmd' \in Inserting \cup {"none"}
    BY <1>4
  <2> HIDE DEF Freeing, Inserting
  <2> QED
    BY <1>1, <1>2, <1>3, <1>6, <1>8, <2>1, <2>2, Settle
<1>10. err_cnt' \in 0 .. err_limit
  <2>1. err_cnt < err_limit /\ err_cnt \in Nat /\ err_limit \in Nat
    BY <1>1, Counts DEF GoesOn
  <2>2. err_cnt' = err_cnt \/ err_cnt' = err_cnt + 1
    BY DEF Finish
  <2> QED
    BY <2>1, <2>2
<1>13. HarnessTypeOK' /\ cautious_mode' \in BOOLEAN
  BY <1>1 DEF Finish, TypeOK
<1>11. TypeOK'
  BY <1>1, <1>3, <1>4, <1>9, <1>10, <1>13 DEF TypeOK, Labels
<1>12. Control'
  <2>1. Result'
    BY <1>4 DEF Result
  <2>2. alarms \in 0 .. MaxAlarms
    BY <1>1 DEF Control
  <2>3. counting' # 1 /\ counting' # -1
    BY <1>3, Signs
  <2> QED
    BY <1>3, <1>4, <1>6, <2>1, <2>2, <2>3 DEF Control
<1> QED
  BY <1>9, <1>11, <1>12 DEF IInv

LEMMA FinishInsertStep == IInv /\ GoesOn /\ FinishInsert => IInv'
<1> SUFFICES ASSUME IInv, GoesOn, FinishInsert PROVE IInv'
  OBVIOUS
<1>1. TypeOK
  BY DEF IInv
<1>2. error_occurred' \in BOOLEAN /\ fail_count' \in 0 .. fail_limit
  BY <1>1, Counts DEF FinishInsert, TypeOK
<1>3. /\ pc \in {"cancel", "interrupted"} /\ counting = 0 /\ cmd \in Inserting /\ Finish(ok)
      /\ UNCHANGED <<queue, qcnt, held>>
  BY DEF FinishInsert, Cancelled
<1> QED
  BY <1>2, <1>3, FinishKept

LEMMA FinishRemoveStep == IInv /\ GoesOn /\ FinishRemove => IInv'
<1> SUFFICES ASSUME IInv, GoesOn, FinishRemove PROVE IInv'
  OBVIOUS
<1>1. TypeOK
  BY DEF IInv
<1> DEFINE good == rval \/ FailCount < fail_limit
<1>2. fail_count' \in 0 .. fail_limit
  BY <1>1, Counts DEF FinishRemove
<1>3. /\ pc \in {"cancel", "interrupted"} /\ counting = 0 /\ cmd = "rh" /\ Checked(good)
      /\ UNCHANGED queue /\ held' = Kept
      /\ qcnt' = IF rval THEN qcnt - 1 ELSE qcnt
  BY DEF FinishRemove, Cancelled
<1> HIDE DEF good
<1>4. error_occurred' \in BOOLEAN /\ Finish(good /\ ~error_occurred)
  BY <1>1, <1>3 DEF Checked, TypeOK
<1> QED
  BY <1>2, <1>3, <1>4, FinishKept

LEMMA FinishReverseStep == IInv /\ GoesOn /\ FinishReverse => IInv'
<1> SUFFICES ASSUME IInv, GoesOn, FinishReverse PROVE IInv'
  OBVIOUS
<1>1. TypeOK
  BY DEF IInv
<1>2. /\ pc \in {"cancel", "interrupted"} /\ counting = 0 /\ cmd = "reverse" /\ Checked(TRUE)
      /\ UNCHANGED <<queue, qcnt, fail_count>> /\ held' = Kept
  BY DEF FinishReverse, Cancelled
<1>3. fail_count' \in 0 .. fail_limit
  BY <1>1, <1>2, Counts
<1>4. error_occurred' \in BOOLEAN /\ Finish(TRUE /\ ~error_occurred)
  BY <1>1, <1>2 DEF Checked, TypeOK
<1> QED
  BY <1>2, <1>3, <1>4, FinishKept

LEMMA FinishSizeStep == IInv /\ GoesOn /\ FinishSize => IInv'
<1> SUFFICES ASSUME IInv, GoesOn, FinishSize PROVE IInv'
  OBVIOUS
<1>1. TypeOK
  BY DEF IInv
<1>2. /\ pc \in {"cancel", "interrupted"} /\ counting = 0 /\ cmd = "size"
      /\ UNCHANGED <<queue, qcnt, fail_count, held>>
  BY DEF FinishSize, Cancelled
<1>3. fail_count' \in 0 .. fail_limit
  BY <1>1, <1>2, Counts
<1>4. PICK cnt : Checked(qcnt = cnt)
  BY DEF FinishSize
<1>5. error_occurred' \in BOOLEAN /\ Finish((qcnt = cnt) /\ ~error_occurred)
  BY <1>1, <1>4 DEF Checked, TypeOK
<1> QED
  BY <1>2, <1>3, <1>5, FinishKept

LEMMA FinishShowStep == IInv /\ GoesOn /\ FinishShow => IInv'
<1> SUFFICES ASSUME IInv, GoesOn, FinishShow PROVE IInv'
  OBVIOUS
<1>1. TypeOK
  BY DEF IInv
<1>2. /\ pc \in {"cancel", "interrupted"} /\ counting = 0 /\ cmd = "show"
      /\ UNCHANGED <<queue, qcnt, fail_count, held>>
  BY DEF FinishShow, Cancelled
<1>3. fail_count' \in 0 .. fail_limit
  BY <1>1, <1>2, Counts
<1>4. error_occurred' \in BOOLEAN /\ \E result : Finish(result)
  BY <1>1 DEF FinishShow, TypeOK
<1> QED
  BY <1>2, <1>3, <1>4, FinishKept

LEMMA FinishNewStep == IInv /\ GoesOn /\ FinishNew => IInv'
<1> SUFFICES ASSUME IInv, GoesOn, FinishNew PROVE IInv'
  OBVIOUS
<1>1. TypeOK
  BY DEF IInv
<1>2. /\ pc \in {"cancel", "interrupted"} /\ counting = 0 /\ cmd = "new" /\ Checked(ok)
      /\ UNCHANGED <<queue, fail_count>> /\ held' = Kept /\ qcnt' = 0
  BY DEF FinishNew, Cancelled
<1>3. fail_count' \in 0 .. fail_limit
  BY <1>1, <1>2, Counts
<1>4. error_occurred' \in BOOLEAN /\ Finish(ok /\ ~error_occurred)
  BY <1>1, <1>2 DEF Checked, TypeOK
<1> QED
  BY <1>2, <1>3, <1>4, FinishKept

LEMMA InsertedStep == IInv /\ Inserted => IInv'
<1> SUFFICES ASSUME IInv, Inserted PROVE IInv'
  OBVIOUS
<1>1. TypeOK /\ Control
  BY DEF IInv
<1>2. PICK k, L, m, M : Shape(k, L, m, M)
  BY DEF IInv
<1>3. /\ pc = "return" /\ counting = 0 /\ pc' \in {"insert", "cancel"}
      /\ qcnt' = IF rval THEN qcnt + 1 ELSE qcnt
      /\ fail_count' = IF rval THEN fail_count ELSE FailCount
      /\ ok' = (rval \/ FailCount < fail_limit)
      /\ held' = IF held = Broken \/ q = NULL THEN held ELSE Contents
      /\ UNCHANGED <<next, value, q, head, tail, size, Known, allocated_count, counting,
                     cmd, str, ele, ptr, error_occurred, err_cnt, alarms>>
      /\ rval' <=> rval
  BY DEF Inserted
<1>4. cmd \in Inserting
  BY <1>1, <1>3 DEF Control
<1>5. q # NULL => Chain(next, head, k, L)
  <2>1. ~Taking /\ ~Cleared
    BY <1>3 DEF Taking, Cleared
  <2>2. q # NULL => Front = head
    BY <2>1 DEF Front, Live, HasQueue
  <2> QED
    BY <1>2, <2>2 DEF Shape
<1>6. /\ q # NULL /\ held = Broken => held' = Broken
      /\ q = NULL => held' = NoQueue
      /\ q # NULL /\ held' # Broken => held' = [j \in 1 .. k |-> value[L[j]]]
      /\ alarms = 0 => held' # Broken
  <2>1. (q = NULL => held = NoQueue) /\ (alarms = 0 => held # Broken)
    BY <1>1 DEF Control
  <2> QED
    BY <1>1, <1>3, <1>5, <2>1, ContentsIs
<1>7. qcnt' = IF cmd = "new" THEN 0 ELSE qcnt + In - Out
  <2>1. In = (IF rval THEN 1 ELSE 0) /\ Out = 0
    BY <1>3, <1>4 DEF In, Out, One, Linked, Grown, Unlinked, Shrunk, Removed
  <2>2. qcnt \in Int
    BY <1>1, Numeric
  <2> QED
    BY <1>3, <1>4, <2>1, <2>2
<1>8. Shape(k, L, m, M)' /\ NotBelow' /\ qcnt' \in -MaxAlarms .. Cardinality(Elements) + MaxAlarms
  <2>1. pc \in {"cancel", "interrupted", "return"} /\ cmd \notin Freeing \cup {"none"}
    BY <1>3, <1>4
  <2>2. pc' \in {"prompt", "exit", "insert", "cancel"} /\ cmd' \in Inserting \cup {"none"}
    BY <1>3, <1>4
  <2> HIDE DEF Freeing, Inserting
  <2> QED
    BY <1>1, <1>2, <1>3, <1>6, <1>7, <2>1, <2>2, Settle
<1>9. {rval', error_occurred', ok'} \subseteq BOOLEAN
  <2>1. rval' \in BOOLEAN
    BY <1>1 DEF Inserted, TypeOK
  <2> QED
    BY <1>1, <1>3, <2>1 DEF TypeOK
<1>10. fail_count' \in 0 .. fail_limit
  BY <1>1, <1>3, Counts
<1>13. HarnessTypeOK' /\ cautious_mode' \in BOOLEAN
  BY <1>1 DEF Inserted, TypeOK
<1>11. TypeOK'
  BY <1>1, <1>3, <1>8, <1>9, <1>10, <1>13 DEF TypeOK, Labels
<1>12. Control'
  <2>1. Result'
    BY <1>3, <1>4 DEF Result
  <2>2. alarms \in 0 .. MaxAlarms
    BY <1>1 DEF Control
  <2>3. counting' # 1 /\ counting' # -1
    BY <1>3, Signs
  <2>4. str \in Strings
    BY <1>1, <1>4 DEF Control
  <2>5. cmd' # "none" /\ cmd' # "new"
    BY <1>3, <1>4
  <2> QED
    BY <1>3, <1>4, <1>6, <2>1, <2>2, <2>3, <2>4, <2>5 DEF Control
<1> QED
  BY <1>8, <1>11, <1>12 DEF IInv

LEMMA Zeros ==
    /\ \A i \in Int : i + 0 = i
    /\ \A i \in Nat : i + 0 = i
    /\ \A i \in Int, j \in Nat : 0 <= i + j => 0 + 0 + 0 + 0 <= i + 0 + j
  OBVIOUS

(* Where no call works on the queue's lists, and none is owned.            *)
LEMMA NoLists ==
    ASSUME TypeOK', (alarms \in Nat)', (0 <= qcnt + alarms)',
           ~HasQueue', pc' \in {"prompt", "exit", "interrupted", "q_new"},
           ~Removed',
           Sound({}, Known', allocated_count', alarms'), counting' = 0,
           ~Cleared' => qcnt' <= Cardinality(EleBlocks(Known')) + alarms'
    PROVE  \E k, L, m, M : Shape(k, L, m, M)'
<1>0. ~Taking'
  BY DEF Taking
<1>1. Front' = NULL /\ Rest' = NULL
  BY <1>0 DEF Front, Rest, Live
<1>2. Chain(next', Front', 0, Nothing) /\ Chain(next', Rest', 0, Nothing) /\ Members(0, Nothing) = {}
  BY <1>1, ChainNone
<1>3. Pending' = {} /\ pc' \notin EleInHand
  BY DEF Pending
<1>4. Books({})'
  <2>1. Owned({})' = {}
    BY <1>3 DEF Owned
  <2>2. allocated_count' + counting' = allocated_count'
    <3>1. allocated_count' \in 0 .. Cardinality(Blocks) + MaxAlarms
      BY DEF TypeOK
    <3>2. Cardinality(Blocks) \in Nat /\ MaxAlarms \in Nat
      BY BlocksFinite, QTestAssumption
    <3>3. allocated_count' \in Int
      BY <3>1, <3>2
    <3>4. counting' = 0
      OBVIOUS
    <3> QED
      BY <3>3, <3>4, Zeros
  <2>3. counting' # -1
    BY Signs
  <2> QED
    BY <2>1, <2>2, <2>3 DEF Books
<1>5. Turning' = 0 /\ Out' = 0 /\ In' = 0 /\ Ahead' = 0 /\ Behind' = 0
  BY DEF Turning, Out, In, Ahead, Behind, One, Unlinked, Shrunk, Linked, Grown
<1>6. ~Live' /\ ~Whole'
  BY DEF Live, Whole
<1>7. Numbers(0, 0)'
  <2>1. Cardinality(EleBlocks(Known')) \in Nat /\ qcnt' \in Int
    <3>1. EleBlocks(Known') \in SUBSET Elements
      BY DEF EleBlocks
    <3>2. qcnt' \in Int
      BY BlocksFinite, QTestAssumption DEF TypeOK
    <3> HIDE DEF EleBlocks
    <3> QED
      BY <3>1, <3>2, BlocksFinite
  <2>2. 0 + 0 + Turning' + Out' <= qcnt' + In' + alarms'
    <3>1. alarms' \in Nat
      OBVIOUS
    <3>2. 0 <= qcnt' + alarms'
      OBVIOUS
    <3>3. Turning' = 0 /\ Out' = 0 /\ In' = 0 /\ qcnt' \in Int
      BY <1>5, <2>1
    <3>4. 0 + 0 + 0 + 0 <= qcnt' + 0 + alarms'
      BY <3>1, <3>2, <3>3, Zeros
    <3> QED
      BY <3>3, <3>4, Zeros
  <2>3. ~(Taking \/ Cleared)'
           => qcnt' + Ahead' <= Cardinality(EleBlocks(Known')) + alarms' + Behind'
    BY <1>5, <2>1
  <2> QED
    BY <1>6, <2>2, <2>3 DEF Numbers, EleBlocks
<1>8. (Members(0, Nothing) \cup Members(0, Nothing)) = {}
  BY <1>2
<1>9. Books(Members(0, Nothing) \cup Members(0, Nothing))'
  BY <1>4, <1>8
<1>10. \A i \in 1 .. 0, j \in 1 .. 0 : Nothing[i] # Nothing[j]
  OBVIOUS
<1>11. Shape(0, Nothing, 0, Nothing)'
  BY <1>2, <1>3, <1>6, <1>7, <1>9, <1>10 DEF Shape
<1> QED
  BY <1>11

(* q_free is through, or was cut off: the queue is given up.               *)
LEMMA NothingOwned ==
    ASSUME TypeOK, Control, NEW S, Books(S), counting = 0
    PROVE  Sound({}, Known, allocated_count, alarms + 1)
           /\ (Owned(S) = {} => Sound({}, Known, allocated_count, alarms))
<1>1. Sound(Owned(S), Known, allocated_count + counting, alarms)
  BY DEF Books
<1>2. Known \in SUBSET Blocks /\ allocated_count \in Nat /\ alarms \in Nat /\ counting \in Int
  BY Numeric DEF TypeOK
<1>3. allocated_count + counting = allocated_count
  BY <1>2
<1>4. Owned(S) \in SUBSET Blocks /\ Cardinality(Known) \in Nat /\ Cardinality({}) = 0
  BY <1>1, <1>2, BlocksFinite, FS_EmptySet DEF Sound
<1>5. allocated_count <= Cardinality(Known) + alarms
  BY <1>1, <1>3 DEF Sound
<1>6. Sound({}, Known, allocated_count, alarms + 1)
  BY <1>2, <1>4, <1>5 DEF Sound
<1> QED
  BY <1>1, <1>3, <1>6

LEMMA ClearedOwns ==
    ASSUME Cleared, NEW k, NEW L, NEW m, NEW M, Shape(k, L, m, M)
    PROVE  Owned(Members(k, L) \cup Members(m, M)) = {} /\ k = 0 /\ m = 0
<1>1. Front = NULL /\ Rest = NULL /\ ~HasQueue /\ Pending = {}
  BY DEF Front, Rest, Live, HasQueue, Taking, Cleared, Pending
<1>2. Chain(next, Front, k, L) /\ Chain(next, Rest, m, M)
  BY DEF Shape
<1>3. k = 0 /\ m = 0 /\ Members(k, L) \cup Members(m, M) = {}
  BY <1>1, <1>2, ChainStart
<1>4. PICK S : S = Members(k, L) \cup Members(m, M)
  OBVIOUS
<1>5. Owned(S) = {}
  BY <1>1, <1>3, <1>4 DEF Owned
<1> QED
  BY <1>3, <1>4, <1>5

LEMMA FreedStep ==
    ASSUME IInv, Cancelled(Freeing), Freed, pc' \in {"prompt", "exit", "q_new"},
           pc' = "q_new" <=> cmd' = "new", cmd' \in {"none", "new"},
           UNCHANGED <<next, value, Known, allocated_count, counting, alarms>>,
           ~rval' \/ rval' = rval, rval' \in BOOLEAN,
           TypeOK'
    PROVE  IInv'
<1>1. TypeOK /\ Control
  BY DEF IInv
<1>2. PICK k, L, m, M : Shape(k, L, m, M)
  BY DEF IInv
<1>3. pc \in {"cancel", "interrupted"} /\ counting = 0 /\ cmd \in Freeing
  BY DEF Cancelled
<1>4. q' = NULL /\ qcnt' = 0 /\ held' = NoQueue
  BY DEF Freed
<1>5. Cleared
  BY <1>3 DEF Cleared
<1>6. PICK S : Books(S) /\ Owned(S) = {}
  BY <1>2, <1>5, ClearedOwns DEF Shape
<1>7. Sound({}, Known', allocated_count', alarms')
  BY <1>1, <1>3, <1>6, NothingOwned
<1>8. /\ alarms' \in Nat /\ qcnt' \in Int /\ 0 <= qcnt' + alarms'
      /\ qcnt' <= Cardinality(EleBlocks(Known')) + alarms'
  <2>1. alarms \in Nat /\ Cardinality(EleBlocks(Known)) \in Nat
    BY <1>1, Numeric
  <2>2. EleBlocks(Known') = EleBlocks(Known)
    OBVIOUS
  <2> QED
    BY <1>4, <2>1, <2>2
<1>9. ~HasQueue'
  BY <1>4 DEF HasQueue
<1>10. \E n, F, i, G : Shape(n, F, i, G)'
  <2>1. counting' = 0 /\ ~Removed'
    BY <1>3 DEF Removed
  <2>2. pc' \in {"prompt", "exit", "interrupted", "q_new"}
    OBVIOUS
  <2> QED
    BY <1>7, <1>8, <1>9, <2>1, <2>2, NoLists
<1>11. NotBelow'
  BY <1>8 DEF NotBelow
<1>12. Control'
  <2>1. Result'
    BY DEF Result
  <2>2. alarms \in 0 .. MaxAlarms
    BY <1>1 DEF Control
  <2>3. counting' # 1 /\ counting' # -1
    BY <1>3, Signs
  <2>4. NoQueue # Broken
    BY QTestAssumption
  <2> QED
    BY <1>3, <1>4, <2>1, <2>2, <2>3, <2>4 DEF Control
<1> QED
  BY <1>10, <1>11, <1>12 DEF IInv

LEMMA FinishFreeStep == IInv /\ GoesOn /\ FinishFree => IInv'
<1> SUFFICES ASSUME IInv, GoesOn, FinishFree PROVE IInv'
  OBVIOUS
<1>1. TypeOK
  BY DEF IInv
<1>2. Cancelled(Freeing) /\ Freed /\ Checked(allocated_count = 0)
  BY DEF FinishFree, Cancelled
<1> DEFINE result == (allocated_count = 0) /\ ~error_occurred
<1>3. error_occurred' \in BOOLEAN /\ Finish(result)
  BY <1>1, <1>2 DEF Checked, TypeOK
<1> HIDE DEF result
<1>4. /\ UNCHANGED <<next, value, Known, allocated_count, counting, alarms>>
      /\ pc' \in {"prompt", "exit"} /\ cmd' = "none" /\ str' = Blank
      /\ ele' = NULL /\ ptr' = NULL /\ ok' = TRUE
  BY <1>3 DEF Finish, NoLocals
<1>5. ~rval' /\ rval' \in BOOLEAN
  BY <1>3 DEF Finish, NoLocals
<1>6. UNCHANGED <<head, tail, size, fail_count>> /\ q' = NULL /\ qcnt' = 0
  BY <1>2 DEF Freed
<1>7. err_cnt' \in 0 .. err_limit
  <2>1. err_cnt < err_limit /\ err_cnt \in Nat /\ err_limit \in Nat
    <3>1. pc # "exit"
      BY <1>2 DEF Cancelled
    <3> QED
      BY <1>1, <3>1, Counts DEF GoesOn
  <2>2. err_cnt' = err_cnt \/ err_cnt' = err_cnt + 1
    BY <1>3 DEF Finish
  <2> QED
    BY <2>1, <2>2
<1>8. qcnt' \in -MaxAlarms .. Cardinality(Elements) + MaxAlarms
  BY <1>6, BlocksFinite, QTestAssumption
<1>9. TypeOK'
  <2>1. {rval', error_occurred', ok'} \subseteq BOOLEAN
    BY <1>3, <1>4, <1>5
  <2>2. HarnessTypeOK' /\ cautious_mode' \in BOOLEAN
    BY <1>1, <1>3 DEF Finish, TypeOK
  <2> QED
    BY <1>1, <1>4, <1>6, <1>7, <1>8, <2>1, <2>2 DEF TypeOK, Labels
<1>10. /\ pc' \in {"prompt", "exit", "q_new"} /\ (pc' = "q_new" <=> cmd' = "new")
       /\ cmd' \in {"none", "new"}
  BY <1>4
<1> QED
  BY <1>2, <1>4, <1>5, <1>9, <1>10, FreedStep

LEMMA FinishOldStep == IInv /\ FinishOld => IInv'
<1> SUFFICES ASSUME IInv, FinishOld PROVE IInv'
  OBVIOUS
<1>1. TypeOK
  BY DEF IInv
<1>2. Cancelled(Freeing) /\ Freed
  BY DEF FinishOld, Cancelled
<1>3. /\ UNCHANGED <<next, value, Known, allocated_count, counting, alarms, str, ele, ptr,
                     err_cnt>>
      /\ pc' = "q_new" /\ cmd' = "new"
  BY DEF FinishOld
<1>4. rval' \in BOOLEAN /\ rval' = rval
  BY <1>1 DEF FinishOld, TypeOK
<1>5. ok' \in BOOLEAN /\ error_occurred' \in BOOLEAN
  BY DEF FinishOld
<1>6. UNCHANGED <<head, tail, size, fail_count>> /\ q' = NULL /\ qcnt' = 0
  BY <1>2 DEF Freed
<1>8. qcnt' \in -MaxAlarms .. Cardinality(Elements) + MaxAlarms
  BY <1>6, BlocksFinite, QTestAssumption
<1>9. TypeOK'
  <2>1. {rval', error_occurred', ok'} \subseteq BOOLEAN
    BY <1>4, <1>5
  <2>2. HarnessTypeOK' /\ cautious_mode' \in BOOLEAN
    BY <1>1 DEF FinishOld, TypeOK
  <2> QED
    BY <1>1, <1>3, <1>6, <1>8, <2>1, <2>2 DEF TypeOK, Labels, Commands
<1>10. /\ pc' \in {"prompt", "exit", "q_new"} /\ (pc' = "q_new" <=> cmd' = "new")
       /\ cmd' \in {"none", "new"}
  BY <1>3
<1> QED
  BY <1>2, <1>3, <1>4, <1>9, <1>10, FreedStep

LEMMA QuitStep == IInv /\ Quit => IInv'
<1> SUFFICES ASSUME IInv, Quit PROVE IInv'
  OBVIOUS
<1>1. TypeOK /\ Control /\ NotBelow
  BY DEF IInv
<1>2. PICK k, L, m, M : Shape(k, L, m, M)
  BY DEF IInv
<1>3. /\ pc \in {"cancel", "interrupted"} /\ counting = 0 /\ cmd = "quit" /\ pc' = "exit"
      /\ UNCHANGED <<next, value, q, head, tail, size, Known, allocated_count, counting,
                     cmd, str, ele, ptr, qcnt, fail_count, err_cnt, alarms, held>>
  BY DEF Quit, Cancelled
<1>4. rval' = rval /\ error_occurred' = error_occurred /\ ok' \in BOOLEAN
  BY DEF Quit
<1>5. TypeOK'
  <2>1. {rval', error_occurred', ok'} \subseteq BOOLEAN
    BY <1>1, <1>4 DEF TypeOK
  <2>2. HarnessTypeOK' /\ cautious_mode' \in BOOLEAN
    BY <1>1 DEF Quit, TypeOK
  <2> QED
    BY <1>1, <1>3, <2>1, <2>2 DEF TypeOK, Labels
<1>6. Control'
  <2>1. Result'
    BY <1>3 DEF Result
  <2>2. alarms \in 0 .. MaxAlarms /\ (alarms = 0 => held # Broken) /\ (q = NULL => held = NoQueue)
    BY <1>1 DEF Control
  <2>3. counting' # 1 /\ counting' # -1
    BY <1>3, Signs
  <2> QED
    BY <1>3, <2>1, <2>2, <2>3 DEF Control
<1>7. Cleared /\ Cleared'
  BY <1>3 DEF Cleared
<1>8. PICK S : Books(S) /\ Owned(S) = {}
  BY <1>2, <1>7, ClearedOwns DEF Shape
<1>9. Sound({}, Known', allocated_count', alarms')
  <2>1. Sound(Owned(S), Known, allocated_count + counting, alarms)
    BY <1>8 DEF Books
  <2>2. allocated_count + counting = allocated_count
    BY <1>1, <1>3, Numeric
  <2> QED
    BY <1>3, <1>8, <2>1, <2>2
<1>10. (alarms \in Nat)' /\ (0 <= qcnt + alarms)'
  BY <1>1, <1>3, Numeric DEF NotBelow
<1>11. ~HasQueue' /\ ~Removed'
  BY <1>3, <1>7 DEF HasQueue, Removed
<1>12. NotBelow'
  BY <1>10 DEF NotBelow
<1>13. \E n, F, i, G : Shape(n, F, i, G)'
  <2>1. counting' = 0 /\ pc' \in {"prompt", "exit", "interrupted", "q_new"}
    BY <1>3
  <2> QED
    BY <1>5, <1>7, <1>9, <1>10, <1>11, <2>1, NoLists
<1> QED
  BY <1>5, <1>6, <1>12, <1>13 DEF IInv

-----------------------------------------------------------------------------
(* The start of a command.                                                 *)
LEMMA Starting ==
    ASSUME IInv, NEW c \in Commands, NEW s, NEW n, Command(c, s, n), c \in Inserting => s \in Strings
    PROVE  /\ pc = "prompt" /\ cmd = "none" /\ counting = 0
           /\ \/ pc' = "q_new" /\ cmd' = "new" /\ q = NULL
              \/ pc' = "q_free" /\ cmd' \in Freeing
              \/ pc' = "insert" /\ cmd' \in Inserting /\ s \in Strings
              \/ pc' = "remove" /\ cmd' = "rh"
              \/ pc' = "reverse" /\ cmd' = "reverse"
              \/ pc' = "cancel" /\ cmd' \in {"size", "show"}
           /\ str' = s /\ ok' = TRUE /\ ~rval' /\ rval' \in BOOLEAN
           /\ UNCHANGED <<next, value, q, head, tail, size, Known, allocated_count, counting,
                          ele, ptr, qcnt, fail_count, err_cnt, alarms, held>>
<1>1. pc = "prompt" /\ counting = 0 /\ pc' = FirstStep[c]
      /\ cmd' = IF c = "new" /\ q # NULL THEN "renew" ELSE c
  BY DEF Command, Goto
<1>2. cmd = "none"
  BY <1>1 DEF IInv, Control
<1>3. \/ pc' = "q_new" /\ cmd' = "new" /\ q = NULL
      \/ pc' = "q_free" /\ cmd' \in Freeing
      \/ pc' = "insert" /\ cmd' \in Inserting /\ s \in Strings
      \/ pc' = "remove" /\ cmd' = "rh"
      \/ pc' = "reverse" /\ cmd' = "reverse"
      \/ pc' = "cancel" /\ cmd' \in {"size", "show"}
  BY <1>1 DEF FirstStep, Commands
<1>4. /\ str' = s /\ ok' = TRUE /\ ~rval' /\ rval' \in BOOLEAN
      /\ UNCHANGED <<next, value, q, head, tail, size, Known, allocated_count, counting,
                     ele, ptr, qcnt, fail_count, err_cnt, alarms, held>>
  BY DEF Command
<1> QED
  BY <1>1, <1>2, <1>3, <1>4

LEMMA CommandStep ==
    ASSUME IInv, NEW c \in Commands, NEW s \in Strings \cup {Blank}, NEW n, Command(c, s, n),
           c \in Inserting => s \in Strings
    PROVE  IInv'
<1>1. TypeOK /\ Control /\ NotBelow
  BY DEF IInv
<1>2. PICK k, L, m, M : Shape(k, L, m, M)
  BY DEF IInv
<1>3. /\ pc = "prompt" /\ cmd = "none" /\ counting = 0
      /\ \/ pc' = "q_new" /\ cmd' = "new" /\ q = NULL
         \/ pc' = "q_free" /\ cmd' \in Freeing
         \/ pc' = "insert" /\ cmd' \in Inserting /\ s \in Strings
         \/ pc' = "remove" /\ cmd' = "rh"
         \/ pc' = "reverse" /\ cmd' = "reverse"
         \/ pc' = "cancel" /\ cmd' \in {"size", "show"}
      /\ str' = s /\ ok' = TRUE /\ ~rval' /\ rval' \in BOOLEAN
      /\ UNCHANGED <<next, value, q, head, tail, size, Known, allocated_count, counting,
                     ele, ptr, qcnt, fail_count, err_cnt, alarms, held>>
  BY Starting
<1>4. TypeOK'
  <2>1. error_occurred' \in BOOLEAN
    BY DEF Command
  <2>2. {rval', error_occurred', ok'} \subseteq BOOLEAN
    BY <1>3, <2>1
  <2>3. pc' \in Labels /\ cmd' \in Commands \cup {"none", "renew"} /\ str' \in Strings \cup {Blank}
    BY <1>3 DEF Labels, Commands
  <2>4. HarnessTypeOK' /\ cautious_mode' \in BOOLEAN
    BY <1>1 DEF Command, TypeOK
  <2> QED
    BY <1>1, <1>3, <2>2, <2>3, <2>4 DEF TypeOK
<1>5. Control'
  <2>1. Result'
    BY <1>3 DEF Result
  <2>2. alarms \in 0 .. MaxAlarms /\ (alarms = 0 => held # Broken) /\ (q = NULL => held = NoQueue)
    BY <1>1 DEF Control
  <2>3. counting' # 1 /\ counting' # -1
    BY <1>3, Signs
  <2> QED
    BY <1>3, <2>1, <2>2, <2>3 DEF Control
<1>6. ~Taking /\ ~Cleared /\ ~Taking' /\ ~Cleared'
  BY <1>3 DEF Taking, Cleared
<1>7. (HasQueue <=> q # NULL) /\ (HasQueue' <=> q # NULL) /\ (Live <=> q # NULL) /\ (Live' <=> q # NULL)
  BY <1>3, <1>6 DEF HasQueue, Live
<1>8. Front' = Front /\ Rest = NULL /\ Rest' = NULL
  BY <1>3, <1>6, <1>7 DEF Front, Rest
<1>9. Chain(next, Front, k, L)' /\ Chain(next, Rest, m, M)' /\ m = 0 /\ k \in Nat
  <2>1. Chain(next, Front, k, L) /\ Chain(next, Rest, m, M)
    BY <1>2 DEF Shape
  <2> QED
    BY <1>3, <1>8, <2>1, ChainStart
<1>10. /\ ~Linked /\ ~Linked' /\ ~Unlinked /\ ~Unlinked' /\ ~Grown /\ ~Grown'
       /\ ~Shrunk /\ ~Shrunk' /\ ~Removed /\ ~Removed'
  BY <1>3 DEF Linked, Grown, Unlinked, Shrunk, Removed
<1>11. /\ Turning = 0 /\ Late = 0 /\ Early = 0 /\ Room = 0 /\ Ahead = 0 /\ Behind = 0
       /\ More = 0 /\ Fewer = 0 /\ In = 0 /\ Out = 0
  BY <1>3, <1>10 DEF Turning, Late, Early, Room, Ahead, Behind, In, Out, More, Fewer, One
<1>12. /\ Turning' = 0 /\ Late' = 0 /\ Early' = 0 /\ Room' = 0 /\ Ahead' = 0 /\ Behind' = 0
       /\ More' = 0 /\ Fewer' = 0 /\ In' = 0 /\ Out' = 0
  BY <1>3, <1>10 DEF Turning, Late, Early, Room, Ahead, Behind, In, Out, More, Fewer, One
<1>13. Books(Members(k, L) \cup Members(m, M))'
  <2>1. PICK S : S = Members(k, L) \cup Members(m, M)
    OBVIOUS
  <2>2. Pending = {} /\ Pending' = {}
    BY <1>3 DEF Pending
  <2>3. Owned(S)' = Owned(S)
    BY <1>3, <1>7, <2>2 DEF Owned
  <2>4. Books(S)
    BY <1>2, <2>1 DEF Shape
  <2>5. Books(S)'
    BY <1>3, <2>3, <2>4 DEF Books
  <2> QED
    BY <2>1, <2>5
<1>14. Numbers(k, m)'
  <2>1. Numbers(k, m)
    BY <1>2 DEF Shape
  <2>2. /\ alarms' = alarms /\ qcnt' = qcnt /\ size' = size
        /\ EleBlocks(Known') = EleBlocks(Known)
    BY <1>3
  <2> QED
    BY <1>6, <1>7, <1>11, <1>12, <2>1, <2>2 DEF Numbers, EleBlocks
<1>15. Whole' => Whole /\ cmd' # "new"
  BY <1>3, <1>7 DEF Whole
<1>16. Whole' => Sizes(k, m)'
  <2>1. Whole => Sizes(k, m)
    BY <1>2 DEF Shape
  <2>2. cmd # "new" /\ qcnt' = qcnt /\ size' = size
    BY <1>3
  <2> QED
    BY <1>11, <1>12, <1>15, <2>1, <2>2 DEF Sizes
<1>17. Whole' => Tails(k, L, m, M)'
  <2>1. Whole => Tails(k, L, m, M)
    BY <1>2 DEF Shape
  <2>2. Tails(k, L, m, M) => tail' = IF k = 0 THEN NULL ELSE L[k]
    BY <1>3 DEF Tails
  <2>3. cmd' # "new" /\ (tail' = IF k = 0 THEN NULL ELSE L[k]) => Tails(k, L, m, M)'
    BY <1>3, <1>10 DEF Tails
  <2> QED
    BY <1>15, <2>1, <2>2, <2>3
<1>18. Whole' => Says(k, L, m, M)'
  <2>1. Whole => Says(k, L, m, M)
    BY <1>2 DEF Shape
  <2>2. Says(k, L, m, M) => held = [j \in 1 .. k |-> value[L[j]]]
    BY <1>3, <1>10 DEF Says
  <2>3. held' = [j \in 1 .. k |-> value'[L[j]]] => Says(k, L, m, M)'
    BY <1>3, <1>10 DEF Says
  <2> QED
    BY <1>3, <1>15, <2>1, <2>2, <2>3
<1>19. /\ \A i \in 1 .. k, j \in 1 .. m : L[i] # M[j]
       /\ pc' \notin EleInHand
  BY <1>2, <1>3 DEF Shape
<1>20. NotBelow'
  BY <1>1, <1>3 DEF NotBelow
<1> QED
  BY <1>4, <1>5, <1>9, <1>13, <1>14, <1>16, <1>17, <1>18, <1>19, <1>20 DEF IInv, Shape

-----------------------------------------------------------------------------
(* The jump of SIGALRM and SIGSEGV to exception_setup.                     *)
(* What the jump leaves behind.                                            *)
LEMMA Jumped ==
    ASSUME TypeOK, HarnessInv, Jump, alarms' # 0 \/ (step = "none" /\ alarms' = alarms)
    PROVE  /\ pc' = "interrupted" /\ counting' = 0 /\ HarnessTypeOK'
           /\ held' = IF cmd \in {"ih", "it", "rh", "reverse"} /\ q # NULL THEN Broken ELSE held
           /\ UNCHANGED <<next, value, q, head, tail, size, allocated_count, cautious_mode, cmd, str,
                          ele, ptr, fail_count, err_cnt>>
           /\ rval' => rval /\ pc = "cancel"
           /\ {rval', error_occurred', ok'} \subseteq BOOLEAN
           /\ (Known \ IF counting = 1 THEN {blk} ELSE {}) \subseteq Known'
           /\ Known \in SUBSET Blocks /\ Known' \in SUBSET Blocks
<1>1. /\ pc' = "interrupted" /\ CutOff
      /\ held' = IF cmd \in {"ih", "it", "rh", "reverse"} /\ q # NULL THEN Broken ELSE held
      /\ UNCHANGED <<next, value, q, head, tail, size, cmd, str, ele, ptr, fail_count, err_cnt>>
  BY DEF Jump
<1>2. rval' \in {rval, FALSE} /\ (pc # "cancel" => rval' = FALSE)
  BY DEF Jump
<1>3. ok' \in {ok, TRUE} /\ error_occurred' = TRUE
  BY DEF Jump
<1>4. rval \in BOOLEAN /\ ok \in BOOLEAN
  BY DEF TypeOK
<1>5. {rval', error_occurred', ok'} \subseteq BOOLEAN
  BY <1>2, <1>3, <1>4
<1>6. rval' => rval /\ pc = "cancel"
  BY <1>2, <1>4
<1>7. /\ HarnessInv' /\ counting' = 0 /\ UNCHANGED <<allocated_count, cautious_mode>>
      /\ (Known \ IF counting = 1 THEN {blk} ELSE {}) \subseteq Known'
  BY <1>1, CutOffStep
<1>8. HarnessTypeOK /\ HarnessTypeOK'
  BY <1>7 DEF HarnessInv
<1>9. Known \subseteq Blocks /\ Known' \subseteq Blocks
  <2>1. Known \subseteq Blocks
    BY <1>8, KnownType
  <2>2. (HarnessTypeOK => Known \subseteq Blocks)'
    BY KnownType, PTL
  <2> QED
    BY <1>8, <2>1, <2>2
<1> QED
  BY <1>1, <1>5, <1>6, <1>7, <1>8, <1>9

(* An element that was allocated, and not yet listed when the call was cut *)
(* off, is no longer to be found.                                          *)
LEMMA JumpLoses ==
    ASSUME TypeOK, Control, NEW there \in SUBSET Blocks, Known \in SUBSET Blocks,
           (Known \ IF counting = 1 THEN {blk} ELSE {}) \subseteq there
    PROVE  /\ Cardinality(there) \in Nat /\ Cardinality(EleBlocks(there)) \in Nat
           /\ Cardinality(Known) \in Nat /\ Cardinality(EleBlocks(Known)) \in Nat
           /\ Cardinality(Known) <= Cardinality(there) + 1
           /\ counting # 1 => Cardinality(Known) <= Cardinality(there)
           /\ Cardinality(EleBlocks(Known)) <= Cardinality(EleBlocks(there)) + 1
           /\ counting # 1 \/ pc # "malloc value" =>
                 Cardinality(EleBlocks(Known)) <= Cardinality(EleBlocks(there))
<1>1. PICK left : left = Known \ IF counting = 1 THEN {blk} ELSE {}
  OBVIOUS
<1>2. left \in SUBSET Blocks /\ left \subseteq there
  BY <1>1
<1>3. PICK E, F, G : E = EleBlocks(left) /\ F = EleBlocks(there) /\ G = EleBlocks(Known)
  OBVIOUS
<1>4. /\ E \in SUBSET Elements /\ F \in SUBSET Elements /\ G \in SUBSET Elements
      /\ E \subseteq F
  BY <1>2, <1>3 DEF EleBlocks
<1>5. /\ Cardinality(there) \in Nat /\ Cardinality(Known) \in Nat /\ Cardinality(left) \in Nat
      /\ Cardinality(E) \in Nat /\ Cardinality(F) \in Nat /\ Cardinality(G) \in Nat
      /\ IsFiniteSet(Known) /\ IsFiniteSet(G) /\ IsFiniteSet(there) /\ IsFiniteSet(F)
  BY <1>2, <1>4, BlocksFinite
<1>6. Cardinality(left) <= Cardinality(there) /\ Cardinality(E) <= Cardinality(F)
  BY <1>2, <1>4, <1>5, FS_Subset
<1>7. /\ Cardinality(Known) <= Cardinality(left) + 1
      /\ counting # 1 => left = Known
  <2>1. CASE counting = 1 /\ blk \in Known
    <3>1. left = Known \ {blk}
      BY <1>1, <2>1
    <3>2. Cardinality(left) = Cardinality(Known) - 1
      BY <1>5, <2>1, <3>1, FS_RemoveElement
    <3> QED
      BY <1>5, <2>1, <3>2
  <2>2. CASE ~(counting = 1 /\ blk \in Known)
    <3>1. left = Known
      BY <1>1, <2>2
    <3> QED
      BY <1>5, <3>1
  <2> QED
    BY <2>1, <2>2
<1>8. /\ Cardinality(G) <= Cardinality(E) + 1
      /\ counting # 1 \/ pc # "malloc value" => E = G
  <2>1. CASE counting = 1 /\ pc = "malloc value"
    <3>1. blk = <<"ele", ele>>
      BY <2>1 DEF Control
    <3>2. E = G \ {ele}
      BY <1>1, <1>3, <2>1, <3>1 DEF EleBlocks
    <3>3. Cardinality(G) <= Cardinality(E) + 1
      <4>1. CASE ele \in G
        <5>1. Cardinality(G \ {ele}) = Cardinality(G) - 1
          BY <1>5, <4>1, FS_RemoveElement
        <5> QED
          BY <1>5, <3>2, <5>1
      <4>2. CASE ele \notin G
        <5>1. E = G
          BY <3>2, <4>2
        <5> QED
          BY <1>5, <5>1
      <4> QED
        BY <4>1, <4>2
    <3> QED
      BY <2>1, <3>3
  <2>2. CASE ~(counting = 1 /\ pc = "malloc value")
    <3>1. counting = 1 => blk = <<"queue", ptr>> \/ blk = <<"value", ele>>
      BY <2>2 DEF Control
    <3>2. \A e \in Elements : counting = 1 => <<"ele", e>> # blk
      BY <3>1
    <3>3. E = G
      BY <1>1, <1>3, <3>2 DEF EleBlocks
    <3> QED
      BY <1>5, <3>3
  <2> QED
    BY <2>1, <2>2
<1>9. /\ Cardinality(Known) <= Cardinality(there) + 1
      /\ counting # 1 => Cardinality(Known) <= Cardinality(there)
  BY <1>5, <1>6, <1>7
<1>10. /\ Cardinality(G) <= Cardinality(F) + 1
       /\ counting # 1 \/ pc # "malloc value" => Cardinality(G) <= Cardinality(F)
  <2>1. counting # 1 \/ pc # "malloc value" => Cardinality(G) = Cardinality(E)
    BY <1>8
  <2>2. Cardinality(G) <= Cardinality(E) + 1
    BY <1>8
  <2>3. Cardinality(G) <= Cardinality(F) + 1
    BY <1>5, <1>6, <2>2
  <2>4. Cardinality(G) = Cardinality(E) => Cardinality(G) <= Cardinality(F)
    BY <1>6
  <2> QED
    BY <2>1, <2>3, <2>4
<1> QED
  BY <1>3, <1>5, <1>9, <1>10

(* A block that was linked and not yet counted is in the hands of a call,  *)
(* so that the queue does not own it.                                      *)
LEMMA JumpBooks ==
    ASSUME TypeOK, Control, HarnessInv, Jump, cmd \notin Freeing,
           NEW S, NEW T, T \subseteq S, S \subseteq Elements, Books(S),
           pc \in EleInHand => ele \in Elements \ S,
           alarms' \in Nat \ {0},
           alarms' = alarms + 1 \/ (alarms' = alarms /\ counting = 0)
    PROVE  Books(T)'
<1>1. /\ pc' = "interrupted" /\ counting' = 0
      /\ UNCHANGED <<q, allocated_count, cmd, ele, ptr>>
      /\ (Known \ IF counting = 1 THEN {blk} ELSE {}) \subseteq Known'
      /\ Known \in SUBSET Blocks /\ Known' \in SUBSET Blocks
  BY Jumped
<1>2. ~Cleared /\ ~Cleared'
  BY <1>1 DEF Cleared
<1>3. Pending' = {} /\ (HasQueue <=> q # NULL) /\ (HasQueue' <=> q # NULL)
  BY <1>1, <1>2 DEF Pending, HasQueue
<1>4. Owned(T)' = ({"ele", "value"} \X T) \cup (IF q # NULL THEN {<<"queue", q>>} ELSE {})
  BY <1>1, <1>3 DEF Owned
<1>5. Owned(S) = Pending \cup ({"ele", "value"} \X S)
                         \cup (IF q # NULL THEN {<<"queue", q>>} ELSE {})
  BY <1>3 DEF Owned
<1>6. Owned(T)' \subseteq Owned(S)
  BY <1>4, <1>5
<1>7. PICK now, before : now = Owned(T)' /\ before = Owned(S)
  OBVIOUS
<1>8. Sound(before, Known, allocated_count + counting, alarms)
  BY <1>7 DEF Books
<1>9. /\ now \subseteq before /\ before \subseteq Known /\ Known \in SUBSET Blocks
      /\ Cardinality(before) <= allocated_count + counting
      /\ allocated_count + counting <= Cardinality(Known) + alarms
  BY <1>1, <1>6, <1>7, <1>8 DEF Sound
<1>10. /\ IsFiniteSet(before) /\ IsFiniteSet(now)
       /\ Cardinality(now) \in Nat /\ Cardinality(before) \in Nat
       /\ Cardinality(Known) \in Nat /\ Cardinality(now) <= Cardinality(before)
  <2>1. before \in SUBSET Blocks /\ now \in SUBSET Blocks
    BY <1>9
  <2>2. Cardinality(now) <= Cardinality(before)
    BY <1>9, <2>1, BlocksFinite, FS_Subset
  <2> QED
    BY <1>9, <2>1, <2>2, BlocksFinite
<1>11. counting \in {-1, 0, 1} /\ allocated_count \in Nat /\ alarms \in Nat
  BY Numeric DEF counting
<1>12. counting = 1 => blk \in before /\ blk \notin now
  <2>1. CASE counting = 1 /\ pc = "assign"
    <3>1. q = NULL /\ blk = <<"queue", ptr>>
      BY <2>1 DEF Control
    <3>2. blk \in before
      BY <1>5, <1>7, <2>1, <3>1 DEF Pending
    <3> QED
      BY <1>4, <1>7, <3>1, <3>2
  <2>2. CASE counting = 1 /\ pc = "malloc value"
    <3>1. blk = <<"ele", ele>> /\ ele \notin S
      BY <2>2 DEF Control
    <3>2. blk \in before
      BY <1>5, <1>7, <2>2, <3>1 DEF Pending
    <3> QED
      BY <1>4, <1>7, <3>1, <3>2
  <2>3. CASE counting = 1 /\ pc = "store"
    <3>1. blk = <<"value", ele>> /\ ele \notin S
      BY <2>3 DEF Control
    <3>2. blk \in before
      BY <1>5, <1>7, <2>3, <3>1 DEF Pending
    <3> QED
      BY <1>4, <1>7, <3>1, <3>2
  <2>4. counting = 1 => pc \in {"assign", "malloc value", "store"}
    BY DEF Control
  <2> QED
    BY <2>1, <2>2, <2>3, <2>4
<1>13. counting = 1 => Cardinality(now) <= Cardinality(before) - 1
  <2> SUFFICES ASSUME counting = 1 PROVE Cardinality(now) <= Cardinality(before) - 1
    OBVIOUS
  <2>1. now \subseteq before \ {blk} /\ blk \in before
    BY <1>9, <1>12
  <2>2. IsFiniteSet(before \ {blk}) /\ Cardinality(before \ {blk}) = Cardinality(before) - 1
    BY <1>10, <2>1, FS_RemoveElement
  <2>3. Cardinality(now) <= Cardinality(before \ {blk})
    BY <2>1, <2>2, FS_Subset
  <2> QED
    BY <2>2, <2>3
<1>14. Sound(now, Known', allocated_count', alarms')
  <2>1. PICK later, n, b, x, y, c, count, a :
           /\ later = alarms' /\ n = Cardinality(now) /\ b = Cardinality(before)
           /\ x = Cardinality(Known) /\ y = Cardinality(Known')
           /\ c = counting /\ count = allocated_count /\ a = alarms
    OBVIOUS
  <2>2. /\ later \in Nat /\ (later = a + 1 \/ (later = a /\ c = 0))
        /\ c \in {-1, 0, 1} /\ count \in Nat /\ a \in Nat
    BY <1>11, <2>1
  <2>3. y \in Nat /\ x <= y + 1 /\ (c # 1 => x <= y)
    <3>1. PICK there : there = Known'
      OBVIOUS
    <3>2. /\ Cardinality(there) \in Nat /\ Cardinality(Known) <= Cardinality(there) + 1
          /\ counting # 1 => Cardinality(Known) <= Cardinality(there)
      BY <1>1, <3>1, JumpLoses
    <3> QED
      BY <2>1, <3>1, <3>2
  <2>4. /\ n \in Nat /\ b \in Nat /\ x \in Nat
        /\ n <= b /\ (c = 1 => n <= b - 1) /\ b <= count + c /\ count + c <= x + a
    BY <1>9, <1>10, <1>13, <2>1
  <2>5. n <= count /\ count <= y + later
    <3> HIDE DEF EleInHand, Freeing
    <3> QED
      BY <2>2, <2>3, <2>4
  <2>6. now \subseteq Known' /\ alarms' # 0
    BY <1>1, <1>9, <1>12
  <2> QED
    BY <1>1, <2>1, <2>5, <2>6 DEF Sound
<1>15. allocated_count' + counting' = allocated_count'
  <2>1. allocated_count' = allocated_count /\ counting' = 0
    BY <1>1
  <2>2. allocated_count + 0 = allocated_count
    BY <1>11, Zeros
  <2> QED
    BY <2>1, <2>2
<1>16. counting' # -1
  BY <1>1, Signs
<1> QED
  BY <1>7, <1>14, <1>15, <1>16 DEF Books

(* An alarm, or a NULL pointer that an earlier alarm left behind.          *)
AlarmOrNull ==
    \/ alarms' = alarms + 1 /\ qcnt' = qcnt
    \/ /\ alarms' = alarms /\ step = "none" /\ held = Broken /\ q # NULL
       /\ \/ pc \in {"link tail", "remove"} /\ qcnt' = qcnt
          \/ pc = "return" /\ rval /\ head = NULL /\ qcnt' = qcnt + 1

LEMMA JumpFreeing ==
    ASSUME IInv, TypeOK', HarnessInv, Jump, cmd \in Freeing, qcnt' = qcnt, alarms' = alarms + 1
    PROVE  NotBelow' /\ \E k, L, m, M : Shape(k, L, m, M)'
<1>1. TypeOK /\ Control /\ NotBelow
  BY DEF IInv
<1>2. PICK k, L, m, M : Shape(k, L, m, M)
  BY DEF IInv
<1>3. /\ pc' = "interrupted" /\ counting' = 0 /\ cmd' \in Freeing
      /\ UNCHANGED <<allocated_count, qcnt>>
      /\ (Known \ IF counting = 1 THEN {blk} ELSE {}) \subseteq Known'
      /\ Known \in SUBSET Blocks /\ Known' \in SUBSET Blocks
  <2>1. alarms' # 0
    BY <1>1, Numeric
  <2> QED
    BY <1>1, <2>1, Jumped
<1>4. Cleared' /\ ~HasQueue' /\ ~Removed'
  BY <1>3 DEF Cleared, HasQueue, Removed
<1>5. PICK S : Books(S)
  BY <1>2 DEF Shape
<1>6. alarms \in Nat /\ qcnt \in Int /\ allocated_count \in Nat
  BY <1>1, Numeric
<1>7. (alarms \in Nat)' /\ (0 <= qcnt + alarms)'
  <2>1. 0 <= qcnt + alarms
    BY <1>1 DEF NotBelow
  <2> QED
    BY <1>3, <1>6, <2>1
<1>8. NotBelow'
  BY <1>7 DEF NotBelow
<1>9. Sound({}, Known', allocated_count', alarms')
  <2>1. Sound(Owned(S), Known, allocated_count + counting, alarms)
    BY <1>5 DEF Books
  <2>2. counting \in {-1, 0, 1}
    BY DEF counting
  <2>3. PICK there : there = Known'
    OBVIOUS
  <2>4. /\ Cardinality(Known) \in Nat /\ Cardinality(there) \in Nat
        /\ Cardinality(Known) <= Cardinality(there) + 1
        /\ counting # 1 => Cardinality(Known) <= Cardinality(there)
    BY <1>1, <1>3, <2>3, JumpLoses
  <2>5. allocated_count + counting <= Cardinality(Known) + alarms
    BY <2>1 DEF Sound
  <2>6. allocated_count <= Cardinality(there) + (alarms + 1)
    BY <1>6, <2>2, <2>4, <2>5
  <2>7. alarms + 1 # 0 /\ 0 <= allocated_count
    BY <1>6
  <2>8. Sound({}, there, allocated_count, alarms + 1)
    BY <2>6, <2>7, FS_EmptySet DEF Sound
  <2> QED
    BY <1>3, <2>3, <2>8
<1>10. \E n, F, i, G : Shape(n, F, i, G)'
  <2>1. counting' = 0 /\ pc' \in {"prompt", "exit", "interrupted", "q_new"}
    BY <1>3
  <2> QED
    BY <1>4, <1>7, <1>9, <2>1, NoLists
<1> QED
  BY <1>8, <1>10

LEMMA JumpNumbers ==
    ASSUME IInv, HarnessInv, Jump, cmd \notin Freeing, AlarmOrNull, alarms' \in Nat \ {0},
           NEW k, NEW L, NEW m, NEW M, Shape(k, L, m, M)
    PROVE  Numbers(k, 0)' /\ NotBelow'
<1>1. TypeOK /\ Control /\ NotBelow
  BY DEF IInv
<1>2. /\ pc' = "interrupted" /\ counting' = 0
      /\ UNCHANGED <<next, q, head, size, allocated_count, cmd>>
      /\ rval' => rval /\ pc = "cancel"
      /\ (Known \ IF counting = 1 THEN {blk} ELSE {}) \subseteq Known'
      /\ Known \in SUBSET Blocks /\ Known' \in SUBSET Blocks
  BY <1>1, Jumped
<1>3. ~Taking' /\ ~Cleared' /\ ~Cleared
  BY <1>2 DEF Taking, Cleared
<1>4. /\ Turning' = 0 /\ In' = 0 /\ Ahead' = 0 /\ Room' = 0
      /\ Out' = One(Removed') /\ Behind' = One(Removed')
  BY <1>2 DEF Turning, In, Ahead, Room, Out, Behind, One, Linked, Grown, Unlinked, Shrunk, Removed
<1>5. Removed' => Removed /\ pc = "cancel"
  BY <1>2 DEF Removed
<1>6. Out' \in {0, 1} /\ Out' <= Out /\ Behind' = Out' /\ In \in {0, 1} /\ Behind \in {0, 1}
  <2>1. Out' = (IF Removed' THEN 1 ELSE 0) /\ Behind' = Out'
    BY <1>4 DEF One
  <2>2. Out = (IF Unlinked THEN 1 ELSE 0) /\ In = (IF Linked THEN 1 ELSE 0)
        /\ Behind = (IF Removed THEN 1 ELSE 0)
    BY DEF Out, In, Behind, One
  <2>3. Removed' => Unlinked
    BY <1>5 DEF Unlinked, Shrunk
  <2> QED
    BY <2>1, <2>2, <2>3
<1>7. /\ qcnt \in Int /\ size \in Nat /\ alarms \in Nat /\ m \in Nat /\ k \in Nat
      /\ Turning \in Nat /\ Out \in Nat /\ In \in Nat /\ Ahead \in Nat /\ Behind \in Nat /\ Room \in Nat
  BY <1>1, Numeric, Bits, Starts
<1>8. ~Taking \/ cmd \in Freeing
  BY DEF Taking
<1>9. /\ k + m + Turning + Out <= qcnt + In + alarms
      /\ qcnt + Ahead <= Cardinality(EleBlocks(Known)) + alarms + Behind
  BY <1>3, <1>8 DEF Shape, Numbers
<1>10. 0 <= qcnt + alarms
  BY <1>1 DEF NotBelow
<1>11. PICK card, there :
          card = Cardinality(EleBlocks(Known)) /\ there = Cardinality(EleBlocks(Known'))
  OBVIOUS
<1>12. /\ card \in Nat /\ there \in Nat /\ card <= there + 1
       /\ counting # 1 \/ pc # "malloc value" => card <= there
  <2>1. PICK blks : blks = Known'
    OBVIOUS
  <2>2. /\ Cardinality(EleBlocks(blks)) \in Nat /\ Cardinality(EleBlocks(Known)) \in Nat
        /\ Cardinality(EleBlocks(Known)) <= Cardinality(EleBlocks(blks)) + 1
        /\ counting # 1 \/ pc # "malloc value" =>
              Cardinality(EleBlocks(Known)) <= Cardinality(EleBlocks(blks))
    BY <1>1, <1>2, <2>1, JumpLoses
  <2>3. card = Cardinality(EleBlocks(Known)) /\ there = Cardinality(EleBlocks(blks))
    BY <1>11, <2>1
  <2> HIDE DEF EleBlocks
  <2> QED
    BY <2>2, <2>3
<1>22. pc = "malloc value" => Room = 1 /\ Behind = 0
  BY DEF Room, Behind, Removed, One
<1>13. PICK turning, out, in, ahead, behind, after :
          /\ turning = Turning /\ out = Out /\ in = In /\ ahead = Ahead /\ behind = Behind
          /\ after = Out'
  OBVIOUS
<1>14. /\ 0 <= qcnt + (alarms + 1) /\ k + after <= qcnt + (alarms + 1)
       /\ qcnt <= there + (alarms + 1) + after
       /\ counting = 0 /\ behind = 0 /\ after = 0 /\ (in = 0 \/ k = 0) =>
             k + after <= qcnt + alarms /\ qcnt + ahead <= there + alarms + after
  <2>1. /\ turning \in Nat /\ out \in Nat /\ ahead \in Nat
        /\ in \in {0, 1} /\ behind \in {0, 1} /\ after \in {0, 1} /\ after <= out
    BY <1>6, <1>7, <1>13
  <2>2. k + m + turning + out <= qcnt + in + alarms /\ qcnt + ahead <= card + alarms + behind
    BY <1>9, <1>11, <1>13
  <2>3. card <= there \/ (card <= there + 1 /\ behind = 0 /\ counting # 0)
    <3>1. CASE counting # 1 \/ pc # "malloc value"
      BY <1>12, <3>1
    <3>2. CASE counting = 1 /\ pc = "malloc value"
      <4>1. behind = 0
        BY <1>13, <1>22, <3>2
      <4>2. card <= there + 1
        BY <1>12
      <4>3. counting = 1
        BY <3>2
      <4>4. counting # 0
        BY <4>3
      <4> QED
        BY <4>1, <4>2, <4>4
    <3> QED
      BY <3>1, <3>2
  <2>4. PICK x, a : x = qcnt /\ a = alarms
    OBVIOUS
  <2>5. x \in Int /\ a \in Nat /\ k \in Nat /\ m \in Nat /\ card \in Nat /\ there \in Nat
    BY <1>7, <1>12, <2>4
  <2>6. /\ k + m + turning + out <= x + in + a /\ x + ahead <= card + a + behind
        /\ 0 <= x + a
    BY <1>10, <2>2, <2>4
  <2>7. /\ 0 <= x + (a + 1) /\ k + after <= x + (a + 1)
        /\ behind = 0 /\ after = 0 /\ (in = 0 \/ k = 0) => k + after <= x + a
    <3> HIDE DEF EleInHand, Freeing
    <3> QED
      BY <2>1, <2>5, <2>6
  <2>8. /\ x <= there + (a + 1) + after
        /\ counting = 0 /\ behind = 0 /\ after = 0 => x + ahead <= there + a + after
    <3> HIDE DEF EleInHand, Freeing
    <3> QED
      BY <2>1, <2>3, <2>5, <2>6
  <2> QED
    BY <2>4, <2>7, <2>8
<1>15. /\ alarms' \in Nat /\ qcnt' \in Int
       /\ 0 <= qcnt' + alarms' /\ k + after <= qcnt' + alarms'
       /\ qcnt' <= there + alarms' + after
  <2>1. CASE alarms' = alarms + 1 /\ qcnt' = qcnt
    BY <1>7, <1>14, <2>1
  <2>2. CASE alarms' = alarms /\ step = "none" /\ pc \in {"link tail", "remove"} /\ qcnt' = qcnt
    <3>1. behind = 0 /\ after = 0 /\ in = 0 /\ counting = 0
      BY <1>4, <1>5, <1>13, <2>2, AtRest DEF Behind, Removed, One, In, Linked, Grown
    <3>2. ahead \in Nat
      BY <1>7, <1>13
    <3>3. k + after <= qcnt + alarms /\ qcnt + ahead <= there + alarms + after
      BY <1>14, <3>1
    <3>4. alarms' = alarms /\ qcnt' = qcnt
      BY <2>2
    <3> HIDE DEF EleInHand, Freeing
    <3> QED
      BY <1>7, <1>10, <1>12, <3>1, <3>2, <3>3, <3>4
  <2>3. CASE /\ alarms' = alarms /\ step = "none" /\ pc = "return" /\ rval /\ head = NULL
             /\ qcnt' = qcnt + 1
    <3>1. behind = 0 /\ after = 0 /\ counting = 0 /\ ahead = 1
      BY <1>4, <1>5, <1>13, <2>3, AtRest DEF Behind, Removed, One, Ahead, Grown
    <3>2. k = 0
      <4>1. Front = NULL
        BY <2>3 DEF Front
      <4> QED
        BY <4>1, Starts
    <3>3. k + after <= qcnt + alarms /\ qcnt + ahead <= there + alarms + after
      BY <1>14, <3>1, <3>2
    <3> HIDE DEF EleInHand, Freeing
    <3> QED
      BY <1>7, <1>10, <1>12, <2>3, <3>1, <3>2, <3>3
  <2> QED
    BY <2>1, <2>2, <2>3 DEF AlarmOrNull
<1>16. Live' => Live
  BY <1>2, <1>3, <1>8 DEF Live, HasQueue
<1>17. Live => size + Room <= card
  BY <1>11 DEF Shape, Numbers
<1>18. k + 0 + Turning' + Out' <= qcnt' + In' + alarms'
  <2>1. Out' \in Nat
    BY <1>6
  <2> HIDE DEF EleInHand, Freeing
  <2> QED
    BY <1>4, <1>7, <1>13, <1>15, <2>1
<1>19. qcnt' + Ahead' <= Cardinality(EleBlocks(Known')) + alarms' + Behind'
  <2>1. qcnt' + 0 <= there + alarms' + after
    BY <1>15
  <2> QED
    BY <1>4, <1>6, <1>11, <1>13, <2>1
<1>20. Live' => size' + Room' <= Cardinality(EleBlocks(Known'))
  <2>1. Live => size <= there
    <3>1. CASE counting # 1 \/ pc # "malloc value"
      <4>1. card <= there /\ card \in Nat /\ there \in Nat
        BY <1>12, <3>1
      <4> HIDE DEF EleInHand, Freeing
      <4> QED
        BY <1>7, <1>17, <4>1
    <3>2. CASE pc = "malloc value"
      <4>1. Live => size + 1 <= card /\ card <= there + 1
        BY <1>12, <1>17, <1>22, <3>2
      <4>2. card \in Nat /\ there \in Nat
        BY <1>12
      <4> HIDE DEF EleInHand, Freeing
      <4> QED
        BY <1>7, <4>1, <4>2
    <3> QED
      BY <3>1, <3>2
  <2>2. Live' => size + 0 <= there
    BY <1>7, <1>16, <2>1
  <2> QED
    BY <1>2, <1>4, <1>11, <2>2
<1>21. NotBelow'
  BY <1>15 DEF NotBelow
<1> QED
  BY <1>18, <1>19, <1>20, <1>21 DEF Numbers, EleBlocks

LEMMA JumpShape ==
    ASSUME IInv, HarnessInv, Jump, cmd \notin Freeing, cmd # "none", pc # "interrupted", AlarmOrNull,
           alarms' \in Nat \ {0},
           NEW k, NEW L, NEW m, NEW M, Shape(k, L, m, M)
    PROVE  Shape(k, L, 0, Nothing)'
<1>1. TypeOK /\ Control
  BY DEF IInv
<1>2. /\ pc' = "interrupted" /\ counting' = 0
      /\ held' = IF cmd \in {"ih", "it", "rh", "reverse"} /\ q # NULL THEN Broken ELSE held
      /\ UNCHANGED <<next, value, q, head, tail, size, allocated_count, cmd, str, ele, ptr>>
      /\ rval' => rval /\ pc = "cancel"
  BY <1>1, Jumped
<1>3. ~Taking /\ ~Cleared /\ ~Taking' /\ ~Cleared'
  <2>1. pc \in {"free next", "free value", "free ele"} => ~(cmd \in Freeing)
    OBVIOUS
  <2> QED
    BY <1>2, <2>1 DEF Taking, Cleared
<1>4. (HasQueue <=> q # NULL) /\ (HasQueue' <=> q # NULL) /\ (Live <=> q # NULL) /\ (Live' <=> q # NULL)
  BY <1>2, <1>3 DEF HasQueue, Live
<1>5. Front' = Front /\ Rest' = NULL
  BY <1>2, <1>3, <1>4 DEF Front, Rest
<1>6. Chain(next, Front, k, L)' /\ k \in Nat
  <2>1. Chain(next, Front, k, L)
    BY DEF Shape
  <2> QED
    BY <1>2, <1>5, <2>1, ChainStart
<1>7. Chain(next, Rest, 0, Nothing)' /\ Members(0, Nothing) = {}
  BY <1>5, ChainNone
<1>8. Books(Members(k, L) \cup Members(0, Nothing))'
  <2>1. PICK S, T : S = Members(k, L) \cup Members(m, M) /\ T = Members(k, L)
    OBVIOUS
  <2>2. Books(S) /\ S \subseteq Elements /\ T \subseteq S
    BY <2>1, Starts DEF Shape
  <2>3. pc \in EleInHand => ele \in Elements \ S
    BY <2>1 DEF Shape
  <2>4. alarms' = alarms + 1 \/ (alarms' = alarms /\ counting = 0)
    BY AtRest DEF AlarmOrNull
  <2>5. Books(T)'
    <3> HIDE DEF Freeing, EleInHand
    <3> QED
      BY <1>1, <2>2, <2>3, <2>4, JumpBooks
  <2>6. T = Members(k, L) \cup Members(0, Nothing)
    BY <1>7, <2>1
  <2> QED
    BY <2>5, <2>6
<1>9. Numbers(k, 0)'
  <2> HIDE DEF Freeing
  <2> QED
    BY JumpNumbers
<1>10. Whole' => /\ Whole /\ pc = "cancel" /\ q # NULL /\ held' = held
                 /\ cmd \in {"new", "size", "show"} /\ qcnt' = qcnt
  <2> SUFFICES ASSUME Whole' PROVE /\ Whole /\ pc = "cancel" /\ q # NULL /\ held' = held
                                   /\ cmd \in {"new", "size", "show"} /\ qcnt' = qcnt
    OBVIOUS
  <2>1. held' # Broken /\ q # NULL
    BY <1>4 DEF Whole
  <2>2. cmd \notin {"ih", "it", "rh", "reverse"} /\ held' = held
    BY <1>2, <2>1
  <2>3. Whole
    BY <1>4, <2>1, <2>2 DEF Whole
  <2>4. pc = "cancel"
    BY <1>1, <2>1, <2>2 DEF Control, TypeOK, Labels
  <2>5. cmd \in {"new", "size", "show"}
    BY <1>1, <2>2 DEF TypeOK, Commands
  <2>6. qcnt' = qcnt
    BY <2>4 DEF AlarmOrNull
  <2> QED
    BY <2>1, <2>2, <2>3, <2>4, <2>5, <2>6
<1>11. pc = "cancel" => m = 0
  <2>1. pc = "cancel" => Rest = NULL
    BY <1>3 DEF Rest
  <2> QED
    BY <2>1, Starts
<1>12. Whole' => Sizes(k, 0)'
  <2> SUFFICES ASSUME Whole' PROVE Sizes(k, 0)'
    OBVIOUS
  <2>1. Sizes(k, m) /\ m = 0 /\ pc = "cancel" /\ cmd \in {"new", "size", "show"}
    BY <1>10, <1>11 DEF Shape
  <2>2. /\ ~Linked /\ ~Linked' /\ ~Unlinked /\ ~Unlinked' /\ ~Grown /\ ~Grown'
        /\ ~Shrunk /\ ~Shrunk' /\ ~Removed /\ ~Removed'
    BY <1>2, <2>1 DEF Linked, Grown, Unlinked, Shrunk, Removed
  <2>3. Turning = 0 /\ Late = 0 /\ Early = 0 /\ More = 0 /\ Fewer = 0
    BY <2>1, <2>2 DEF Turning, Late, Early, More, Fewer, One
  <2>4. Turning' = 0 /\ Late' = 0 /\ Early' = 0 /\ More' = 0 /\ Fewer' = 0
    BY <1>2, <2>2 DEF Turning, Late, Early, More, Fewer, One
  <2>5. cmd' = cmd /\ size' = size /\ qcnt' = qcnt
    BY <1>2, <1>10
  <2> QED
    BY <2>1, <2>3, <2>4, <2>5 DEF Sizes
<1>13. Whole' => Tails(k, L, 0, Nothing)'
  <2> SUFFICES ASSUME Whole' PROVE Tails(k, L, 0, Nothing)'
    OBVIOUS
  <2>1. Tails(k, L, m, M) /\ pc = "cancel" /\ cmd \in {"new", "size", "show"}
    BY <1>10 DEF Shape
  <2>2. (cmd = "new" => k = 0) /\ tail = IF k = 0 THEN NULL ELSE L[k]
    BY <2>1 DEF Tails
  <2>3. ~Linked'
    BY <1>2 DEF Linked, Grown
  <2>4. cmd' = cmd /\ tail' = tail /\ pc' = "interrupted"
    BY <1>2
  <2> QED
    BY <2>2, <2>3, <2>4 DEF Tails
<1>14. Whole' => Says(k, L, 0, Nothing)'
  <2> SUFFICES ASSUME Whole' PROVE Says(k, L, 0, Nothing)'
    OBVIOUS
  <2>1. Says(k, L, m, M) /\ pc = "cancel" /\ cmd \in {"new", "size", "show"} /\ held' = held
    BY <1>10 DEF Shape
  <2>2. ~Linked /\ ~Linked' /\ ~Unlinked /\ ~Unlinked'
    BY <1>2, <2>1 DEF Linked, Grown, Unlinked, Shrunk, Removed
  <2>3. cmd # "new" => held = [j \in 1 .. k |-> value[L[j]]]
    BY <2>1, <2>2 DEF Says
  <2>4. cmd' = cmd /\ value' = value /\ pc' = "interrupted"
    BY <1>2
  <2>5. cmd' # "new" => held' = [j \in 1 .. k |-> value'[L[j]]]
    BY <2>1, <2>3, <2>4
  <2> QED
    BY <2>2, <2>4, <2>5 DEF Says
<1>15. /\ \A i \in 1 .. k, j \in 1 .. 0 : L[i] # Nothing[j]
       /\ pc' \notin EleInHand
  BY <1>2
<1> QED
  BY <1>6, <1>7, <1>8, <1>9, <1>12, <1>13, <1>14, <1>15 DEF Shape

LEMMA JumpStep ==
    ASSUME IInv, HarnessInv, Jump, pc \notin {"prompt", "interrupted", "exit"}, AlarmOrNull,
           alarms' \in 1 .. MaxAlarms, cmd \in Freeing => alarms' = alarms + 1
    PROVE  IInv'
<1>1. TypeOK /\ Control
  BY DEF IInv
<1>3. alarms' \in Nat \ {0}
  BY QTestAssumption
<1>2. /\ pc' = "interrupted" /\ counting' = 0
      /\ held' = IF cmd \in {"ih", "it", "rh", "reverse"} /\ q # NULL THEN Broken ELSE held
      /\ UNCHANGED <<next, value, q, head, tail, size, allocated_count, cautious_mode, cmd, str,
                     ele, ptr, fail_count, err_cnt>>
      /\ {rval', error_occurred', ok'} \subseteq BOOLEAN /\ HarnessTypeOK'
  BY <1>1, <1>3, Jumped
<1>4. TypeOK'
  <2>1. qcnt' \in -MaxAlarms .. Cardinality(Elements) + MaxAlarms
    <3>1. CASE qcnt' = qcnt
      BY <1>1, <3>1 DEF TypeOK
    <3>2. CASE pc = "return" /\ rval /\ qcnt' = qcnt + 1 /\ alarms' = alarms
      <4>1. PICK k, L, m, M : Shape(k, L, m, M)
        BY DEF IInv
      <4>2. qcnt + Ahead <= Cardinality(EleBlocks(Known)) + alarms + Behind
        BY <3>2, <4>1 DEF Shape, Numbers, Taking, Cleared
      <4>3. Ahead = 1 /\ Behind = 0
        BY <3>2 DEF Ahead, Behind, Grown, Removed, One
      <4>4. qcnt \in -MaxAlarms .. Cardinality(Elements) + MaxAlarms
        BY <1>1 DEF TypeOK
      <4>5. /\ Cardinality(EleBlocks(Known)) \in Nat /\ Cardinality(Elements) \in Nat
            /\ Cardinality(EleBlocks(Known)) <= Cardinality(Elements)
            /\ alarms \in Nat /\ alarms <= MaxAlarms /\ MaxAlarms \in Nat
        BY <1>1, <3>2, Numeric, QTestAssumption
      <4> HIDE DEF EleInHand, Freeing, EleBlocks
      <4> QED
        BY <3>2, <4>2, <4>3, <4>4, <4>5
    <3> QED
      BY <3>1, <3>2 DEF AlarmOrNull
  <2> QED
    BY <1>1, <1>2, <2>1 DEF TypeOK, Labels
<1>5. cmd # "none"
  BY <1>1 DEF Control, TypeOK, Labels
<1>6. Control'
  <2>1. Result'
    <3>1. rval' => rval /\ pc = "cancel"
      BY <1>1, <1>3, Jumped
    <3>2. rval /\ cmd = "rh" => q # NULL
      BY <1>1 DEF Control, Result
    <3> QED
      BY <1>2, <3>1, <3>2 DEF Result
  <2>2. ((q = NULL \/ cmd = "new") => held = NoQueue) /\ (cmd \in Inserting => str \in Strings)
    BY <1>1 DEF Control
  <2>3. counting' # 1 /\ counting' # -1
    BY <1>2, Signs
  <2>4. alarms' # 0 /\ alarms' \in 0 .. MaxAlarms
    BY <1>3
  <2> QED
    BY <1>2, <1>5, <2>1, <2>2, <2>3, <2>4 DEF Control
<1>7. NotBelow' /\ \E n, F, i, G : Shape(n, F, i, G)'
  <2> HIDE DEF Freeing
  <2>1. CASE cmd \in Freeing
    <3>1. alarms' = alarms + 1 /\ qcnt' = qcnt
      <4>1. alarms \in Nat
        BY <1>1, Numeric
      <4>2. alarms' = alarms + 1 /\ alarms' # alarms
        BY <2>1, <4>1
      <4> QED
        BY <4>2 DEF AlarmOrNull
    <3> QED
      BY <1>4, <2>1, <3>1, JumpFreeing
  <2>2. CASE cmd \notin Freeing
    <3>1. PICK k, L, m, M : Shape(k, L, m, M)
      BY DEF IInv
    <3>2. NotBelow'
      BY <1>3, <2>2, <3>1, JumpNumbers
    <3>3. Shape(k, L, 0, Nothing)'
      BY <1>3, <1>5, <2>2, <3>1, JumpShape
    <3> QED
      BY <3>2, <3>3
  <2> QED
    BY <2>1, <2>2
<1> QED
  BY <1>4, <1>6, <1>7 DEF IInv

LEMMA TimeLimitStep == IInv /\ HarnessInv /\ TimeLimit => IInv'
<1> SUFFICES ASSUME IInv, HarnessInv, TimeLimit PROVE IInv'
  OBVIOUS
<1>1. /\ Jump /\ pc \notin {"prompt", "interrupted", "exit"}
      /\ alarms < MaxAlarms /\ alarms' = alarms + 1 /\ qcnt' = qcnt
  BY DEF TimeLimit
<1>2. alarms \in Nat
  BY Numeric DEF IInv
<1>3. alarms' \in 1 .. MaxAlarms
  BY <1>1, <1>2, QTestAssumption
<1>4. AlarmOrNull
  BY <1>1 DEF AlarmOrNull
<1> QED
  BY <1>1, <1>3, <1>4, JumpStep

(* The queue's own pointers are NULL where they are used only after an     *)
(* alarm.                                                                  *)
LEMMA NullAfterAlarm ==
    ASSUME IInv, Segfault
    PROVE  /\ held = Broken /\ q # NULL /\ alarms \in 1 .. MaxAlarms /\ cmd \notin Freeing
           /\ pc \in {"link tail", "remove"} \/ (pc = "return" /\ rval /\ head = NULL)
<1>1. TypeOK /\ Control
  BY DEF IInv
<1>2. PICK k, L, m, M : Shape(k, L, m, M)
  BY DEF IInv
<1>3. PICK block \in Touched : block[2] = NULL
  BY DEF Segfault
<1>4. NULL \notin Elements
  BY QueueAssumption
<1>5. pc \in EleInHand => ele # NULL
  BY <1>2, <1>4 DEF Shape
<1>6. \/ pc = "link tail" /\ tail = NULL
      \/ pc = "remove" /\ q # NULL /\ size # 0 /\ head = NULL
      \/ pc = "return" /\ rval /\ head = NULL
  <2>1. pc \in {"free next", "unlink"} => q # NULL
    BY <1>1 DEF Control
  <2>2. pc = "unlink" => head # NULL
    BY <1>1 DEF Control
  <2>3. CASE pc \in {"free value", "free ele", "store", "malloc value"}
    <3>1. Touched \subseteq {<<"ele", ele>>, <<"value", ele>>}
      BY <2>3 DEF Touched
    <3>2. block[2] = ele
      BY <1>3, <3>1
    <3> QED
      BY <1>3, <1>5, <2>3, <3>2
  <2>4. CASE pc = "free next"
    <3>1. Touched = IF ptr # NULL THEN {<<"ele", ptr>>} ELSE {<<"queue", q>>}
      BY <2>4 DEF Touched
    <3>2. block[2] = IF ptr # NULL THEN ptr ELSE q
      BY <1>3, <3>1
    <3> QED
      BY <1>3, <2>1, <2>4, <3>2
  <2>5. CASE pc = "unlink"
    BY <1>3, <2>2, <2>5 DEF Touched
  <2>6. CASE pc = "turn"
    BY <1>3, <2>6 DEF Touched
  <2>7. CASE pc \in {"link tail", "remove", "return"}
    <3>1. CASE pc = "link tail"
      <4>1. Touched = {<<"ele", tail>>}
        BY <3>1 DEF Touched
      <4>2. tail = NULL
        BY <1>3, <4>1
      <4> QED
        BY <3>1, <4>2
    <3>2. CASE pc = "remove"
      <4>1. q # NULL /\ size # 0
        BY <1>3, <3>2 DEF Touched
      <4>2. Touched = {<<"ele", head>>, <<"value", head>>}
        BY <3>2, <4>1 DEF Touched
      <4>3. head = NULL
        BY <1>3, <4>2
      <4> QED
        BY <3>2, <4>1, <4>3
    <3>3. CASE pc = "return"
      <4>1. rval
        BY <1>3, <3>3 DEF Touched
      <4>2. Touched = {<<"ele", head>>}
        BY <3>3, <4>1 DEF Touched
      <4>3. head = NULL
        BY <1>3, <4>2
      <4> QED
        BY <3>3, <4>1, <4>3
    <3> QED
      BY <2>7, <3>1, <3>2, <3>3
  <2>8. CASE pc \notin {"free value", "free ele", "store", "malloc value", "free next", "unlink",
                        "turn", "link tail", "remove", "return"}
    BY <1>3, <2>8 DEF Touched
  <2> QED
    BY <2>3, <2>4, <2>5, <2>6, <2>7, <2>8
<1>7. q # NULL
  <2>1. pc = "link tail" => q # NULL
    BY <1>1 DEF Control
  <2>2. pc = "return" /\ rval => q # NULL
    BY <1>1 DEF Control, Result
  <2> QED
    BY <1>6, <2>1, <2>2
<1>8. cmd \notin Freeing
  BY <1>1, <1>6 DEF Control
<1>9. held = Broken
  <2> SUFFICES ASSUME held # Broken PROVE FALSE
    OBVIOUS
  <2>1. ~Taking /\ ~Cleared
    BY <1>8 DEF Taking, Cleared
  <2>2. Live
    BY <1>7, <2>1 DEF Live, HasQueue
  <2>3. Whole
    BY <2>2 DEF Whole
  <2>4. Sizes(k, m) /\ Tails(k, L, m, M)
    BY <1>2, <2>3 DEF Shape
  <2>5. Chain(next, head, k, L)
    BY <1>2, <2>2 DEF Shape, Front
  <2>6. k \in Nat /\ (k > 0 => L[k] # NULL /\ head # NULL)
    <3>1. k \in Nat /\ L \in [1 .. k -> Elements] /\ head = IF k = 0 THEN NULL ELSE L[1]
      BY <2>5 DEF Chain
    <3> QED
      BY <1>4, <3>1
  <2>7. CASE pc = "link tail" /\ tail = NULL
    BY <2>4, <2>6, <2>7 DEF Tails
  <2>8. CASE pc = "return" /\ rval /\ head = NULL
    <3>1. Linked
      BY <2>8 DEF Linked, Grown
    <3>2. k > 0
      BY <2>4, <3>1 DEF Tails
    <3> QED
      BY <2>6, <2>8, <3>2
  <2>9. CASE pc = "remove" /\ q # NULL /\ size # 0 /\ head = NULL
    <3>1. Rest = NULL
      BY <2>1, <2>9 DEF Rest
    <3>2. m = 0
      BY <1>2, <3>1, Starts
    <3>3. Turning = 0 /\ Late = 0 /\ Early = 0
      BY <2>9 DEF Turning, Late, Early, One
    <3>4. size + Late = k + m + Turning + Early
      BY <2>4 DEF Sizes
    <3>5. size \in Nat
      BY <1>1, Numeric
    <3>6. size = k
      BY <2>6, <3>2, <3>3, <3>4, <3>5
    <3> QED
      BY <2>6, <2>9, <3>5, <3>6
  <2> QED
    BY <1>6, <2>7, <2>8, <2>9
<1>10. alarms \in 1 .. MaxAlarms
  <2>1. alarms \in 0 .. MaxAlarms /\ alarms # 0
    BY <1>1, <1>9 DEF Control
  <2> QED
    BY <2>1, QTestAssumption
<1> QED
  BY <1>6, <1>7, <1>8, <1>9, <1>10

LEMMA NullDereferencedStep == IInv /\ HarnessInv /\ NullDereferenced => IInv'
<1> SUFFICES ASSUME IInv, HarnessInv, NullDereferenced PROVE IInv'
  OBVIOUS
<1>1. /\ Jump /\ step = "none" /\ Segfault /\ alarms' = alarms
      /\ qcnt' = IF pc = "return" THEN qcnt + 1 ELSE qcnt
  BY DEF NullDereferenced
<1>2. /\ held = Broken /\ q # NULL /\ alarms \in 1 .. MaxAlarms /\ cmd \notin Freeing
      /\ pc \in {"link tail", "remove"} \/ (pc = "return" /\ rval /\ head = NULL)
  BY <1>1, NullAfterAlarm
<1>3. AlarmOrNull
  BY <1>1, <1>2 DEF AlarmOrNull
<1>4. pc \notin {"prompt", "interrupted", "exit"}
  BY <1>2
<1>5. alarms' \in 1 .. MaxAlarms
  BY <1>1, <1>2
<1> QED
  BY <1>1, <1>2, <1>3, <1>4, <1>5, JumpStep

-----------------------------------------------------------------------------
(* The whole system.                                                       *)
LEMMA HarnessInitially ==
    ASSUME HarnessInit, alarms = 0
    PROVE  /\ HarnessInv /\ Known = {} /\ counting = 0
           /\ allocated_count = 0 /\ cautious_mode = TRUE
<1>1. /\ live = {} /\ allocated = NULL /\ allocated_count = 0 /\ cautious_mode = TRUE
      /\ bnext = [b \in Blocks |-> NULL] /\ bprev = [b \in Blocks |-> NULL]
      /\ step = "none" /\ blk = NULL /\ torn = FALSE
  BY DEF HarnessInit
<1>2. HarnessTypeOK
  BY <1>1 DEF HarnessTypeOK
<1>3. Listed = {}
  <2>1. {} \in SUBSET Blocks
    OBVIOUS
  <2> QED
    BY <1>1, <2>1 DEF Listed, Reach
<1>4. ~Adding /\ ~Removing /\ counting = 0 /\ Prevs = bprev
  BY <1>1 DEF Adding, Removing, counting, Prevs
<1>5. BackLinked(allocated, bnext, Prevs)
  BY <1>1, <1>3 DEF BackLinked, Listed
<1>6. HarnessInv
  BY <1>1, <1>2, <1>3, <1>4, <1>5 DEF HarnessInv
<1> QED
  BY <1>1, <1>3, <1>4, <1>6 DEF Known

LEMMA Initially == Init => IInv /\ HarnessInv /\ GoesOn
<1> SUFFICES ASSUME Init PROVE IInv /\ HarnessInv /\ GoesOn
  OBVIOUS
<1>15. HarnessInit /\ alarms = 0
  BY DEF Init
<1>16. /\ HarnessInv /\ Known = {} /\ counting = 0 /\ allocated_count = 0 /\ cautious_mode = TRUE
       /\ HarnessTypeOK
  BY <1>15, HarnessInitially DEF HarnessInv
<1>1. /\ next = [e \in Elements |-> NULL] /\ value = [e \in Elements |-> Blank]
      /\ q = NULL /\ head = NULL /\ tail = NULL /\ size = 0
      /\ Known = {} /\ allocated_count = 0 /\ counting = 0
      /\ pc = "prompt" /\ cmd = "none" /\ str = Blank /\ ele = NULL /\ ptr = NULL
      /\ qcnt = 0 /\ fail_count = 0 /\ err_cnt = 0 /\ alarms = 0 /\ held = NoQueue
  BY <1>16 DEF Init
<1>2. ~rval /\ {rval, error_occurred, ok} \subseteq BOOLEAN
  BY DEF Init
<1>3. /\ Cardinality(Elements) \in Nat /\ Cardinality(Blocks) \in Nat /\ Cardinality({}) = 0
      /\ MaxAlarms \in Nat /\ fail_limit \in Nat /\ err_limit \in Nat \ {0}
  BY BlocksFinite, QTestAssumption, FS_EmptySet
<1>4. TypeOK
  <2>1. /\ 0 \in 0 .. Cardinality(Elements) /\ 0 \in 0 .. Cardinality(Blocks) + MaxAlarms
        /\ 0 \in -MaxAlarms .. Cardinality(Elements) + MaxAlarms
        /\ 0 \in 0 .. fail_limit /\ 0 \in 0 .. err_limit
    BY <1>3
  <2>2. /\ next \in [Elements -> Elements \cup {NULL}] /\ value \in [Elements -> Strings \cup {Blank}]
    BY <1>1
  <2>3. pc \in Labels /\ cmd \in Commands \cup {"none", "renew"}
    BY <1>1 DEF Labels
  <2> QED
    BY <1>1, <1>2, <1>16, <2>1, <2>2, <2>3 DEF TypeOK
<1>5. Control
  <2>1. counting # 1 /\ counting # -1
    BY <1>1, Signs
  <2>2. alarms \in 0 .. MaxAlarms /\ NoQueue # Broken
    BY <1>1, <1>3, QTestAssumption
  <2>3. Result
    BY <1>1, <1>2 DEF Result
  <2> QED
    BY <1>1, <2>1, <2>2, <2>3 DEF Control
<1>6. NotBelow
  BY <1>1 DEF NotBelow
<1>7. ~HasQueue /\ ~Live /\ ~Whole /\ Front = NULL /\ Rest = NULL /\ Pending = {}
  BY <1>1 DEF HasQueue, Live, Whole, Front, Rest, Taking, Pending
<1>8. Chain(next, Front, 0, Nothing) /\ Chain(next, Rest, 0, Nothing) /\ Members(0, Nothing) = {}
  BY <1>7, ChainNone
<1>9. Books({})
  <2>1. Owned({}) = {}
    BY <1>7 DEF Owned
  <2>2. Sound({}, {}, 0, 0)
    BY <1>3 DEF Sound
  <2>3. counting # -1
    BY <1>1, Signs
  <2>4. allocated_count + counting = 0
    BY <1>1
  <2> QED
    BY <1>1, <2>1, <2>2, <2>3, <2>4 DEF Books
<1>10. Numbers(0, 0)
  <2>1. Turning = 0 /\ Out = 0 /\ In = 0 /\ Ahead = 0 /\ Behind = 0
    BY <1>1, <1>2 DEF Turning, Out, In, Ahead, Behind, One, Unlinked, Shrunk, Removed, Linked, Grown
  <2>2. Cardinality(EleBlocks(Known)) \in Nat
    BY <1>4, <1>5, Numeric
  <2>3. 0 + 0 + Turning + Out <= qcnt + In + alarms
    BY <1>1, <2>1
  <2>4. qcnt + Ahead <= Cardinality(EleBlocks(Known)) + alarms + Behind
    BY <1>1, <2>1, <2>2
  <2> QED
    BY <1>7, <2>3, <2>4 DEF Numbers
<1>11. (Members(0, Nothing) \cup Members(0, Nothing)) = {}
  BY <1>8
<1>12. Books(Members(0, Nothing) \cup Members(0, Nothing))
  BY <1>9, <1>11
<1>13. Shape(0, Nothing, 0, Nothing)
  <2>1. \A i \in 1 .. 0, j \in 1 .. 0 : Nothing[i] # Nothing[j]
    OBVIOUS
  <2>2. pc \notin EleInHand
    BY <1>1
  <2> QED
    BY <1>7, <1>8, <1>10, <1>12, <2>1, <2>2 DEF Shape
<1>14. GoesOn
  BY <1>1, <1>3 DEF GoesOn
<1> QED
  BY <1>4, <1>5, <1>6, <1>13, <1>14, <1>16 DEF IInv

(* Every step of the queue keeps the harness's invariant.                  *)
LEMMA OwnedIsKnown ==
    ASSUME IInv, NEW b, b \in Pending \/ (HasQueue /\ b = <<"queue", q>>)
    PROVE  b \in Known
<1>1. PICK S : Books(S)
  BY DEF IInv, Shape
<1>2. b \in Owned(S)
  BY DEF Owned
<1> QED
  BY <1>1, <1>2 DEF Books, Sound

LEMMA HarnessKept ==
    ASSUME IInv, HarnessInv, QueueStep, UNCHANGED alarms
    PROVE  HarnessInv'
<1>1. TypeOK /\ Control
  BY DEF IInv
<1>2. ASSUME NEW b \in Blocks, step = "none", test_malloc(b) PROVE HarnessInv'
  BY <1>2, MallocStep
<1>3. ASSUME NEW b, b \in Pending \/ (HasQueue /\ b = <<"queue", q>>), step = "none", test_free(b)
      PROVE  HarnessInv'
  <2>1. b \in Known
    BY <1>3, OwnedIsKnown
  <2> QED
    BY <1>3, <2>1, FreeStep
<1>4. ASSUME UNCHANGED harness PROVE HarnessInv'
  BY <1>4, HarnessSame
<1>5. CASE HarnessCall
  BY <1>1, <1>5, HarnessGoesOn, Numeric DEF HarnessCall
<1>6. CASE q_new
  <2>1. PICK b \in Queues : step = "none" /\ test_malloc(<<"queue", b>>)
    BY <1>6 DEF q_new
  <2> QED
    BY <1>2, <2>1 DEF Blocks
<1>7. CASE MallocEle
  <2>1. PICK e \in Elements : step = "none" /\ test_malloc(<<"ele", e>>)
    BY <1>7 DEF MallocEle
  <2> QED
    BY <1>2, <2>1 DEF Blocks
<1>8. CASE MallocValue
  <2>1. step = "none" /\ test_malloc(<<"value", ele>>) /\ pc = "malloc value"
    BY <1>8 DEF MallocValue
  <2>2. ele \in Elements
    BY <2>1 DEF IInv, Shape
  <2> QED
    BY <1>2, <2>1, <2>2 DEF Blocks
<1>9. CASE FreeValue
  <2>1. step = "none" /\ test_free(<<"value", ele>>) /\ pc = "free value"
    BY <1>9 DEF FreeValue
  <2>2. <<"value", ele>> \in Pending
    BY <2>1 DEF Pending
  <2> QED
    BY <1>3, <2>1, <2>2
<1>10. CASE FreeEle \/ MallocValueFails
  <2>1. step = "none" /\ test_free(<<"ele", ele>>) /\ pc \in {"free ele", "malloc value"}
    BY <1>10 DEF FreeEle, MallocValueFails, Return
  <2>2. <<"ele", ele>> \in Pending
    BY <2>1 DEF Pending
  <2> QED
    BY <1>3, <2>1, <2>2
<1>11. CASE FreeQueue
  <2>1. step = "none" /\ test_free(<<"queue", q>>) /\ pc = "free next"
    BY <1>11 DEF FreeQueue
  <2>2. HasQueue
    BY <1>1, <2>1 DEF HasQueue, Cleared, Control
  <2> QED
    BY <1>3, <2>1, <2>2
<1>12. CASE NewFails \/ Assign \/ q_free \/ FreeNext \/ InsertFails \/ Store
            \/ LinkHead \/ FirstTail \/ FirstHead \/ LinkTail \/ MoveTail \/ Grow \/ OnlyTail
            \/ RemoveNone \/ q_remove_head \/ Unlink \/ Shrink \/ NoHead \/ NoTail
            \/ q_reverse \/ TurnTail \/ TurnHead \/ TurnNext \/ Turned \/ TurnEnds
  <2>1. UNCHANGED harness
    BY <1>12 DEF NewFails, Assign, q_free, FreeNext, InsertFails, Store, LinkHead, FirstTail, FirstHead,
       LinkTail, MoveTail, Grow, OnlyTail, RemoveNone, q_remove_head, Unlink, Shrink, NoHead, NoTail,
       q_reverse, TurnTail, TurnHead, TurnNext, Turned, TurnEnds, SetHead, SetTail
  <2> QED
    BY <1>4, <2>1
<1> QED
  BY <1>5, <1>6, <1>7, <1>8, <1>9, <1>10, <1>11, <1>12 DEF QueueStep

LEMMA ExecuteStep == IInv /\ HarnessInv /\ Execute => IInv' /\ HarnessInv'
<1> SUFFICES ASSUME IInv, HarnessInv, Execute PROVE IInv' /\ HarnessInv'
  OBVIOUS
<1>1. QueueStep /\ alarms' = alarms
  BY DEF Execute
<1>2. HarnessInv'
  BY <1>1, HarnessKept
<1>3. InCall
  BY <1>2 DEF Execute, HarnessInv
<1> HIDE DEF InCall
<1> QED
  BY <1>1, <1>2, <1>3, HarnessCallStep, q_newStep, NewFailsStep, AssignStep, q_freeStep, FreeNextStep,
     FreeValueStep, FreeEleStep, FreeQueueStep, MallocEleStep, InsertFailsStep, MallocValueStep,
     MallocValueFailsStep, StoreStep, LinkHeadStep, FirstTailStep, FirstHeadStep, LinkTailStep,
     MoveTailStep, GrowStep, OnlyTailStep, RemoveNoneStep, q_remove_headStep, UnlinkStep, ShrinkStep,
     NoHeadStep, NoTailStep, q_reverseStep, TurnTailStep, TurnHeadStep, TurnNextStep, TurnedStep,
     TurnEndsStep DEF QueueStep

LEMMA StutterStep ==
    IInv /\ HarnessInv /\ GoesOn /\ UNCHANGED vars => IInv' /\ HarnessInv' /\ GoesOn'
<1> SUFFICES ASSUME IInv, HarnessInv, GoesOn, UNCHANGED vars
             PROVE  IInv' /\ HarnessInv' /\ GoesOn'
  OBVIOUS
<1>16. UNCHANGED <<blocks, cautious_mode, alarms>>
  BY DEF vars, calls
<1>17. HarnessInv' /\ HarnessTypeOK' /\ counting' = counting /\ Known' = Known
  BY <1>16, HarnessSame, KnownSame DEF HarnessInv
<1>1. TypeOK /\ Control /\ NotBelow
  BY DEF IInv
<1>2. PICK k, L, m, M : Shape(k, L, m, M)
  BY DEF IInv
<1>3. /\ UNCHANGED <<next, value, q, head, tail, size, Known, allocated_count, counting, pc, cmd,
                     str, ele, ptr, qcnt, fail_count, err_cnt, alarms, held>>
      /\ rval' = rval /\ error_occurred' = error_occurred /\ ok' = ok
  BY <1>17 DEF vars, calls
<1>4. TypeOK' /\ NotBelow' /\ GoesOn'
  <2>1. {rval', error_occurred', ok'} \subseteq BOOLEAN
    BY <1>1, <1>3 DEF TypeOK
  <2>2. TypeOK'
    BY <1>1, <1>3, <1>16, <1>17, <2>1 DEF TypeOK
  <2> QED
    BY <1>1, <1>3, <2>2 DEF NotBelow, GoesOn
<1>5. Control'
  <2>1. Result'
    BY <1>1, <1>3, Zenon DEF Control, Result
  <2>2. counting' = counting
    BY <1>3
  <2>3. Control
    BY <1>1
  <2>4. /\ pc' = pc /\ cmd' = cmd /\ alarms' = alarms /\ held' = held /\ blk' = blk
        /\ q' = q /\ head' = head /\ tail' = tail /\ size' = size /\ next' = next
        /\ ele' = ele /\ ptr' = ptr /\ str' = str
    BY <1>3, <1>16
  <2> HIDE DEF Freeing, Inserting, NewEle, EleInHand, BothInHand
  <2>5. (/\ alarms \in 0 .. MaxAlarms
         /\ alarms = 0 => held # Broken /\ pc # "interrupted"
         /\ counting = 1 => pc \in {"assign", "malloc value", "store"}
         /\ counting = 1 /\ pc = "assign" => blk = <<"queue", ptr>>
         /\ counting = 1 /\ pc = "malloc value" => blk = <<"ele", ele>>
         /\ counting = 1 /\ pc = "store" => blk = <<"value", ele>>)'
    BY <2>1, <2>2, <2>3, <2>4, Zenon DEF Control
  <2>6. (/\ counting = -1 => pc \in {"free ele", "free next", "cancel", "return"}
         /\ pc = "prompt" => cmd = "none"
         /\ pc = "exit" => cmd \in {"none", "quit"}
         /\ pc \in {"q_new", "assign"} => cmd = "new" /\ q = NULL
         /\ pc = "q_free" => cmd \in Freeing
         /\ pc = "free next" => cmd \in Freeing)'
    BY <2>1, <2>2, <2>3, <2>4, Zenon DEF Control
  <2>7. (/\ pc \in {"free value", "free ele"} => cmd \in Freeing \cup {"rh"}
         /\ pc \in {"insert", "malloc value", "store", "grow", "return"} => cmd \in Inserting
         /\ pc \in {"link head", "only tail"} => cmd = "ih"
         /\ pc \in {"first tail", "first head", "link tail", "move tail"} => cmd = "it"
         /\ pc \in {"remove", "unlink", "shrink", "no head", "no tail"} => cmd = "rh"
         /\ pc \in {"reverse", "turn tail", "turn head", "turn", "turned"} => cmd = "reverse")'
    BY <2>1, <2>2, <2>3, <2>4, Zenon DEF Control
  <2>8. (/\ pc \in {"cancel", "interrupted"} => cmd # "none"
         /\ pc = "interrupted" /\ cmd \in Inserting \cup {"rh", "reverse"} /\ q # NULL
               => held = Broken
         /\ pc \in NewEle \cup {"free next", "free value", "free ele", "only tail",
                                "unlink", "shrink", "no head", "no tail",
                                "turn tail", "turn head", "turn", "turned"}
               => q # NULL
         /\ pc = "assign" => ptr \in Queues
         /\ pc \in {"free next", "turn tail", "turn head", "turn", "turned"}
               => ptr \in Elements \cup {NULL}
         /\ pc \in {"free value", "free ele"} /\ cmd # "rh" => ptr \in Elements \cup {NULL})'
    BY <2>1, <2>2, <2>3, <2>4, Zenon DEF Control
  <2>9. (/\ pc \in {"turn tail", "turn head"} => ptr = head
         /\ pc = "unlink" => ele = head /\ ele # NULL
         /\ pc \in {"link head", "turned"} => next[ele] = head
         /\ pc \in {"first tail", "first head", "link tail"} => next[ele] = NULL
         /\ pc = "first head" => tail = ele
         /\ pc \in {"unlink", "shrink"} => size # 0)'
    BY <2>1, <2>2, <2>3, <2>4, Zenon DEF Control
  <2>10. (/\ Result
          /\ q = NULL \/ cmd = "new" => held = NoQueue
          /\ cmd \in Inserting => str \in Strings)'
    BY <2>1, <2>2, <2>3, <2>4, Zenon DEF Control
  <2> QED
    BY <2>5, <2>6, <2>7, <2>8, <2>9, <2>10 DEF Control
<1>6. /\ Grown' <=> Grown
      /\ Removed' <=> Removed
  BY <1>3, Zenon DEF Grown, Removed
<1>7. (Linked' <=> Linked) /\ (Shrunk' <=> Shrunk) /\ (Unlinked' <=> Unlinked)
  BY <1>3, <1>6 DEF Linked, Shrunk, Unlinked
<1>8. /\ (Taking' <=> Taking) /\ (Cleared' <=> Cleared) /\ (HasQueue' <=> HasQueue)
      /\ (Live' <=> Live) /\ (Whole' <=> Whole) /\ Front' = Front /\ Rest' = Rest
  BY <1>3 DEF Taking, Cleared, HasQueue, Live, Whole, Front, Rest
<1>9. /\ Turning' = Turning /\ Out' = Out /\ In' = In /\ Ahead' = Ahead /\ Behind' = Behind
      /\ Room' = Room /\ Late' = Late /\ Early' = Early /\ More' = More /\ Fewer' = Fewer
  BY <1>3, <1>6, <1>7 DEF Turning, Out, In, Ahead, Behind, Room, Late, Early, More, Fewer, One
<1>10. Chain(next, Front, k, L)' /\ Chain(next, Rest, m, M)'
  BY <1>2, <1>3, <1>8 DEF Shape, Chain
<1>11. Books(Members(k, L) \cup Members(m, M))'
  <2>1. PICK S : S = Members(k, L) \cup Members(m, M)
    OBVIOUS
  <2>2. Owned(S)' = Owned(S)
    BY <1>3, <1>8 DEF Owned, Pending
  <2>3. Books(S)
    BY <1>2, <2>1 DEF Shape
  <2>4. Books(S)'
    BY <1>3, <2>2, <2>3 DEF Books
  <2> QED
    BY <2>1, <2>4
<1>12. Numbers(k, m)'
  <2>1. Numbers(k, m)
    BY <1>2 DEF Shape
  <2>2. EleBlocks(Known') = EleBlocks(Known)
    BY <1>3
  <2> QED
    BY <1>3, <1>8, <1>9, <2>1, <2>2 DEF Numbers, EleBlocks
<1>13. Sizes(k, m) => Sizes(k, m)'
  BY <1>3, <1>9 DEF Sizes
<1>14. Tails(k, L, m, M) => Tails(k, L, m, M)'
  BY <1>3, <1>7, ZenonT(60) DEF Tails
<1>15. Says(k, L, m, M) => Says(k, L, m, M)'
  BY <1>3, <1>7 DEF Says
<1> QED
  BY <1>2, <1>3, <1>4, <1>5, <1>8, <1>10, <1>11, <1>12, <1>13, <1>14, <1>15, <1>17 DEF IInv, Shape

LEMMA GoesOnStep == TypeOK /\ GoesOn /\ Next => GoesOn'
<1> SUFFICES ASSUME TypeOK, GoesOn, Next PROVE GoesOn'
  OBVIOUS
<1>1. ASSUME NEW result, Finish(result) PROVE GoesOn'
  <2>1. pc' = IF err_cnt' >= err_limit THEN "exit" ELSE "prompt"
    BY <1>1 DEF Finish
  <2>2. err_cnt' \in Nat /\ err_limit \in Nat
    BY <1>1, Counts DEF Finish
  <2> QED
    BY <2>1, <2>2 DEF GoesOn
<1>2. ASSUME NEW good, Checked(good) PROVE GoesOn'
  BY <1>1, <1>2 DEF Checked
<1>3. ASSUME pc # "exit", err_cnt' = err_cnt PROVE GoesOn'
  BY <1>3 DEF GoesOn
<1>4. ASSUME NEW c, NEW s, NEW n, Command(c, s, n) PROVE GoesOn'
  BY <1>3, <1>4 DEF Command, Goto
<1>5. CASE Execute
  <2>1. QueueStep /\ err_cnt' = err_cnt
    BY <1>5 DEF Execute
  <2>2. CASE HarnessCall
    BY <2>1, <2>2 DEF HarnessCall, GoesOn
  <2>3. CASE ~HarnessCall
    <3>1. pc # "exit"
      BY <2>1, <2>3 DEF QueueStep, q_new, NewFails, Assign, q_free, FreeNext, FreeValue, FreeEle,
         FreeQueue, MallocEle, InsertFails, MallocValue, MallocValueFails, Store, LinkHead, FirstTail,
         FirstHead, LinkTail, MoveTail, Grow, OnlyTail, RemoveNone, q_remove_head, Unlink, Shrink,
         NoHead, NoTail, q_reverse, TurnTail, TurnHead, TurnNext, Turned, TurnEnds, Goto, Return,
         SetHead, SetTail
    <3> QED
      BY <1>3, <2>1, <3>1
  <2> QED
    BY <2>2, <2>3
<1>6. CASE Inserted
  BY <1>3, <1>6 DEF Inserted
<1>7. CASE TimeLimit
  BY <1>3, <1>7 DEF TimeLimit, Jump
<1>8. CASE NullDereferenced
  <2>1. pc # "exit"
    BY <1>8 DEF NullDereferenced, Segfault, Touched
  <2> QED
    BY <1>3, <1>8, <2>1 DEF NullDereferenced, Jump
<1>9. CASE FinishInsert \/ FinishRemove \/ FinishReverse \/ FinishSize \/ FinishNew \/ FinishFree
  BY <1>1, <1>2, <1>9 DEF FinishInsert, FinishRemove, FinishReverse, FinishSize, FinishNew, FinishFree
<1>10. CASE FinishShow
  BY <1>1, <1>10 DEF FinishShow
<1>11. CASE FinishOld
  BY <1>3, <1>11 DEF FinishOld, Cancelled
<1>12. CASE Quit
  BY <1>12 DEF Quit, GoesOn
<1> QED
  BY <1>4, <1>5, <1>6, <1>7, <1>8, <1>9, <1>10, <1>11, <1>12 DEF Next

LEMMA NextStep == IInv /\ HarnessInv /\ GoesOn /\ Next => IInv' /\ HarnessInv'
<1> SUFFICES ASSUME IInv, HarnessInv, GoesOn, Next PROVE IInv' /\ HarnessInv'
  OBVIOUS
<1>1. ASSUME NEW c \in Inserting, NEW s \in Strings, NEW n, Command(c, s, n) PROVE IInv'
  BY <1>1, CommandStep DEF Commands
<1>2. ASSUME NEW c \in Commands \ Inserting, Command(c, Blank, 1) PROVE IInv'
  BY <1>2, CommandStep
<1>3. IInv'
  BY <1>1, <1>2, ExecuteStep, InsertedStep, TimeLimitStep, NullDereferencedStep, FinishInsertStep,
     FinishRemoveStep, FinishReverseStep, FinishSizeStep, FinishShowStep, FinishNewStep,
     FinishFreeStep, FinishOldStep, QuitStep DEF Next
<1>4. ASSUME UNCHANGED <<blocks, alarms>> PROVE HarnessInv'
  BY <1>4, HarnessSame
<1>5. ASSUME NEW result, Finish(result) PROVE HarnessInv'
  BY <1>4, <1>5 DEF Finish
<1>6. ASSUME NEW good, Checked(good) PROVE HarnessInv'
  BY <1>5, <1>6 DEF Checked
<1>7. ASSUME NEW c, NEW s, NEW n, Command(c, s, n) PROVE HarnessInv'
  BY <1>4, <1>7 DEF Command
<1>8. ASSUME TimeLimit PROVE HarnessInv'
  <2>1. CutOff /\ alarms' = alarms + 1
    BY <1>8 DEF TimeLimit, Jump
  <2>2. alarms' # 0
    BY <2>1, Numeric DEF IInv
  <2> QED
    BY <2>1, <2>2, CutOffStep
<1>9. ASSUME NullDereferenced PROVE HarnessInv'
  <2>1. CutOff /\ step = "none" /\ alarms' = alarms
    BY <1>9 DEF NullDereferenced, Jump
  <2> QED
    BY <2>1, CutOffStep
<1>10. ASSUME Inserted \/ FinishOld \/ Quit PROVE HarnessInv'
  BY <1>4, <1>10 DEF Inserted, FinishOld, Quit
<1>11. ASSUME FinishInsert \/ FinishRemove \/ FinishReverse \/ FinishSize \/ FinishNew \/ FinishFree
       PROVE  HarnessInv'
  BY <1>5, <1>6, <1>11 DEF FinishInsert, FinishRemove, FinishReverse, FinishSize, FinishNew, FinishFree
<1>12. ASSUME FinishShow PROVE HarnessInv'
  BY <1>5, <1>12 DEF FinishShow
<1>13. HarnessInv'
  BY <1>7, <1>8, <1>9, <1>10, <1>11, <1>12, ExecuteStep DEF Next
<1> QED
  BY <1>3, <1>13

(* The inductive invariant holds whatever the sizes of memory and of the   *)
(* limits, and however often a command is cut off.                         *)
THEOREM Invariance == Spec => [](IInv /\ HarnessInv /\ GoesOn)
<1>1. Init => IInv /\ HarnessInv /\ GoesOn
  BY Initially
<1>2. IInv /\ HarnessInv /\ GoesOn /\ [Next]_vars => (IInv /\ HarnessInv /\ GoesOn)'
  <2>1. IInv => TypeOK
    BY DEF IInv
  <2> QED
    BY <2>1, NextStep, GoesOnStep, StutterStep
<1> QED
  BY <1>1, <1>2, PTL DEF Spec

(* Every variable stays in its range; so size never exceeds the number of  *)
(* elements, and qcnt is off by at most the number of alarms.              *)
THEOREM TypeCorrect == Spec => []TypeOK
<1>1. IInv => TypeOK
  BY DEF IInv
<1> QED
  BY <1>1, Invariance, PTL

-----------------------------------------------------------------------------
(* What follows from the invariant.                                        *)
LEMMA LastIndex == \A k \in Nat : k > 0 => k \in 1 .. k
OBVIOUS

LEMMA OwnedParts ==
    ASSUME NEW k, NEW L, NEW m, NEW M, Shape(k, L, m, M)
    PROVE  /\ Pending \subseteq Known
           /\ {"ele", "value"} \X (Members(k, L) \cup Members(m, M)) \subseteq Known
           /\ HasQueue => <<"queue", q>> \in Known
<1>1. PICK S : S = Members(k, L) \cup Members(m, M)
  OBVIOUS
<1>2. Owned(S) \subseteq Known
  BY <1>1 DEF Shape, Books, Sound
<1> QED
  BY <1>1, <1>2 DEF Owned

(* A block that the next step touches is allocated, or its pointer NULL.   *)
LEMMA TouchedIsAllocated ==
    ASSUME IInv, NEW block \in Touched, pc = "link tail" => held # Broken
    PROVE  block \in Known \/ block[2] = NULL
<1>1. TypeOK /\ Control
  BY DEF IInv
<1>2. PICK k, L, m, M : Shape(k, L, m, M)
  BY DEF IInv
<1>3. /\ Pending \subseteq Known
      /\ \A e \in Members(k, L) : <<"ele", e>> \in Known /\ <<"value", e>> \in Known
      /\ \A e \in Members(m, M) : <<"ele", e>> \in Known
      /\ HasQueue => <<"queue", q>> \in Known
  BY <1>2, OwnedParts
<1>4. /\ Front # NULL => Front \in Members(k, L)
      /\ Rest # NULL => Rest \in Members(m, M)
  BY <1>2, Starts
<1>5. CASE pc \in {"free value", "free ele", "store", "malloc value"}
  <2>1. Touched \subseteq Pending
    BY <1>5 DEF Touched, Pending
  <2> QED
    BY <1>3, <2>1
<1>6. CASE pc = "free next"
  <2>1. cmd \in Freeing /\ q # NULL
    BY <1>1, <1>6 DEF Control
  <2>2. Rest = ptr /\ HasQueue
    BY <1>6, <2>1 DEF Rest, Taking, HasQueue, Cleared
  <2>3. Touched = IF ptr # NULL THEN {<<"ele", ptr>>} ELSE {<<"queue", q>>}
    BY <1>6 DEF Touched
  <2> QED
    BY <1>3, <1>4, <2>2, <2>3
<1>7. CASE pc = "turn"
  <2>1. ptr # NULL /\ Touched = {<<"ele", ptr>>}
    BY <1>7 DEF Touched
  <2>2. Rest = ptr
    BY <1>7 DEF Rest
  <2> QED
    BY <1>3, <1>4, <2>1, <2>2
<1>8. CASE pc \in {"remove", "unlink", "return"}
  <2>1. pc \in {"remove", "unlink"} => cmd = "rh"
    BY <1>1 DEF Control
  <2>2. pc = "return" => cmd \in Inserting
    BY <1>1 DEF Control
  <2>3. q # NULL
    <3>1. CASE pc = "remove"
      BY <3>1 DEF Touched
    <3>2. CASE pc = "unlink"
      BY <1>1, <3>2 DEF Control
    <3>3. CASE pc = "return"
      <4>1. rval
        BY <3>3 DEF Touched
      <4> QED
        BY <1>1, <3>3, <4>1 DEF Control, Result
    <3> QED
      BY <1>8, <3>1, <3>2, <3>3
  <2>4. Front = head
    BY <1>8, <2>1, <2>2, <2>3 DEF Front, Live, HasQueue, Taking, Cleared
  <2>5. block \in {<<"ele", head>>, <<"value", head>>}
    <3>1. CASE pc = "remove"
      <4>1. q # NULL /\ size # 0
        BY <3>1 DEF Touched
      <4> QED
        BY <3>1, <4>1 DEF Touched
    <3>2. CASE pc = "unlink"
      BY <3>2 DEF Touched
    <3>3. CASE pc = "return"
      <4>1. rval
        BY <3>3 DEF Touched
      <4>2. Touched = {<<"ele", head>>}
        BY <3>3, <4>1 DEF Touched
      <4> QED
        BY <4>2
    <3> QED
      BY <1>8, <3>1, <3>2, <3>3
  <2>6. CASE block = <<"ele", head>>
    <3>1. block[2] = head
      BY <2>6
    <3> QED
      BY <1>3, <1>4, <2>4, <2>6, <3>1
  <2>7. CASE block = <<"value", head>>
    <3>1. block[2] = head
      BY <2>7
    <3> QED
      BY <1>3, <1>4, <2>4, <2>7, <3>1
  <2> QED
    BY <2>5, <2>6, <2>7
<1>9. CASE pc = "link tail"
  <2>1. cmd = "it" /\ q # NULL
    BY <1>1, <1>9 DEF Control
  <2>2. Whole
    BY <1>9, <2>1 DEF Whole, Live, HasQueue, Taking, Cleared
  <2>3. Tails(k, L, m, M)
    BY <1>2, <2>2 DEF Shape
  <2>4. tail = L[k] /\ k > 0
    BY <1>9, <2>3 DEF Tails
  <2>5. tail \in Members(k, L)
    <3>1. k \in Nat
      BY <1>2, Starts
    <3>2. k > 0
      BY <2>4
    <3>3. k \in 1 .. k
      BY <3>1, <3>2, LastIndex
    <3> QED
      BY <1>2, <2>4, <3>3, Starts
  <2>6. Touched = {<<"ele", tail>>}
    BY <1>9 DEF Touched
  <2> QED
    BY <1>3, <2>5, <2>6
<1>10. pc \in {"free value", "free ele", "store", "malloc value", "free next", "unlink",
               "turn", "link tail", "remove", "return"}
  BY DEF Touched
<1> QED
  BY <1>5, <1>6, <1>7, <1>8, <1>9, <1>10

LEMMA IsMemorySafe == IInv /\ HarnessInv => MemorySafe
<1> SUFFICES ASSUME IInv, HarnessInv
             PROVE  /\ held # Broken => Touched \subseteq live
                    /\ pc # "link tail" => \A block \in Touched : block \in live \/ block[2] = NULL
  BY DEF MemorySafe
<1>1. Known \subseteq live
  BY KnownIsLive
<1>2. ASSUME held # Broken, NEW block \in Touched PROVE block \in live
  <2>1. ~Segfault
    BY <1>2, NullAfterAlarm
  <2>2. block[2] # NULL
    BY <1>2, <2>1 DEF Segfault
  <2> QED
    BY <1>1, <1>2, <2>2, TouchedIsAllocated
<1>3. ASSUME pc # "link tail", NEW block \in Touched PROVE block \in live \/ block[2] = NULL
  BY <1>1, <1>3, TouchedIsAllocated
<1> QED
  BY <1>2, <1>3

(* No step of queue.c reads, writes or frees a block that is not           *)
(* allocated, unless a command was cut off before, and then only through   *)
(* the tail.                                                               *)
THEOREM MemoryIsSafe == Spec => []MemorySafe
BY Invariance, IsMemorySafe, PTL

LEMMA IsListSafe == IInv /\ HarnessInv => ListSafe
<1> SUFFICES ASSUME IInv, HarnessInv, ~torn
             PROVE  IF step = "none"
                    THEN \A b \in ToFree : WalkIsSafe(b) /\ WalkFinds(b)
                    ELSE HeadersTouched \subseteq live
  BY DEF ListSafe
<1>1. ASSUME step = "none", NEW b \in ToFree
      PROVE  WalkIsSafe(b) /\ WalkFinds(b)
  <2>1. Control
    BY DEF IInv
  <2>2. b \in Pending \/ (HasQueue /\ b = <<"queue", q>>)
    <3>1. CASE pc = "free value"
      BY <1>1, <3>1 DEF ToFree, Pending
    <3>2. CASE pc \in {"free ele", "malloc value"}
      BY <1>1, <3>2 DEF ToFree, Pending
    <3>3. CASE pc = "free next" /\ ptr = NULL
      <4>1. q # NULL
        BY <2>1, <3>3 DEF Control
      <4>2. b = <<"queue", q>>
        BY <1>1, <3>3 DEF ToFree
      <4>3. ~Cleared
        BY <3>3 DEF Cleared
      <4> QED
        BY <4>1, <4>2, <4>3 DEF HasQueue
    <3> QED
      BY <1>1, <3>1, <3>2, <3>3 DEF ToFree
  <2>3. b \in Known
    BY <2>2, OwnedIsKnown
  <2>4. b \in Listed
    BY <1>1, <2>3, KnownAtRest
  <2> QED
    BY <2>4, WalkIs
<1> QED
  BY <1>1, StoresAreSafe

(* As long as no alarm came between the two stores of a link, find_header  *)
(* finds what queue.c frees, and neither its walk nor the list's stores    *)
(* meet a block that was freed.                                            *)
THEOREM ListIsSafe == Spec => []ListSafe
BY Invariance, IsListSafe, PTL

LEMMA IsQueueWhole == IInv /\ HarnessInv => QueueWhole
<1> SUFFICES ASSUME IInv, HarnessInv, pc = "prompt"
             PROVE  /\ held # Broken /\ q # NULL =>
                          /\ Len(List) = size /\ size = qcnt
                          /\ \A j, k \in DOMAIN List : List[j] = List[k] => j = k
                          /\ IF size = 0 THEN head = NULL /\ tail = NULL
                             ELSE tail = List[size] /\ next[tail] = NULL
                    /\ alarms = 0 => /\ live = QueueBlocks
                                     /\ allocated_count = Cardinality(live)
  BY DEF QueueWhole
<1>1. TypeOK /\ Control
  BY DEF IInv
<1>2. PICK k, L, m, M : Shape(k, L, m, M)
  BY DEF IInv
<1>3. cmd = "none" /\ counting = 0
  <2>1. cmd = "none" /\ counting # 1 /\ counting # -1
    BY <1>1 DEF Control
  <2> QED
    BY <2>1 DEF counting
<1>4. ~Taking /\ ~Cleared /\ Rest = NULL
  BY <1>3 DEF Taking, Cleared, Rest
<1>5. (HasQueue <=> q # NULL) /\ (Live <=> q # NULL)
  BY <1>4 DEF HasQueue, Live
<1>6. m = 0 /\ Members(m, M) = {}
  <2>1. Chain(next, Rest, m, M)
    BY <1>2 DEF Shape
  <2> QED
    BY <1>4, <2>1, ChainStart
<1>7. ASSUME q # NULL
      PROVE  /\ Chain(next, head, k, L) /\ k \in Nat /\ L \in [1 .. k -> Elements]
             /\ List = L /\ DOMAIN List = 1 .. k
  <2>1. Chain(next, head, k, L)
    BY <1>2, <1>5, <1>7 DEF Shape, Front
  <2>2. k \in Nat /\ L \in [1 .. k -> Elements]
    BY <2>1 DEF Chain
  <2> QED
    BY <1>1, <1>7, <2>1, <2>2, ListIs
<1>8. ASSUME held # Broken, q # NULL
      PROVE  /\ Len(List) = size /\ size = qcnt
             /\ \A i, j \in DOMAIN List : List[i] = List[j] => i = j
             /\ IF size = 0 THEN head = NULL /\ tail = NULL
                ELSE tail = List[size] /\ next[tail] = NULL
  <2>1. Whole
    BY <1>5, <1>8 DEF Whole
  <2>2. Sizes(k, m) /\ Tails(k, L, m, M)
    BY <1>2, <2>1 DEF Shape
  <2>3. /\ Turning = 0 /\ Late = 0 /\ Early = 0 /\ More = 0 /\ Fewer = 0
    BY <1>3 DEF Turning, Late, Early, More, Fewer, One, Grown, Shrunk, Removed
  <2>4. /\ size \in Nat /\ qcnt \in Int /\ k \in Nat
    BY <1>1, <1>7, <1>8, Numeric
  <2>5. size = k /\ qcnt = size
    BY <1>3, <1>6, <2>2, <2>3, <2>4 DEF Sizes
  <2>6. tail = IF k = 0 THEN NULL ELSE L[k]
    BY <2>2 DEF Tails
  <2>7. /\ head = IF k = 0 THEN NULL ELSE L[1]
        /\ \A i, j \in 1 .. k : L[i] = L[j] => i = j
        /\ k # 0 => next[L[k]] = NULL
    BY <1>7, <1>8 DEF Chain
  <2>8. Len(List) = k
    <3>1. List = L /\ DOMAIN L = 1 .. k
      BY <1>7, <1>8
    <3>2. L \in Seq(Elements)
      BY <1>7, <1>8
    <3>3. Len(L) = k
      BY <2>4, <3>1, <3>2, LenProperties
    <3> QED
      BY <3>1, <3>3
  <2> QED
    BY <1>7, <1>8, <2>5, <2>6, <2>7, <2>8
<1>9. ASSUME alarms = 0 PROVE live = QueueBlocks /\ allocated_count = Cardinality(live)
  <2>1. PICK S : S = Members(k, L)
    OBVIOUS
  <2>2. Books(S)
    BY <1>2, <1>6, <2>1 DEF Shape
  <2>3. Pending = {}
    BY DEF Pending
  <2>4. Owned(S) = QueueBlocks
    <3>1. CASE q = NULL
      <4>1. Front = NULL
        BY <1>5, <3>1 DEF Front
      <4>2. S = {}
        BY <1>2, <2>1, <4>1, ChainStart DEF Shape
      <4> QED
        BY <1>5, <2>3, <3>1, <4>2 DEF Owned, QueueBlocks
    <3>2. CASE q # NULL
      <4>1. {List[j] : j \in DOMAIN List} = S
        BY <1>7, <2>1, <3>2 DEF Members
      <4> QED
        BY <1>5, <2>3, <3>2, <4>1 DEF Owned, QueueBlocks
    <3> QED
      BY <3>1, <3>2
  <2>5. allocated_count + counting = allocated_count
    BY <1>1, <1>3, Numeric
  <2>6. Sound(Owned(S), Known, allocated_count, alarms)
    BY <2>2, <2>5 DEF Books
  <2>7. /\ Known = Owned(S) /\ Cardinality(Owned(S)) <= allocated_count
        /\ allocated_count <= Cardinality(Known) + alarms
    BY <1>9, <2>6 DEF Sound
  <2>8. allocated_count \in Nat /\ Cardinality(Known) \in Nat
    BY <1>1, Numeric, BlocksFinite DEF TypeOK
  <2>9. allocated_count = Cardinality(Known)
    BY <1>9, <2>7, <2>8
  <2>10. Known = live
    <3>1. step = "none"
      BY <1>1, <1>3, NotAtRest DEF TypeOK
    <3>2. ~torn /\ live = Listed
      BY <1>9, <3>1 DEF HarnessInv, Adding, Removing
    <3> QED
      BY <3>1, <3>2, KnownAtRest
  <2> QED
    BY <2>4, <2>7, <2>9, <2>10
<1> QED
  BY <1>8, <1>9

(* Between commands a queue that no command was cut off on is whole, and   *)
(* without an alarm its blocks are all that is allocated.                  *)
THEOREM QueueIsWhole == Spec => []QueueWhole
BY Invariance, IsQueueWhole, PTL

-----------------------------------------------------------------------------
(* Sequences.                                                              *)
LEMMA FunctionIsSeq ==
    ASSUME NEW n \in Nat, NEW A, NEW f, DOMAIN f = 1 .. n, f = [j \in 1 .. n |-> f[j]],
           \A j \in 1 .. n : f[j] \in A
    PROVE  f \in Seq(A) /\ Len(f) = n
<1>1. [j \in 1 .. n |-> f[j]] \in Seq(A)
  OBVIOUS
<1>2. Len([j \in 1 .. n |-> f[j]]) = n
  OBVIOUS
<1> QED
  BY <1>1, <1>2

LEMMA IsPrepended ==
    ASSUME NEW A, NEW c \in Seq(A), NEW h \in Seq(A), NEW s \in A, Len(c) = Len(h) + 1,
           c[1] = s, \A j \in 1 .. Len(h) : h[j] = c[j + 1]
    PROVE  c = <<s>> \o h
<1>0. PICK one : one = <<s>>
  OBVIOUS
<1>1. one \in Seq(A) /\ Len(one) = 1 /\ one[1] = s
  BY <1>0
<1>2. /\ one \o h \in Seq(A) /\ Len(one \o h) = Len(one) + Len(h)
      /\ \A i \in 1 .. Len(one) + Len(h) :
            (one \o h)[i] = IF i <= Len(one) THEN one[i] ELSE h[i - Len(one)]
  <2>1. one \in Seq(A)
    BY <1>1
  <2> QED
    BY ONLY <2>1, h \in Seq(A), ConcatProperties
<1>3. Len(h) \in Nat /\ Len(c) \in Nat
  BY LenProperties
<1>4. Len(one \o h) = Len(c)
  BY <1>1, <1>2, <1>3
<1>5. ASSUME NEW i \in 1 .. Len(c) PROVE c[i] = (one \o h)[i]
  <2>1. (one \o h)[i] = IF i <= 1 THEN one[i] ELSE h[i - 1]
    BY <1>1, <1>2, <1>3, <1>5
  <2>2. CASE i = 1
    BY <1>1, <2>1, <2>2
  <2>3. CASE i # 1
    <3>1. i - 1 \in 1 .. Len(h) /\ (i - 1) + 1 = i
      BY <1>3, <1>5, <2>3
    <3>2. h[i - 1] = c[i]
      BY <3>1
    <3>3. ~(i <= 1)
      BY <1>5, <2>3
    <3> QED
      BY <2>1, <3>2, <3>3
  <2> QED
    BY <2>2, <2>3
<1>6. c = one \o h
  <2> DEFINE b == one \o h
  <2>1. b \in Seq(A) /\ Len(c) = Len(b) /\ \A i \in 1 .. Len(c) : c[i] = b[i]
    BY <1>2, <1>4, <1>5
  <2> HIDE DEF b
  <2>2. c = b
    BY <2>1, SeqEqual
  <2> QED
    BY <2>2 DEF b
<1> QED
  BY <1>0, <1>6

LEMMA IsAppended ==
    ASSUME NEW A, NEW c \in Seq(A), NEW h \in Seq(A), NEW s \in A, Len(c) = Len(h) + 1,
           c[Len(c)] = s, \A j \in 1 .. Len(h) : h[j] = c[j]
    PROVE  c = Append(h, s)
<1> DEFINE b == Append(h, s)
<1>1. Len(h) \in Nat /\ Len(c) \in Nat
  BY LenProperties
<1>2. b \in Seq(A) /\ Len(b) = Len(c)
  OBVIOUS
<1>3. \A i \in 1 .. Len(c) : c[i] = b[i]
  BY <1>1
<1> HIDE DEF b
<1>4. c = b
  BY <1>2, <1>3, SeqEqual
<1> QED
  BY <1>4 DEF b

LEMMA IsTail ==
    ASSUME NEW A, NEW c \in Seq(A), NEW h \in Seq(A), Len(h) = Len(c) + 1,
           \A j \in 1 .. Len(c) : h[j + 1] = c[j]
    PROVE  h # <<>> /\ c = Tail(h)
<1> DEFINE b == Tail(h)
<1>1. Len(h) \in Nat /\ Len(c) \in Nat
  BY LenProperties
<1>2. h # <<>>
  BY <1>1, EmptySeq
<1>3. b \in Seq(A) /\ Len(b) = Len(c)
  BY <1>1, <1>2, HeadTailProperties
<1>4. \A i \in 1 .. Len(c) : c[i] = b[i]
  BY <1>1, <1>2, HeadTailProperties
<1> HIDE DEF b
<1>5. c = b
  BY <1>3, <1>4, SeqEqual
<1> QED
  BY <1>2, <1>5 DEF b

LEMMA IsReverse ==
    ASSUME NEW A, NEW c \in Seq(A), NEW h \in Seq(A), Len(h) = Len(c),
           \A j \in 1 .. Len(c) : h[j] = c[Len(c) + 1 - j]
    PROVE  c = [i \in 1 .. Len(h) |-> h[(Len(h) - i) + 1]]
<1> DEFINE b == [i \in 1 .. Len(h) |-> h[(Len(h) - i) + 1]]
<1>1. Len(h) \in Nat /\ Len(c) \in Nat
  BY LenProperties
<1>2. \A i \in 1 .. Len(h) : (Len(h) - i) + 1 \in 1 .. Len(h)
  BY <1>1
<1>3. b \in Seq(A) /\ Len(b) = Len(c)
  <2>1. \A i \in 1 .. Len(h) : h[(Len(h) - i) + 1] \in A
    BY <1>2, ElementOfSeq
  <2> QED
    BY <1>1, <2>1
<1>4. ASSUME NEW i \in 1 .. Len(c) PROVE c[i] = b[i]
  <2>1. (Len(h) - i) + 1 \in 1 .. Len(c) /\ Len(c) + 1 - ((Len(h) - i) + 1) = i
    BY <1>1, <1>4
  <2>2. h[(Len(h) - i) + 1] = c[i]
    BY <2>1
  <2> QED
    BY <1>4, <2>2
<1> HIDE DEF b
<1>5. c = b
  BY <1>3, <1>4, SeqEqual
<1> QED
  BY <1>5 DEF b

-----------------------------------------------------------------------------
(* The abstract queue.                                                     *)
(* A call makes no queue whole that was not.                               *)
LEMMA StaysWhole ==
    ASSUME IInv, Execute, Whole', cmd' # "new"
    PROVE  Whole /\ cmd # "new"
<1>1. TypeOK /\ Control
  BY DEF IInv
<1>2. QueueStep /\ held' = held
  BY DEF Execute
<1>3. cmd' = cmd
  BY <1>2 DEF QueueStep, HarnessCall, q_new, NewFails, Assign, q_free, FreeNext, FreeValue, FreeEle,
     FreeQueue, MallocEle, InsertFails, MallocValue, MallocValueFails, Store, LinkHead, FirstTail,
     FirstHead, LinkTail, MoveTail, Grow, OnlyTail, RemoveNone, q_remove_head, Unlink, Shrink,
     NoHead, NoTail, q_reverse, TurnTail, TurnHead, TurnNext, Turned, TurnEnds, SetHead, SetTail
<1>4. ~Assign
  BY <1>1, <1>3 DEF Assign, Goto, Control
<1>5. q' = q
  BY <1>2, <1>4 DEF QueueStep, HarnessCall, q_new, NewFails, q_free, FreeNext, FreeValue, FreeEle,
     FreeQueue, MallocEle, InsertFails, MallocValue, MallocValueFails, Store, LinkHead, FirstTail,
     FirstHead, LinkTail, MoveTail, Grow, OnlyTail, RemoveNone, q_remove_head, Unlink, Shrink,
     NoHead, NoTail, q_reverse, TurnTail, TurnHead, TurnNext, Turned, TurnEnds, SetHead, SetTail
<1>6. held' # Broken /\ Live'
  BY DEF Whole
<1>7. q # NULL
  BY <1>5, <1>6 DEF Live, HasQueue
<1>8. CASE cmd \notin Freeing
  BY <1>2, <1>3, <1>6, <1>7, <1>8 DEF Whole, Live, HasQueue, Taking, Cleared
<1>9. CASE cmd \in Freeing
  <2>1. CASE HarnessCall
    <3>1. pc' = pc
      BY <2>1 DEF HarnessCall
    <3>2. Live
      BY <1>3, <1>5, <1>6, <3>1 DEF Live, HasQueue, Taking, Cleared
    <3> QED
      BY <1>2, <1>3, <1>6, <3>2 DEF Whole
  <2>2. CASE ~HarnessCall
    <3>1. pc' \notin {"free next", "free value", "free ele", "cancel"}
      BY <1>3, <1>6, <1>9 DEF Live, HasQueue, Taking, Cleared
    <3>2. pc \notin {"q_free", "free next", "free value", "free ele"}
      BY <1>2, <1>9, <2>2, <3>1 DEF QueueStep, q_new, NewFails, Assign, q_free, FreeNext, FreeValue,
         FreeEle, FreeQueue, MallocEle, InsertFails, MallocValue, MallocValueFails, Store, LinkHead,
         FirstTail, FirstHead, LinkTail, MoveTail, Grow, OnlyTail, RemoveNone, q_remove_head, Unlink,
         Shrink, NoHead, NoTail, q_reverse, TurnTail, TurnHead, TurnNext, Turned, TurnEnds, SetHead,
         SetTail, Goto, Return
    <3>3. pc \in {"q_new", "assign", "insert", "malloc value", "store", "link head", "first tail",
                  "first head", "link tail", "move tail", "grow", "only tail", "remove", "unlink",
                  "shrink", "no head", "no tail", "reverse", "turn tail", "turn head", "turn", "turned"}
      BY <1>2, <2>2, <3>2 DEF QueueStep, q_new, NewFails, Assign, q_free, FreeNext, FreeValue,
         FreeEle, FreeQueue, MallocEle, InsertFails, MallocValue, MallocValueFails, Store, LinkHead,
         FirstTail, FirstHead, LinkTail, MoveTail, Grow, OnlyTail, RemoveNone, q_remove_head, Unlink,
         Shrink, NoHead, NoTail, q_reverse, TurnTail, TurnHead, TurnNext, Turned, TurnEnds, SetHead,
         SetTail, Goto, Return
    <3> QED
      BY <1>1, <1>9, <3>3 DEF Control
  <2> QED
    BY <2>1, <2>2
<1> QED
  BY <1>8, <1>9

LEMMA ContentsSeq ==
    ASSUME IInv, q # NULL, ~Taking, ~Cleared
    PROVE  Contents \in Seq(Strings \cup {Blank})
<1>1. PICK k, L, m, M : Shape(k, L, m, M)
  BY DEF IInv
<1>2. Front = head
  BY DEF Front, Live, HasQueue
<1>3. Chain(next, head, k, L)
  BY <1>1, <1>2 DEF Shape
<1> QED
  BY <1>3, ContentsIs DEF IInv

LEMMA KeptIsSeq ==
    ASSUME IInv, pc \in {"cancel", "interrupted"}, cmd \notin Freeing, held' = Kept, q' = q
    PROVE  HeldIsSeq'
<1> SUFFICES ASSUME Whole' PROVE held' \in Seq(Strings \cup {Blank})
  BY DEF HeldIsSeq
<1>1. q # NULL /\ held' # Broken
  BY DEF Whole, Live, HasQueue
<1>2. ~Taking /\ ~Cleared
  BY DEF Taking, Cleared
<1>3. held' = Contents
  BY <1>1 DEF Kept
<1> QED
  BY <1>1, <1>2, <1>3, ContentsSeq

LEMMA HeldIsSeqStep == IInv /\ GoesOn /\ HeldIsSeq /\ [Next]_vars => HeldIsSeq'
<1> SUFFICES ASSUME IInv, HeldIsSeq, [Next]_vars PROVE HeldIsSeq'
  OBVIOUS
<1>1. TypeOK /\ Control
  BY DEF IInv
<1>2. ASSUME held' = held, Whole' /\ cmd' # "new" => Whole /\ cmd # "new" PROVE HeldIsSeq'
  BY <1>2 DEF HeldIsSeq
<1>3. ASSUME held' = held, q' = q, cmd \notin Freeing \cup {"new"} PROVE HeldIsSeq'
  <2>1. Whole' => Whole /\ cmd # "new"
    BY <1>3 DEF Whole, Live, HasQueue, Taking, Cleared
  <2> QED
    BY <1>2, <1>3, <2>1
<1>4. ASSUME NEW c, NEW s, NEW n, Command(c, s, n) PROVE HeldIsSeq'
  <2>1. pc = "prompt" /\ held' = held /\ q' = q
    BY <1>4 DEF Command, Goto
  <2>2. cmd = "none"
    BY <1>1, <2>1 DEF Control
  <2> QED
    BY <1>3, <2>1, <2>2
<1>5. CASE Execute
  BY <1>2, <1>5, StaysWhole DEF Execute
<1>6. CASE Inserted
  <2>1. pc = "return" /\ q' = q /\ held' = IF held = Broken \/ q = NULL THEN held ELSE Contents
    BY <1>6 DEF Inserted
  <2>2. cmd \in Inserting
    BY <1>1, <2>1 DEF Control
  <2>3. CASE held = Broken \/ q = NULL
    BY <1>3, <2>1, <2>2, <2>3
  <2>4. CASE ~(held = Broken \/ q = NULL)
    <3>1. ~Taking /\ ~Cleared
      BY <2>2 DEF Taking, Cleared
    <3> QED
      BY <2>1, <2>4, <3>1, ContentsSeq DEF HeldIsSeq
  <2> QED
    BY <2>3, <2>4
<1>7. CASE TimeLimit \/ NullDereferenced
  <2>1. Jump
    BY <1>7 DEF TimeLimit, NullDereferenced
  <2>2. /\ pc' = "interrupted" /\ q' = q /\ cmd' = cmd
        /\ held' = IF cmd \in {"ih", "it", "rh", "reverse"} /\ q # NULL THEN Broken ELSE held
    BY <2>1 DEF Jump
  <2>3. Whole' => held' = held /\ cmd \notin Freeing
    <3>1. Whole' => held' # Broken /\ ~Cleared'
      BY DEF Whole, Live, HasQueue
    <3>2. Cleared' <=> cmd \in Freeing
      BY <2>2 DEF Cleared
    <3> QED
      BY <2>2, <3>1, <3>2
  <2>4. CASE Whole' /\ cmd' # "new"
    BY <1>3, <2>2, <2>3, <2>4
  <2>5. CASE ~(Whole' /\ cmd' # "new")
    BY <2>5 DEF HeldIsSeq
  <2> QED
    BY <2>4, <2>5
<1>8. CASE FinishInsert \/ FinishSize \/ FinishShow
  BY <1>3, <1>8 DEF FinishInsert, FinishSize, FinishShow, Cancelled
<1>9. CASE FinishRemove \/ FinishReverse \/ FinishNew
  <2>1. /\ pc \in {"cancel", "interrupted"} /\ cmd \notin Freeing /\ held' = Kept /\ q' = q
    BY <1>9 DEF FinishRemove, FinishReverse, FinishNew, Cancelled
  <2> HIDE DEF Freeing
  <2> QED
    BY <2>1, KeptIsSeq
<1>10. CASE FinishFree \/ FinishOld
  <2>1. q' = NULL
    BY <1>10 DEF FinishFree, FinishOld, Freed
  <2> QED
    BY <2>1 DEF HeldIsSeq, Whole, Live, HasQueue
<1>11. CASE Quit
  <2>1. Cleared'
    BY <1>11 DEF Quit, Cancelled, Cleared
  <2> QED
    BY <2>1 DEF HeldIsSeq, Whole, Live, HasQueue
<1>12. CASE UNCHANGED vars
  BY <1>2, <1>12 DEF vars, Whole, Live, HasQueue, Taking, Cleared
<1> QED
  BY <1>4, <1>5, <1>6, <1>7, <1>8, <1>9, <1>10, <1>11, <1>12 DEF Next

LEMMA SeqIsWhole ==
    ASSUME held \in Seq(Strings \cup {Blank})
    PROVE  Abstract!Whole
BY QTestAssumption DEF Abstract!Whole

(* The queue and its strings, as the abstract queue sees them at the end   *)
(* of a call.                                                              *)
LEMMA Seen ==
    ASSUME IInv, HeldIsSeq, held # Broken, q # NULL, ~Taking, ~Cleared, cmd # "new", Rest = NULL,
           NEW k, NEW L, NEW m, NEW M, Shape(k, L, m, M)
    PROVE  /\ k \in Nat /\ Says(k, L, m, M) /\ m = 0 /\ (Linked => k > 0)
           /\ held \in Seq(Strings \cup {Blank})
           /\ Contents = [j \in 1 .. k |-> value[L[j]]]
           /\ Contents \in Seq(Strings \cup {Blank}) /\ Len(Contents) = k
           /\ \A j \in 1 .. k : Contents[j] = value[L[j]]
<1>1. Live /\ Whole
  BY DEF Live, HasQueue, Whole
<1>2. Chain(next, head, k, L)
  BY <1>1 DEF Shape, Front
<1>3. Says(k, L, m, M) /\ Tails(k, L, m, M)
  BY <1>1 DEF Shape
<1>4. k \in Nat /\ m = 0
  BY Starts
<1>5. held \in Seq(Strings \cup {Blank})
  BY <1>1 DEF HeldIsSeq
<1>6. Contents = [j \in 1 .. k |-> value[L[j]]] /\ Contents \in Seq(Strings \cup {Blank})
  BY <1>2, ContentsIs DEF IInv
<1>7. Len(Contents) = k /\ \A j \in 1 .. k : Contents[j] = value[L[j]]
  BY <1>4, <1>6
<1>8. Linked => k > 0
  BY <1>3 DEF Tails
<1> QED
  BY <1>3, <1>4, <1>5, <1>6, <1>7, <1>8

LEMMA InsertedRefines == IInv /\ HeldIsSeq /\ Inserted => [Abstract!Next]_held
<1> SUFFICES ASSUME IInv, HeldIsSeq, Inserted, held' # held PROVE Abstract!Next
  OBVIOUS
<1>1. TypeOK /\ Control
  BY DEF IInv
<1>2. pc = "return" /\ q # NULL /\ held # Broken /\ held' = Contents
  BY DEF Inserted
<1>3. cmd \in Inserting /\ str \in Strings
  BY <1>1, <1>2 DEF Control
<1>4. ~Taking /\ ~Cleared /\ Rest = NULL /\ cmd # "new"
  BY <1>2, <1>3 DEF Taking, Cleared, Rest
<1>5. PICK k, L, m, M : Shape(k, L, m, M)
  BY DEF IInv
<1>6. /\ k \in Nat /\ Says(k, L, m, M) /\ m = 0 /\ (Linked => k > 0)
      /\ held \in Seq(Strings \cup {Blank})
      /\ Contents = [j \in 1 .. k |-> value[L[j]]]
      /\ Contents \in Seq(Strings \cup {Blank}) /\ Len(Contents) = k
      /\ \A j \in 1 .. k : Contents[j] = value[L[j]]
  BY <1>2, <1>4, <1>5, Seen
<1>7. Abstract!Whole
  BY <1>6, SeqIsWhole
<1>8. Linked
  <2> SUFFICES ASSUME ~Linked PROVE FALSE
    OBVIOUS
  <2>1. ~Unlinked
    BY <1>2, <1>3 DEF Unlinked, Shrunk, Removed
  <2>2. held = [j \in 1 .. k |-> value[L[j]]]
    BY <1>2, <1>3, <1>6, <2>1 DEF Says
  <2> QED
    BY <1>2, <1>6, <2>2
<1>9. k - 1 \in Nat /\ k > 0
  BY <1>6, <1>8
<1>10. held' = <<str>> \o held \/ held' = Append(held, str)
  <2>1. CASE cmd = "ih"
    <3>1. held = [j \in 1 .. k - 1 |-> value[L[j + 1]]] /\ value[L[1]] = str
      BY <1>2, <1>6, <1>8, <2>1 DEF Says
    <3>2. Len(held) = k - 1 /\ \A j \in 1 .. Len(held) : held[j] = value[L[j + 1]]
      BY <1>9, <3>1
    <3>3. \A j \in 1 .. Len(held) : held[j] = Contents[j + 1]
      <4> SUFFICES ASSUME NEW j \in 1 .. Len(held) PROVE held[j] = Contents[j + 1]
        OBVIOUS
      <4>1. j + 1 \in 1 .. k
        BY <1>6, <3>2
      <4> QED
        BY <1>6, <3>2, <4>1
    <3>4. Contents[1] = str /\ Len(Contents) = Len(held) + 1
      <4>1. 1 \in 1 .. k /\ (k - 1) + 1 = k
        BY <1>6, <1>9
      <4> QED
        BY <1>6, <3>1, <3>2, <4>1
    <3>5. str \in Strings \cup {Blank}
      BY <1>3
    <3>6. Contents = <<str>> \o held
      <4>1. PICK A, c, h : A = Strings \cup {Blank} /\ c = Contents /\ h = held
        OBVIOUS
      <4>2. c \in Seq(A) /\ h \in Seq(A) /\ str \in A
        BY <1>6, <3>5, <4>1
      <4>3. Len(c) = Len(h) + 1 /\ c[1] = str /\ \A j \in 1 .. Len(h) : h[j] = c[j + 1]
        BY <3>3, <3>4, <4>1
      <4>4. c = <<str>> \o h
        BY <4>2, <4>3, IsPrepended
      <4> QED
        BY <4>1, <4>4
    <3> QED
      BY <1>2, <3>6
  <2>2. CASE cmd = "it"
    <3>1. held = [j \in 1 .. k - 1 |-> value[L[j]]] /\ value[L[k]] = str
      BY <1>2, <1>6, <1>8, <2>2 DEF Says
    <3>2. Len(held) = k - 1 /\ \A j \in 1 .. Len(held) : held[j] = value[L[j]]
      BY <1>9, <3>1
    <3>3. \A j \in 1 .. Len(held) : held[j] = Contents[j]
      <4> SUFFICES ASSUME NEW j \in 1 .. Len(held) PROVE held[j] = Contents[j]
        OBVIOUS
      <4>1. j \in 1 .. k
        BY <1>6, <3>2
      <4> QED
        BY <1>6, <3>2, <4>1
    <3>4. Contents[Len(Contents)] = str /\ Len(Contents) = Len(held) + 1
      <4>1. k \in 1 .. k /\ (k - 1) + 1 = k
        BY <1>6, <1>9
      <4> QED
        BY <1>6, <3>1, <3>2, <4>1
    <3>5. str \in Strings \cup {Blank}
      BY <1>3
    <3>6. Contents = Append(held, str)
      <4>1. PICK A, c, h : A = Strings \cup {Blank} /\ c = Contents /\ h = held
        OBVIOUS
      <4>2. c \in Seq(A) /\ h \in Seq(A) /\ str \in A /\ Len(c) = Len(h) + 1
        BY <1>6, <3>4, <3>5, <4>1
      <4>3. c[Len(c)] = str /\ \A j \in 1 .. Len(h) : h[j] = c[j]
        BY <3>3, <3>4, <4>1
      <4>4. c = Append(h, str)
        BY <4>2, <4>3, IsAppended
      <4> QED
        BY <4>1, <4>4
    <3> QED
      BY <1>2, <3>6
  <2> QED
    BY <1>3, <2>1, <2>2
<1>11. Abstract!InsertString
  BY <1>3, <1>10 DEF Abstract!InsertString
<1> QED
  BY <1>7, <1>11 DEF Abstract!Next

LEMMA RemovedRefines == IInv /\ HeldIsSeq /\ FinishRemove => [Abstract!Next]_held
<1> SUFFICES ASSUME IInv, HeldIsSeq, FinishRemove, held' # held PROVE Abstract!Next
  OBVIOUS
<1>1. TypeOK /\ Control
  BY DEF IInv
<1>2. pc \in {"cancel", "interrupted"} /\ cmd = "rh" /\ held' = Kept
  BY DEF FinishRemove, Cancelled
<1>3. q # NULL /\ held # Broken /\ held' = Contents
  <2>1. q = NULL => held = NoQueue
    BY <1>1 DEF Control
  <2> QED
    BY <1>2, <2>1 DEF Kept
<1>4. ~Taking /\ ~Cleared /\ Rest = NULL /\ cmd # "new"
  BY <1>2 DEF Taking, Cleared, Rest
<1>5. PICK k, L, m, M : Shape(k, L, m, M)
  BY DEF IInv
<1>6. /\ k \in Nat /\ Says(k, L, m, M) /\ m = 0
      /\ held \in Seq(Strings \cup {Blank})
      /\ Contents = [j \in 1 .. k |-> value[L[j]]]
      /\ Contents \in Seq(Strings \cup {Blank}) /\ Len(Contents) = k
      /\ \A j \in 1 .. k : Contents[j] = value[L[j]]
  BY <1>3, <1>4, <1>5, Seen
<1>7. Abstract!Whole
  BY <1>6, SeqIsWhole
<1>8. ~Linked
  BY <1>2 DEF Linked, Grown
<1>9. Unlinked
  <2> SUFFICES ASSUME ~Unlinked PROVE FALSE
    OBVIOUS
  <2>1. held = [j \in 1 .. k |-> value[L[j]]]
    BY <1>2, <1>6, <1>8 DEF Says
  <2> QED
    BY <1>3, <1>6, <2>1
<1>10. held = [j \in 1 .. k + 1 |-> IF j = 1 THEN held[1] ELSE value[L[j - 1]]]
  BY <1>2, <1>6, <1>8, <1>9 DEF Says
<1>11. Len(held) = Len(Contents) + 1
  BY <1>6, <1>10
<1>12. ASSUME NEW j \in 1 .. Len(Contents) PROVE held[j + 1] = Contents[j]
  <2>1. j \in 1 .. k /\ j + 1 \in 1 .. k + 1 /\ j + 1 # 1 /\ (j + 1) - 1 = j
    BY <1>6, <1>12
  <2>2. held[j + 1] = value[L[(j + 1) - 1]]
    BY <1>10, <2>1
  <2> QED
    BY <1>6, <2>1, <2>2
<1>13. held # <<>> /\ Contents = Tail(held)
  BY <1>6, <1>11, <1>12, IsTail
<1> QED
  BY <1>3, <1>7, <1>13 DEF Abstract!Next, Abstract!RemoveHead

LEMMA ReversedRefines == IInv /\ HeldIsSeq /\ FinishReverse => [Abstract!Next]_held
<1> SUFFICES ASSUME IInv, HeldIsSeq, FinishReverse, held' # held PROVE Abstract!Next
  OBVIOUS
<1>1. TypeOK /\ Control
  BY DEF IInv
<1>2. pc \in {"cancel", "interrupted"} /\ cmd = "reverse" /\ held' = Kept
  BY DEF FinishReverse, Cancelled
<1>3. q # NULL /\ held # Broken /\ held' = Contents
  <2>1. q = NULL => held = NoQueue
    BY <1>1 DEF Control
  <2> QED
    BY <1>2, <2>1 DEF Kept
<1>4. ~Taking /\ ~Cleared /\ Rest = NULL /\ cmd # "new" /\ pc = "cancel"
  <2>1. pc # "interrupted"
    BY <1>1, <1>2, <1>3 DEF Control
  <2> QED
    BY <1>2, <2>1 DEF Taking, Cleared, Rest
<1>5. PICK k, L, m, M : Shape(k, L, m, M)
  BY DEF IInv
<1>6. /\ k \in Nat /\ Says(k, L, m, M) /\ m = 0
      /\ held \in Seq(Strings \cup {Blank})
      /\ Contents = [j \in 1 .. k |-> value[L[j]]]
      /\ Contents \in Seq(Strings \cup {Blank}) /\ Len(Contents) = k
      /\ \A j \in 1 .. k : Contents[j] = value[L[j]]
  BY <1>3, <1>4, <1>5, Seen
<1>7. Abstract!Whole
  BY <1>6, SeqIsWhole
<1>8. ~Linked /\ ~Unlinked
  BY <1>2 DEF Linked, Grown, Unlinked, Shrunk, Removed
<1>9. held = [j \in 1 .. k |-> value[L[k + 1 - j]]]
  BY <1>2, <1>4, <1>6, <1>8 DEF Says
<1>10. Len(held) = Len(Contents)
  BY <1>6, <1>9
<1>11. ASSUME NEW j \in 1 .. Len(Contents) PROVE held[j] = Contents[Len(Contents) + 1 - j]
  <2>1. j \in 1 .. k /\ k + 1 - j \in 1 .. k /\ Len(Contents) + 1 - j = k + 1 - j
    BY <1>6, <1>11
  <2>2. held[j] = value[L[k + 1 - j]]
    BY <1>9, <2>1
  <2> QED
    BY <1>6, <2>1, <2>2
<1>12. Contents = [i \in 1 .. Len(held) |-> held[(Len(held) - i) + 1]]
  BY <1>6, <1>10, <1>11, IsReverse
<1>13. Abstract!ReverseAll
  BY <1>3, <1>12 DEF Abstract!ReverseAll, Abstract!Reverse
<1> QED
  BY <1>7, <1>13 DEF Abstract!Next

LEMMA NewRefines == IInv /\ FinishNew => [Abstract!Next]_held
<1> SUFFICES ASSUME IInv, FinishNew, held' # held PROVE Abstract!Next
  OBVIOUS
<1>1. TypeOK /\ Control
  BY DEF IInv
<1>2. pc \in {"cancel", "interrupted"} /\ cmd = "new" /\ held' = Kept
  BY DEF FinishNew, Cancelled
<1>3. held = NoQueue /\ NoQueue # Broken
  BY <1>1, <1>2, QTestAssumption DEF Control
<1>4. q # NULL /\ held' = Contents
  BY <1>2, <1>3 DEF Kept
<1>5. ~Taking /\ ~Cleared
  BY <1>2 DEF Taking, Cleared
<1>6. Live /\ Whole
  BY <1>3, <1>4, <1>5 DEF Live, HasQueue, Whole
<1>7. PICK k, L, m, M : Shape(k, L, m, M)
  BY DEF IInv
<1>8. k = 0
  BY <1>2, <1>6, <1>7 DEF Shape, Tails
<1>9. Chain(next, head, k, L)
  BY <1>6, <1>7 DEF Shape, Front
<1>10. Contents = [j \in 1 .. k |-> value[L[j]]]
  BY <1>1, <1>4, <1>9, ContentsIs
<1>11. Contents = <<>>
  BY <1>8, <1>10
<1> QED
  BY <1>3, <1>4, <1>11 DEF Abstract!Next

LEMMA FreedRefines == Control /\ Cancelled(Freeing) /\ Freed => [Abstract!Next]_held
<1> SUFFICES ASSUME Freed PROVE [Abstract!Next]_held
  OBVIOUS
<1>1. held' = NoQueue
  BY DEF Freed
<1>2. CASE held \in {NoQueue, Broken}
  BY <1>1, <1>2 DEF Abstract!Next
<1>3. CASE held \notin {NoQueue, Broken}
  BY <1>1, <1>3 DEF Abstract!Next, Abstract!Whole
<1> QED
  BY <1>2, <1>3

LEMMA StepRefines == IInv /\ HeldIsSeq /\ [Next]_vars => [Abstract!Next]_held
<1> SUFFICES ASSUME IInv, HeldIsSeq, [Next]_vars PROVE [Abstract!Next]_held
  OBVIOUS
<1>1. TypeOK /\ Control
  BY DEF IInv
<1>2. ASSUME NEW c, NEW s, NEW n, Command(c, s, n) PROVE held' = held
  BY <1>2 DEF Command
<1>3. CASE Execute \/ FinishInsert \/ FinishSize \/ FinishShow \/ Quit \/ UNCHANGED vars
  BY <1>3 DEF Execute, FinishInsert, FinishSize, FinishShow, Quit, vars
<1>4. CASE TimeLimit \/ NullDereferenced
  <2>1. held' = Broken \/ held' = held
    BY <1>4 DEF TimeLimit, NullDereferenced, Jump
  <2> QED
    BY <2>1 DEF Abstract!Next
<1>5. CASE FinishFree \/ FinishOld
  <2>1. Freed /\ Cancelled(Freeing)
    BY <1>5 DEF FinishFree, FinishOld, Cancelled
  <2> HIDE DEF Freeing
  <2> QED
    BY <1>1, <2>1, FreedRefines
<1> QED
  BY <1>2, <1>3, <1>4, <1>5, InsertedRefines, RemovedRefines, ReversedRefines, NewRefines DEF Next

(* The queue, and the commands around it, implement a sequence of strings  *)
(* with atomic insertion, removal and reversal.                            *)
THEOREM Refinement == Spec => ImplementsDeque
<1>1. Init => held = NoQueue /\ HeldIsSeq
  BY DEF Init, HeldIsSeq, Whole, Live, HasQueue
<1>2. Spec => [](IInv /\ GoesOn)
  BY Invariance
<1>3. IInv /\ GoesOn /\ HeldIsSeq /\ [Next]_vars => HeldIsSeq'
  BY HeldIsSeqStep
<1>4. IInv /\ HeldIsSeq /\ [Next]_vars => [Abstract!Next]_held
  BY StepRefines
<1>5. Spec => [](IInv /\ HeldIsSeq)
  BY <1>1, <1>2, <1>3, PTL DEF Spec
<1> QED
  BY <1>1, <1>4, <1>5, PTL DEF Spec, ImplementsDeque, Abstract!Spec
=============================================================================
