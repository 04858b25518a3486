----------------------------- MODULE Induction -----------------------------
(***************************************************************************)
(* Induction over natural numbers, in the form that the proofs about lists *)
(* and sums use: on a set of numbers, because no prover here can           *)
(* instantiate a theorem about a predicate.  And sums over finite sets, as *)
(* the functions that the folds of the community modules choose.           *)
(***************************************************************************)
EXTENDS Integers, FiniteSetTheorems, WellFoundedInduction, TLAPS

(* A set of natural numbers has a least one.                               *)
LEMMA Least ==
    ASSUME NEW S \in SUBSET Nat, S # {}
    PROVE  \E m \in S : \A x \in S : m <= x
<1> DEFINE R == {ss \in Nat \X Nat : ss[1] < ss[2]}
<1>1. IsWellFoundedOn(R, Nat)
  BY NatLessThanWellFounded, Zenon DEF OpToRel
<1>2. PICK m \in S : \A y \in S : <<y, m>> \notin R
  <2> HIDE DEF R
  <2> QED
    BY <1>1, WFMin
<1>3. \A y \in S : m <= y
  <2> TAKE y \in S
  <2>1. ~(y < m)
    BY <1>2
  <2> QED
    BY <2>1
<1> QED
  BY <1>3

(* A set of numbers with a bound has a greatest one.                       *)
LEMMA Greatest ==
    ASSUME NEW N \in Nat, NEW S \in SUBSET (1 .. N), S # {}
    PROVE  \E m \in S : \A x \in S : m >= x
<1> DEFINE R == {N - x : x \in S}
<1>1. R \in SUBSET Nat /\ R # {}
  <2>1. \A x \in S : x \in 1 .. N /\ N - x \in Nat
    OBVIOUS
  <2>2. PICK x \in S : TRUE
    OBVIOUS
  <2> QED
    BY <2>1, <2>2
<1>2. PICK r \in R : \A y \in R : r <= y
  <2> HIDE DEF R
  <2> QED
    BY <1>1, Least
<1>3. PICK m \in S : r = N - m
  BY <1>2
<1>4. \A x \in S : N - m <= N - x /\ x \in Int /\ m \in Int
  BY <1>2, <1>3
<1> QED
  BY <1>4

(* What 0 has, and every next number keeps, all the numbers up to N have.  *)
LEMMA UpTo ==
    ASSUME NEW N \in Nat, NEW S, 0 \in S, \A n \in 0 .. N - 1 : n \in S => n + 1 \in S
    PROVE  \A n \in 0 .. N : n \in S
<1> DEFINE Missed == {n \in 0 .. N : n \notin S}
<1> SUFFICES ASSUME Missed # {} PROVE FALSE
  OBVIOUS
<1>0. Missed \in SUBSET Nat
  OBVIOUS
<1>1. PICK m \in Missed : \A x \in Missed : m <= x
  <2> HIDE DEF Missed
  <2> QED
    BY <1>0, Least
<1>2. m # 0 /\ m - 1 \in 0 .. N - 1 /\ m - 1 \in 0 .. N
  BY <1>1
<1>3. m - 1 \in S
  BY <1>1, <1>2
<1> QED
  BY <1>1, <1>2, <1>3

(* The partial sums of a series exist.                                     *)
LEMMA SeriesExists ==
    ASSUME NEW N \in Nat, NEW v
    PROVE  \E s : s = [k \in 0 .. N |-> IF k = 0 THEN 0 ELSE s[k - 1] + v[k - 1]]
<1> DEFINE Has(n) == \E s : s = [k \in 0 .. n |-> IF k = 0 THEN 0 ELSE s[k - 1] + v[k - 1]]
           Good == {n \in Nat : Has(n)}
<1>1. 0 \in Good
  <2> DEFINE s == [k \in 0 .. 0 |-> 0]
  <2>1. s = [k \in 0 .. 0 |-> IF k = 0 THEN 0 ELSE s[k - 1] + v[k - 1]]
    OBVIOUS
  <2> QED
    BY <2>1
<1>2. ASSUME NEW n \in 0 .. N - 1, n \in Good
      PROVE  n + 1 \in Good
  <2>1. PICK s : s = [k \in 0 .. n |-> IF k = 0 THEN 0 ELSE s[k - 1] + v[k - 1]]
    BY <1>2
  <2> DEFINE t == [k \in 0 .. n + 1 |-> IF k = n + 1 THEN s[n] + v[n] ELSE s[k]]
  <2>2. ASSUME NEW k \in 0 .. n + 1
        PROVE  t[k] = IF k = 0 THEN 0 ELSE t[k - 1] + v[k - 1]
    <3>1. CASE k = n + 1
      <4>1. k # 0 /\ k - 1 = n /\ n \in 0 .. n + 1 /\ n # n + 1
        BY <3>1
      <4>2. t[k] = s[n] + v[n] /\ t[n] = s[n]
        BY <3>1, <4>1
      <4> HIDE DEF t
      <4> QED
        BY <4>1, <4>2
    <3>2. CASE k # n + 1
      <4>1. k \in 0 .. n /\ t[k] = s[k]
        BY <3>2
      <4>2. s[k] = IF k = 0 THEN 0 ELSE s[k - 1] + v[k - 1]
        BY <2>1, <4>1
      <4>3. k # 0 => t[k - 1] = s[k - 1]
        BY <4>1
      <4> HIDE DEF t
      <4> QED
        BY <4>1, <4>2, <4>3
    <3> QED
      BY <3>1, <3>2
  <2>3. t = [k \in 0 .. n + 1 |-> t[k]]
    OBVIOUS
  <2>4. t = [k \in 0 .. n + 1 |-> IF k = 0 THEN 0 ELSE t[k - 1] + v[k - 1]]
    <3> HIDE DEF t
    <3> QED
      BY <2>2, <2>3
  <2> HIDE DEF t
  <2>5. Has(n + 1)
    BY <2>4
  <2> QED
    BY <2>5
<1>3. N \in Good
  <2> HIDE DEF Good
  <2> QED
    BY <1>1, <1>2, UpTo
<1> QED
  BY <1>3

-----------------------------------------------------------------------------
(* f sums size over the subsets of S, whichever element is added last.     *)
Additive(f, S, size) ==
    /\ f \in [SUBSET S -> Nat]
    /\ f[{}] = 0
    /\ \A s \in SUBSET S : \A x \in s : f[s] = size[x] + f[s \ {x}]

LEMMA AdditiveGrows ==
    ASSUME NEW T, NEW a, a \notin T, NEW size, size[a] \in Nat,
           \A x \in T : size[x] \in Nat,
           NEW f, Additive(f, T, size)
    PROVE  \E g : Additive(g, T \cup {a}, size)
<1> DEFINE U == T \cup {a}
           g == [s \in SUBSET U |-> IF a \in s THEN size[a] + f[s \ {a}] ELSE f[s]]
<1>1. /\ f \in [SUBSET T -> Nat] /\ f[{}] = 0
      /\ \A s \in SUBSET T : \A x \in s : f[s] = size[x] + f[s \ {x}]
  BY DEF Additive
<1>2. \A s \in SUBSET U : s \ {a} \in SUBSET T /\ (a \notin s => s \in SUBSET T)
  OBVIOUS
<1>3. g \in [SUBSET U -> Nat]
  BY <1>1, <1>2
<1>4. g[{}] = 0
  BY <1>1
<1>5. ASSUME NEW s \in SUBSET U, NEW x \in s
      PROVE  g[s] = size[x] + g[s \ {x}]
  <2>0. s \ {x} \in SUBSET U
    OBVIOUS
  <2>1. CASE x = a
    <3>1. g[s] = size[a] + f[s \ {a}] /\ g[s \ {a}] = f[s \ {a}]
      BY <2>0, <2>1
    <3> QED
      BY <2>1, <3>1
  <2>2. CASE x # a /\ a \in s
    <3>1. x \in s \ {a} /\ s \ {a} \in SUBSET T /\ x \in T
      BY <1>2, <2>2
    <3>2. f[s \ {a}] = size[x] + f[(s \ {a}) \ {x}]
      BY <1>1, <3>1
    <3>3. (s \ {a}) \ {x} = (s \ {x}) \ {a} /\ (s \ {a}) \ {x} \in SUBSET T
      BY <3>1
    <3>4. g[s] = size[a] + f[s \ {a}] /\ g[s \ {x}] = size[a] + f[(s \ {x}) \ {a}]
      BY <2>0, <2>2
    <3> DEFINE rest == f[(s \ {x}) \ {a}]
    <3>5. rest \in Nat /\ size[a] \in Nat /\ size[x] \in Nat
      BY <1>1, <3>1, <3>3
    <3>6. f[s \ {a}] = size[x] + rest
      BY <3>2, <3>3
    <3> HIDE DEF rest, g
    <3>7. g[s] = size[a] + (size[x] + rest) /\ g[s \ {x}] = size[a] + rest
      BY <3>4, <3>6 DEF rest
    <3> QED
      BY <3>5, <3>7
  <2>3. CASE a \notin s
    <3>1. s \in SUBSET T /\ a \notin s \ {x}
      BY <1>2, <2>3
    <3>2. g[s] = f[s] /\ g[s \ {x}] = f[s \ {x}]
      BY <2>0, <2>3, <3>1
    <3> QED
      BY <1>1, <3>1, <3>2
  <2> QED
    BY <2>1, <2>2, <2>3
<1> HIDE DEF g
<1> QED
  BY <1>3, <1>4, <1>5 DEF Additive

(* Every finite set has a sum.                                             *)
LEMMA SumExists ==
    ASSUME NEW S, IsFiniteSet(S), NEW size, \A x \in S : size[x] \in Nat
    PROVE  \E f : Additive(f, S, size)
<1> DEFINE Has(T) == \E f : Additive(f, T, size)
           Good == {n \in Nat : \A T \in SUBSET S : Cardinality(T) = n => Has(T)}
<1>0. \A T \in SUBSET S : IsFiniteSet(T) /\ Cardinality(T) \in Nat
  BY FS_Subset, FS_CardinalityType
<1>1. 0 \in Good
  <2>1. ASSUME NEW T \in SUBSET S, Cardinality(T) = 0
        PROVE  Has(T)
    <3>1. T = {}
      BY <1>0, <2>1, FS_EmptySet
    <3> DEFINE f == [s \in SUBSET T |-> 0]
    <3>2. Additive(f, T, size)
      BY <3>1 DEF Additive
    <3> QED
      BY <3>2
  <2> HIDE DEF Has
  <2> QED
    BY <2>1
<1>2. ASSUME NEW n \in 0 .. Cardinality(S) - 1, n \in Good
      PROVE  n + 1 \in Good
  <2>1. ASSUME NEW T \in SUBSET S, Cardinality(T) = n + 1
        PROVE  Has(T)
    <3>1. n \in Nat /\ IsFiniteSet(T)
      BY <1>0
    <3>2. T # {}
      BY <2>1, <3>1, FS_EmptySet
    <3>3. PICK a \in T : TRUE
      BY <3>2
    <3>4. T \ {a} \in SUBSET S /\ Cardinality(T \ {a}) = n
      <4>1. Cardinality(T \ {a}) = Cardinality(T) - 1
        BY <3>1, <3>3, FS_RemoveElement
      <4>2. (n + 1) - 1 = n
        BY <3>1
      <4> QED
        BY <2>1, <4>1, <4>2
    <3>5. Has(T \ {a})
      <4> HIDE DEF Has
      <4> QED
        BY <1>2, <3>4
    <3>6. PICK f : Additive(f, T \ {a}, size)
      BY <3>5
    <3>7. (T \ {a}) \cup {a} = T /\ a \notin T \ {a} /\ size[a] \in Nat
          /\ \A x \in T \ {a} : size[x] \in Nat
      BY <3>3
    <3>8. \E g : Additive(g, (T \ {a}) \cup {a}, size)
      BY <3>6, <3>7, AdditiveGrows
    <3> QED
      BY <3>7, <3>8
  <2>2. n + 1 \in Nat
    BY <1>0
  <2> HIDE DEF Has
  <2> QED
    BY <2>1, <2>2
<1>3. Cardinality(S) \in Good
  <2>1. Cardinality(S) \in Nat /\ Cardinality(S) \in 0 .. Cardinality(S)
    BY FS_CardinalityType
  <2> HIDE DEF Good
  <2> QED
    BY <1>1, <1>2, <2>1, UpTo
<1> QED
  BY <1>3

(* A function that takes the elements off one by one agrees with it.       *)
TakesOff(g, S, size) ==
    /\ g[{}] = 0
    /\ \A s \in SUBSET S : s # {} =>
          \E x \in s : g[s \ {x}] \in Nat => g[s] = size[x] + g[s \ {x}]

LEMMA SumIsUnique ==
    ASSUME NEW S, IsFiniteSet(S), NEW size, NEW f, Additive(f, S, size),
           NEW g, TakesOff(g, S, size)
    PROVE  \A s \in SUBSET S : g[s] = f[s]
<1> DEFINE Good == {n \in Nat : \A T \in SUBSET S : Cardinality(T) = n => g[T] = f[T]}
<1>0. \A T \in SUBSET S : IsFiniteSet(T) /\ Cardinality(T) \in 0 .. Cardinality(S)
                           /\ Cardinality(T) \in Nat
  BY FS_Subset, FS_CardinalityType
<1>1. 0 \in Good
  <2>1. ASSUME NEW T \in SUBSET S, Cardinality(T) = 0
        PROVE  g[T] = f[T]
    <3>1. T = {}
      BY <1>0, <2>1, FS_EmptySet
    <3> QED
      BY <3>1 DEF Additive, TakesOff
  <2> QED
    BY <2>1
<1>2. ASSUME NEW n \in 0 .. Cardinality(S) - 1, n \in Good
      PROVE  n + 1 \in Good
  <2>1. ASSUME NEW T \in SUBSET S, Cardinality(T) = n + 1
        PROVE  g[T] = f[T]
    <3>1. n \in Nat /\ IsFiniteSet(T)
      BY <1>0
    <3>2. T # {}
      BY <2>1, <3>1, FS_EmptySet
    <3>3. PICK x \in T : g[T \ {x}] \in Nat => g[T] = size[x] + g[T \ {x}]
      BY <3>2 DEF TakesOff
    <3>4. T \ {x} \in SUBSET S /\ Cardinality(T \ {x}) = n
      <4>1. Cardinality(T \ {x}) = Cardinality(T) - 1
        BY <3>1, <3>3, FS_RemoveElement
      <4>2. (n + 1) - 1 = n
        BY <3>1
      <4> QED
        BY <2>1, <4>1, <4>2
    <3>5. g[T \ {x}] = f[T \ {x}]
      BY <1>2, <3>4
    <3>6. f[T] = size[x] + f[T \ {x}] /\ f[T \ {x}] \in Nat
      BY <3>4 DEF Additive
    <3> QED
      BY <3>3, <3>5, <3>6
  <2>2. n + 1 \in Nat
    BY <1>0
  <2> QED
    BY <2>1, <2>2
<1>3. \A n \in 0 .. Cardinality(S) : n \in Good
  <2>1. Cardinality(S) \in Nat
    BY FS_CardinalityType
  <2> HIDE DEF Good
  <2> QED
    BY <1>1, <1>2, <2>1, UpTo
<1> QED
  BY <1>0, <1>3

(* The sum over a subset, and of sizes that are the same.                  *)
LEMMA AdditiveWithin ==
    ASSUME NEW S, NEW size, NEW f, Additive(f, S, size), NEW T \in SUBSET S,
           NEW size2, \A x \in T : size2[x] = size[x]
    PROVE  \E g : Additive(g, T, size2) /\ \A s \in SUBSET T : g[s] = f[s]
<1> DEFINE g == [s \in SUBSET T |-> f[s]]
<1>1. Additive(g, T, size2) /\ \A s \in SUBSET T : g[s] = f[s]
  BY DEF Additive
<1> QED
  BY <1>1
=============================================================================
