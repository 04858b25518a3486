----------------------------- MODULE CsimProofs -----------------------------
(***************************************************************************)
(* Proofs about Csim, for any number of sets, ways and accesses.           *)
(***************************************************************************)
EXTENDS Csim, FiniteSetTheorems, TLAPS

IInv == TypeOK /\ SetsSound /\ Accounting

-----------------------------------------------------------------------------
(* An address has a set and a tag. *)
LEMMA AddressParts ==
    /\ S \in Nat \ {0} /\ B \in Nat \ {0}
    /\ \A addr \in Addresses : set_index(addr) \in Sets /\ Tag(addr) \in Nat
<1>1. S \in Nat \ {0} /\ B \in Nat \ {0}
  BY CsimAssumption DEF S, B
<1>2. B * S \in Nat \ {0}
  <2>1. \A x, y \in Nat \ {0} : x * y \in Nat \ {0}
    OBVIOUS
  <2> QED
    BY <1>1, <2>1
<1>3. ASSUME NEW addr \in Addresses
      PROVE  set_index(addr) \in Sets /\ Tag(addr) \in Nat
  <2>1. addr \in Nat
    BY CsimAssumption
  <2>2. \A x \in Nat, d \in Nat \ {0} : x \div d \in Nat /\ x % d \in 0 .. d - 1
    OBVIOUS
  <2> QED
    BY <1>1, <1>2, <2>1, <2>2 DEF set_index, Tag, Sets
<1> QED
  BY <1>1, <1>3

(* The lines of a simulator are finitely many. *)
LEMMA PlacesFinite ==
    ASSUME TypeOK
    PROVE  IsFiniteSet(InUse) /\ IsFiniteSet(Dirty)
<1>1. IsFiniteSet(Sets) /\ IsFiniteSet(1 .. MaxE)
  BY AddressParts, CsimAssumption, FS_Interval DEF Sets
<1>2. IsFiniteSet(Places)
  BY <1>1, FS_Product DEF Places
<1> QED
  BY <1>2, FS_Subset DEF InUse, Dirty

(* Every access puts one new line in the place of another, or of itself.   *)
(* It is the youngest, its tag is no other line's, and it counts as used   *)
(* since the set is full when all others are in use.                       *)
Changed(i, l, new) ==
    /\ E' = E
    /\ cache' = [cache EXCEPT ![i] = [k \in Lines |-> IF k = l THEN new ELSE @[k]]]

OthersUsed(i, l) == \A k \in Lines \ {l} : cache[i][k].counter >= 0

Touches(i, l, new) ==
    /\ Changed(i, l, new)
    /\ new \in line /\ new.valid /\ new.counter >= 0
    /\ \A k \in Lines \ {l} : cache[i][k].valid => cache[i][k].tag # new.tag
    /\ OthersUsed(i, l) =>
          /\ since' = [since EXCEPT ![i] = @ \cup {l}]
          /\ \A k \in Lines : cache[i][k].counter < new.counter
    /\ ~OthersUsed(i, l) => since' = since /\ since[i] = {}

(* Such an access keeps the sets sound. *)
LEMMA OneLine ==
    ASSUME TypeOK, SetsSound,
           NEW i \in Sets, NEW l \in Lines, NEW new, Touches(i, l, new)
    PROVE  /\ cache' \in [Sets -> [Lines -> line]]
           /\ since' \in [Sets -> SUBSET Lines]
           /\ SetsSound'
           /\ InUse' = InUse \cup {<<i, l>>}
           /\ Dirty' = IF new.dirty THEN Dirty \cup {<<i, l>>} ELSE Dirty \ {<<i, l>>}
<1>0. /\ Changed(i, l, new)
      /\ new \in line /\ new.valid /\ new.counter >= 0
      /\ \A k \in Lines \ {l} : cache[i][k].valid => cache[i][k].tag # new.tag
      /\ \/ since' = since /\ since[i] = {}
         \/ /\ since' = [since EXCEPT ![i] = @ \cup {l}]
            /\ \A k \in Lines \ {l} : cache[i][k].counter >= 0
            /\ \A k \in Lines : cache[i][k].counter < new.counter
  BY DEF Touches, OthersUsed
<1>1. Lines' = Lines /\ Sets' = Sets /\ Places' = Places
  BY <1>0 DEF Changed, Lines, Sets, Places
<1>2. /\ cache' \in [Sets -> [Lines -> line]]
      /\ \A j \in Sets, k \in Lines :
            cache'[j][k] = IF j = i /\ k = l THEN new ELSE cache[j][k]
  BY <1>0 DEF TypeOK, Changed
<1>3. /\ since' \in [Sets -> SUBSET Lines]
      /\ \A j \in Sets : j # i => since'[j] = since[j]
  BY <1>0 DEF TypeOK
<1>4. \A j \in Sets, k \in Lines :
         /\ cache[j][k].counter \in Nat \cup {-1}
         /\ cache'[j][k].counter \in Nat \cup {-1}
  BY <1>2 DEF TypeOK, line
<1>5. AgedWhenValid'
  BY <1>0, <1>1, <1>2 DEF SetsSound, AgedWhenValid
<1>6. TagsUnique'
  BY <1>0, <1>1, <1>2 DEF SetsSound, TagsUnique
<1>7. AgesInOrder'
  <2> SUFFICES ASSUME NEW j \in Sets, NEW k \in since'[j]
               PROVE  /\ Full(cache[j])'
                      /\ \A m \in Lines \ since'[j] :
                            cache'[j][m].counter < cache'[j][k].counter
                      /\ \A m \in since'[j] :
                            cache'[j][m].counter = cache'[j][k].counter => m = k
    BY <1>1 DEF AgesInOrder
  <2>1. k \in Lines
    BY <1>3
  <2>2. CASE j # i
    <3>1. Counters(cache[j])' = Counters(cache[j])
      BY <1>1, <1>2, <2>2 DEF Counters
    <3> QED
      BY <1>2, <1>3, <2>1, <2>2, <3>1 DEF SetsSound, AgesInOrder, Full, TypeOK
  <2>3. CASE j = i
    <3>1. /\ since' = [since EXCEPT ![i] = @ \cup {l}]
          /\ \A m \in Lines \ {l} : cache[i][m].counter >= 0
          /\ \A m \in Lines : cache[i][m].counter < new.counter
      BY <1>0, <2>3
    <3>2. since'[i] = since[i] \cup {l} /\ since[i] \subseteq Lines
      BY <3>1 DEF TypeOK
    <3>3. Full(cache[i])'
      BY <1>0, <1>1, <1>2, <3>1 DEF Full, Counters
    <3>4. \A m \in Lines \ since'[i] : cache'[i][m].counter < cache'[i][k].counter
      BY <1>2, <1>4, <2>1, <2>3, <3>1, <3>2 DEF SetsSound, AgesInOrder
    <3>5. \A m \in since'[i] : cache'[i][m].counter = cache'[i][k].counter => m = k
      <4> TAKE m \in since'[i]
      <4>1. m \in Lines
        BY <3>2
      <4>2. m # l => m \in since[i] /\ cache'[i][m] = cache[i][m]
        BY <1>2, <3>2, <4>1
      <4>3. k # l => k \in since[i] /\ cache'[i][k] = cache[i][k]
        BY <1>2, <2>1, <2>3, <3>2
      <4>4. cache'[i][l] = new /\ new.counter \in Nat
        BY <1>0, <1>2 DEF line
      <4> QED
        BY <1>4, <2>1, <3>1, <4>1, <4>2, <4>3, <4>4 DEF SetsSound, AgesInOrder
    <3> QED
      BY <2>3, <3>3, <3>4, <3>5
  <2> QED
    BY <2>2, <2>3
<1>8. /\ InUse' = InUse \cup {<<i, l>>}
      /\ Dirty' = IF new.dirty THEN Dirty \cup {<<i, l>>} ELSE Dirty \ {<<i, l>>}
  <2>1. E' = E /\ E \in 1 .. MaxE /\ MaxE \in Nat
    BY <1>0, CsimAssumption DEF Changed, TypeOK
  <2>2. <<i, l>> \in Places /\ l <= E
    BY <2>1 DEF Places, Lines
  <2>3. \A p \in Places : p[2] <= E =>
           p[1] \in Sets /\ p[2] \in Lines /\ p = <<p[1], p[2]>>
    BY <2>1 DEF Places, Lines
  <2> QED
    BY <1>0, <1>1, <1>2, <2>1, <2>2, <2>3 DEF InUse, Dirty
<1> QED
  BY <1>2, <1>3, <1>5, <1>6, <1>7, <1>8 DEF SetsSound
-----------------------------------------------------------------------------
(* How the dirty lines are counted when one line changes. *)
LEMMA DirtyCount ==
    ASSUME NEW D, IsFiniteSet(D), NEW x
    PROVE  /\ Cardinality(D) \in Nat
           /\ Cardinality(D \cup {x}) = Cardinality(D) + (IF x \in D THEN 0 ELSE 1)
           /\ Cardinality(D \ {x}) = Cardinality(D) - (IF x \in D THEN 1 ELSE 0)
           /\ x \in D => Cardinality(D) >= 1
<1>1. Cardinality(D) \in Nat
  BY FS_CardinalityType
<1>2. Cardinality(D \cup {x}) = IF x \in D THEN Cardinality(D) ELSE Cardinality(D) + 1
  BY FS_AddElement
<1>3. Cardinality(D \ {x}) = IF x \in D THEN Cardinality(D) - 1 ELSE Cardinality(D)
  BY FS_RemoveElement
<1>4. x \in D => Cardinality(D) >= 1
  BY <1>1, FS_EmptySet
<1> QED
  BY <1>1, <1>2, <1>3, <1>4

(* Bytes are counted block by block. *)
LEMMA BlockBytes ==
    \A b \in Nat, n \in Nat, d \in Int :
        b * n \in Nat /\ b * d \in Int /\ b * (n + d) = b * n + b * d
OBVIOUS

(* In a full set the youngest is one line's age, and at least every other. *)
LEMMA YoungestBounds ==
    ASSUME TypeOK, NEW i \in Sets, NEW c \in Counters(cache[i])
    PROVE  /\ c \in Nat \cup {-1}
           /\ Youngest(cache[i], c) => \A k \in Lines : cache[i][k].counter <= c
BY DEF TypeOK, line, Counters, Youngest

(* A set that is not full has no lines that were used since it was. *)
LEMMA NotFull ==
    ASSUME SetsSound, TypeOK, NEW i \in Sets, ~Full(cache[i])
    PROVE  since[i] = {}
BY DEF SetsSound, AgesInOrder, TypeOK

(* What is left of a step once its sets are sound: the counts. *)
LEMMA CountsStep ==
    ASSUME IInv,
           cache' \in [Sets -> [Lines -> line]], since' \in [Sets -> SUBSET Lines],
           SetsSound', UNCHANGED E,
           hits' \in Nat, misses' \in Nat, evictions' \in Nat,
           dirty_bytes_evicted' \in Nat,
           misses' - evictions' = Cardinality(InUse'),
           NEW d \in Int,
           dirty_bytes_in_cache' = dirty_bytes_in_cache + B * d,
           Cardinality(Dirty') = Cardinality(Dirty) + d,
           Cardinality(Dirty') \in Nat
    PROVE  IInv'
<1>1. B \in Nat /\ B' = B
  BY AddressParts DEF B
<1>2. Cardinality(Dirty) \in Nat
  BY PlacesFinite, FS_CardinalityType DEF IInv
<1>3. dirty_bytes_in_cache' = B * Cardinality(Dirty')
  BY <1>1, <1>2, BlockBytes DEF IInv, Accounting
<1>4. dirty_bytes_in_cache' \in Nat
  BY <1>1, <1>3, BlockBytes
<1>5. TypeOK'
  BY <1>4 DEF IInv, TypeOK, Lines, Sets, S
<1> QED
  BY <1>1, <1>3, <1>5 DEF IInv, Accounting

(* A hit touches the line it finds. *)
LEMMA HitIs ==
    ASSUME TypeOK, SetsSound, NEW op \in {"L", "S"}, NEW i \in Sets, NEW t \in Nat,
           Hit(op, i, t), UNCHANGED E
    PROVE  \E l \in Lines, new \in line :
              /\ Matching(cache[i], t) = {l}
              /\ cache[i][l].valid /\ cache[i][l].tag = t
              /\ new.tag = t
              /\ new.dirty <=> (cache[i][l].dirty \/ op = "S")
              /\ Touches(i, l, new)
<1> DEFINE H == Matching(cache[i], t)
<1>1. PICK h \in Lines : H = {h} /\ cache[i][h].valid /\ cache[i][h].tag = t
  BY DEF Hit, Matching, SetsSound, TagsUnique
<1>2. PICK y \in Counters(cache[i]) :
         /\ YoungestUnsigned(cache[i], y)
         /\ cache' = [cache EXCEPT ![i] = [l \in Lines |->
                IF l \in H THEN Touched(t, @[l].dirty \/ op = "S", y) ELSE @[l]]]
  BY DEF Hit
<1> DEFINE new == Touched(t, cache[i][h].dirty \/ op = "S", y)
<1>3. cache[i][h] \in line /\ y \in Nat \cup {-1}
  BY YoungestBounds DEF TypeOK
<1>4. /\ new \in line /\ new.valid /\ new.counter = y + 1 /\ new.tag = t
      /\ new.dirty <=> (cache[i][h].dirty \/ op = "S")
  <2>1. (cache[i][h].dirty \/ op = "S") \in BOOLEAN /\ y + 1 \in Nat
    BY <1>3
  <2>2. ASSUME NEW dirty \in BOOLEAN
        PROVE  Touched(t, dirty, y) \in line /\ Touched(t, dirty, y).dirty = dirty
    BY <2>1 DEF line, Touched
  <2> QED
    BY <2>1, <2>2 DEF Touched
<1>5. Changed(i, h, new)
  <2> HIDE DEF H
  <2>1. cache' = [cache EXCEPT ![i] = [l \in Lines |->
            IF l = h THEN Touched(t, cache[i][l].dirty \/ op = "S", y) ELSE @[l]]]
    BY <1>1, <1>2 DEF TypeOK
  <2>2. [l \in Lines |->
            IF l = h THEN Touched(t, cache[i][l].dirty \/ op = "S", y) ELSE cache[i][l]]
        = [l \in Lines |-> IF l = h THEN new ELSE cache[i][l]]
    OBVIOUS
  <2> HIDE DEF new
  <2> QED
    BY <2>1, <2>2 DEF Changed
<1>6. \A k \in Lines \ {h} : cache[i][k].valid => cache[i][k].tag # new.tag
  BY <1>1, <1>4 DEF Matching
<1>7. /\ OthersUsed(i, h) => /\ since' = [since EXCEPT ![i] = @ \cup {h}]
                             /\ \A k \in Lines : cache[i][k].counter < new.counter
      /\ ~OthersUsed(i, h) => since' = since /\ since[i] = {}
  <2>1. since' = [since EXCEPT ![i] = IF Full(cache[i]) THEN @ \cup {h} ELSE @]
    BY <1>1 DEF Hit, Used
  <2>2. \A k \in Lines : cache[i][k].counter \in Nat \cup {-1}
    BY DEF TypeOK, line
  <2>3. Full(cache[i]) <=> OthersUsed(i, h)
    BY <1>1, <2>2 DEF Full, OthersUsed, Counters, SetsSound, AgedWhenValid
  <2>4. CASE ~Full(cache[i])
    BY <2>1, <2>3, <2>4, NotFull DEF TypeOK
  <2>5. CASE Full(cache[i])
    <3>1. Youngest(cache[i], y) /\ \A k \in Lines : cache[i][k].counter # -1
      BY <1>2, <2>5 DEF Full, YoungestUnsigned, Counters
    <3> QED
      BY <1>3, <1>4, <2>1, <2>2, <2>3, <2>5, <3>1, YoungestBounds
  <2> QED
    BY <2>4, <2>5
<1> HIDE DEF new
<1>8. Touches(i, h, new)
  BY <1>3, <1>4, <1>5, <1>6, <1>7 DEF Touches
<1> HIDE DEF H
<1>9. H = Matching(cache[i], t)
  BY DEF H
<1> QED
  BY <1>1, <1>4, <1>8, <1>9

LEMMA HitStep ==
    ASSUME IInv, NEW op \in {"L", "S"}, NEW i \in Sets, NEW t \in Nat,
           Hit(op, i, t), UNCHANGED E
    PROVE  IInv'
<1> DEFINE H == Matching(cache[i], t)
<1>0. TypeOK /\ SetsSound /\ Accounting
  BY DEF IInv
<1>1. PICK h \in Lines, new \in line :
         /\ H = {h} /\ cache[i][h].valid
         /\ new.dirty <=> (cache[i][h].dirty \/ op = "S")
         /\ Touches(i, h, new)
  BY <1>0, HitIs
<1>2. cache[i][h] \in line /\ new.valid
  BY <1>0, <1>1 DEF TypeOK, Touches
<1>8. /\ cache' \in [Sets -> [Lines -> line]]
      /\ since' \in [Sets -> SUBSET Lines]
      /\ SetsSound'
      /\ InUse' = InUse \cup {<<i, h>>}
      /\ Dirty' = IF new.dirty THEN Dirty \cup {<<i, h>>} ELSE Dirty \ {<<i, h>>}
  BY <1>0, <1>1, OneLine
<1>9. <<i, h>> \in InUse /\ (<<i, h>> \in Dirty <=> cache[i][h].dirty)
  BY <1>0, <1>1, CsimAssumption DEF TypeOK, Places, Lines, InUse, Dirty
<1>10. Cardinality(Clean(cache[i], H)) = IF cache[i][h].dirty THEN 0 ELSE 1
  BY <1>1, FS_EmptySet, FS_Singleton DEF Clean
<1>11. Cardinality(H) = 1
  BY <1>1, FS_Singleton
<1> HIDE DEF H
<1> DEFINE more == IF op = "S" /\ ~cache[i][h].dirty THEN 1 ELSE 0
<1>12. hits' = hits + 1 /\ dirty_bytes_in_cache' = dirty_bytes_in_cache + B * more
  <2>1. B \in Nat /\ B * 0 = 0 /\ B * 1 = B
    BY AddressParts
  <2>2. dirty_bytes_in_cache \in Nat
    BY <1>0 DEF TypeOK
  <2> QED
    BY <1>10, <1>11, <2>1, <2>2 DEF Hit, H
<1>13. /\ Cardinality(Dirty) \in Nat
       /\ Cardinality(Dirty') = Cardinality(Dirty) + more
  <2>1. Dirty' = IF cache[i][h].dirty \/ op = "S" THEN Dirty \cup {<<i, h>>} ELSE Dirty
    BY <1>1, <1>8, <1>9
  <2>2. /\ Cardinality(Dirty) \in Nat
        /\ Cardinality(Dirty \cup {<<i, h>>}) =
              Cardinality(Dirty) + (IF <<i, h>> \in Dirty THEN 0 ELSE 1)
    BY <1>0, PlacesFinite, DirtyCount
  <2> QED
    BY <1>9, <2>1, <2>2
<1> QED
  <2>1. UNCHANGED <<E, misses, evictions, dirty_bytes_evicted>> /\ more \in {0, 1}
    BY DEF Hit
  <2>2. /\ hits' \in Nat /\ misses' \in Nat /\ evictions' \in Nat
        /\ dirty_bytes_evicted' \in Nat
        /\ Cardinality(Dirty') \in Nat
        /\ misses' - evictions' = Cardinality(InUse')
    <3>1. InUse' = InUse
      BY <1>8, <1>9
    <3> QED
      BY <1>0, <1>12, <1>13, <2>1, <3>1 DEF TypeOK, Accounting
  <2>3. more \in Int
    BY <2>1
  <2> HIDE DEF more, IInv
  <2> QED
    BY <2>3, <1>8, <1>12, <1>13, <2>1, <2>2, CountsStep

(* A miss touches the oldest line, which is not in use, or which is evicted*)
(* when all are. *)
LEMMA MissIs ==
    ASSUME TypeOK, SetsSound, NEW op \in {"L", "S"}, NEW i \in Sets, NEW t \in Nat,
           Miss(op, i, t), UNCHANGED E
    PROVE  \E l \in Lines, new \in line :
              /\ Oldest(cache[i], l)
              /\ \E y \in Counters(cache[i]) :
                    \/ ~cache[i][l].valid /\ Fill(op, i, t, l, y)
                    \/ cache[i][l].valid /\ Evict(op, i, t, l, y)
              /\ cache[i][l].valid => OthersUsed(i, l)
              /\ new.tag = t
              /\ new.dirty <=> op = "S"
              /\ Touches(i, l, new)
<1>2. PICK l \in Lines, y \in Counters(cache[i]) :
         /\ Oldest(cache[i], l)
         /\ Youngest(cache[i], y)
         /\ Fill(op, i, t, l, y) \/ Evict(op, i, t, l, y)
  BY DEF Miss
<1> DEFINE gone == cache[i][l]
<1> DEFINE new == Touched(t, op = "S", y)
<1>3. /\ gone \in line
      /\ \A k \in Lines : cache[i][k].counter \in Nat \cup {-1}
      /\ \A k \in Lines : gone.counter <= cache[i][k].counter
      /\ \A k \in Lines : cache[i][k].counter <= y
      /\ y \in Nat \cup {-1}
  BY <1>2, YoungestBounds DEF Oldest, TypeOK, line
<1>4. /\ new \in line /\ new.valid /\ new.counter = y + 1 /\ new.tag = t
      /\ new.dirty <=> op = "S"
  <2>1. (op = "S") \in BOOLEAN /\ y + 1 \in Nat
    BY <1>3
  <2>2. ASSUME NEW dirty \in BOOLEAN
        PROVE  Touched(t, dirty, y) \in line /\ Touched(t, dirty, y).dirty = dirty
    BY <2>1 DEF line, Touched
  <2> QED
    BY <2>1, <2>2 DEF Touched
<1>5. Changed(i, l, new)
  <2>1. cache' = [cache EXCEPT ![i][l] = new]
    BY <1>2 DEF Fill, Evict
  <2> HIDE DEF new
  <2> QED
    BY <2>1 DEF Changed, TypeOK
<1>6. \A k \in Lines \ {l} : cache[i][k].valid => cache[i][k].tag # new.tag
  BY <1>4 DEF Miss, Matching
<1>7. /\ OthersUsed(i, l) => since' = [since EXCEPT ![i] = @ \cup {l}]
      /\ ~OthersUsed(i, l) => since' = since /\ since[i] = {}
  <2>1. CASE Fill(op, i, t, l, y)
    <3>1. ~Full(cache[i])
      BY <1>3, <2>1 DEF Fill, Full, Counters
    <3>2. since[i] = {}
      BY <3>1, NotFull
    <3>3. CASE OthersUsed(i, l)
      <4>1. since' = [since EXCEPT ![i] = {l}]
        BY <2>1, <3>3 DEF Fill, Used, OthersUsed
      <4> QED
        BY <3>2, <3>3, <4>1
    <3>4. CASE ~OthersUsed(i, l)
      <4>1. since' = [since EXCEPT ![i] = @]
        BY <2>1, <3>1, <3>4 DEF Fill, Used, OthersUsed
      <4> QED
        BY <3>2, <3>4, <4>1 DEF TypeOK
    <3> QED
      BY <3>3, <3>4
  <2>2. CASE Evict(op, i, t, l, y)
    <3>1. \A k \in Lines : cache[i][k].counter >= 0
      BY <1>3, <2>2 DEF Evict
    <3>2. Full(cache[i]) /\ OthersUsed(i, l)
      BY <3>1 DEF Full, Counters, OthersUsed
    <3> QED
      BY <2>2, <3>2 DEF Evict, Used
  <2> QED
    BY <1>2, <2>1, <2>2
<1>8. gone.valid <=> gone.counter >= 0
  BY DEF SetsSound, AgedWhenValid
<1>9. gone.valid => OthersUsed(i, l)
  BY <1>3, <1>8 DEF OthersUsed
<1>10. \/ ~gone.valid /\ Fill(op, i, t, l, y)
       \/ gone.valid /\ Evict(op, i, t, l, y)
  <2>1. gone.counter \in Nat \cup {-1}
    BY <1>3 DEF line
  <2>2. CASE Fill(op, i, t, l, y)
    <3>1. ~(gone.counter >= 0)
      BY <2>1, <2>2 DEF Fill
    <3> QED
      BY <1>8, <2>2, <3>1
  <2>3. CASE Evict(op, i, t, l, y)
    BY <1>8, <2>3 DEF Evict
  <2> QED
    BY <1>2, <2>2, <2>3
<1>11. \A k \in Lines : cache[i][k].counter < new.counter
  BY <1>3, <1>4
<1> HIDE DEF new
<1>12. Touches(i, l, new)
  BY <1>3, <1>4, <1>5, <1>6, <1>7, <1>11 DEF Touches
<1> QED
  BY <1>2, <1>4, <1>9, <1>10, <1>12

LEMMA MissStep ==
    ASSUME IInv, NEW op \in {"L", "S"}, NEW i \in Sets, NEW t \in Nat,
           Miss(op, i, t), UNCHANGED E
    PROVE  IInv'
<1>1. TypeOK /\ SetsSound /\ Accounting
  BY DEF IInv
<1>2. PICK l \in Lines, new \in line :
         /\ \E y \in Counters(cache[i]) :
               \/ ~cache[i][l].valid /\ Fill(op, i, t, l, y)
               \/ cache[i][l].valid /\ Evict(op, i, t, l, y)
         /\ new.dirty <=> op = "S"
         /\ Touches(i, l, new)
  BY <1>1, MissIs
<1> DEFINE gone == cache[i][l]
<1>3. gone \in line
  BY <1>1 DEF TypeOK
<1>4. PICK y \in Counters(cache[i]) :
         \/ ~gone.valid /\ Fill(op, i, t, l, y)
         \/ gone.valid /\ Evict(op, i, t, l, y)
  BY <1>2
<1>8. /\ cache' \in [Sets -> [Lines -> line]]
      /\ since' \in [Sets -> SUBSET Lines]
      /\ SetsSound'
      /\ InUse' = InUse \cup {<<i, l>>}
      /\ Dirty' = IF new.dirty THEN Dirty \cup {<<i, l>>} ELSE Dirty \ {<<i, l>>}
  BY <1>1, <1>2, OneLine
<1>9. /\ <<i, l>> \in InUse <=> gone.valid
      /\ <<i, l>> \in Dirty <=> gone.dirty
      /\ gone.dirty => gone.valid
  BY <1>1, <1>3, CsimAssumption
     DEF TypeOK, Places, Lines, InUse, Dirty, SetsSound, AgedWhenValid
<1> DEFINE more == (IF op = "S" THEN 1 ELSE 0) - (IF gone.dirty THEN 1 ELSE 0)
<1>10. /\ Cardinality(InUse) \in Nat
       /\ Cardinality(InUse') = Cardinality(InUse) + (IF gone.valid THEN 0 ELSE 1)
  BY <1>1, <1>8, <1>9, PlacesFinite, DirtyCount
<1>11. Cardinality(Dirty') \in Nat /\ Cardinality(Dirty') = Cardinality(Dirty) + more
  <2>1. Dirty' = IF op = "S" THEN Dirty \cup {<<i, l>>} ELSE Dirty \ {<<i, l>>}
    BY <1>2, <1>8
  <2>2. /\ Cardinality(Dirty) \in Nat
        /\ Cardinality(Dirty \cup {<<i, l>>}) = Cardinality(Dirty) + (IF gone.dirty THEN 0 ELSE 1)
        /\ Cardinality(Dirty \ {<<i, l>>}) = Cardinality(Dirty) - (IF gone.dirty THEN 1 ELSE 0)
        /\ gone.dirty => Cardinality(Dirty) >= 1
    BY <1>1, <1>9, PlacesFinite, DirtyCount
  <2> HIDE DEF gone
  <2>3. CASE op = "S"
    BY <2>1, <2>2, <2>3
  <2>4. CASE op # "S"
    BY <2>1, <2>2, <2>4
  <2> QED
    BY <2>3, <2>4
<1>12. /\ misses' = misses + 1 /\ hits' = hits
       /\ evictions' = evictions + (IF gone.valid THEN 1 ELSE 0)
       /\ dirty_bytes_evicted' \in Nat
       /\ dirty_bytes_in_cache' = dirty_bytes_in_cache + B * more
  <2>1. B \in Nat /\ dirty_bytes_in_cache \in Nat /\ dirty_bytes_evicted \in Nat
           /\ evictions \in Nat
    BY <1>1, AddressParts DEF TypeOK
  <2>2. B * more = (IF op = "S" THEN B ELSE 0) - (IF gone.dirty THEN B ELSE 0)
    <3>1. B * 0 = 0 /\ B * 1 = B /\ B * (-1) = -B
      BY <2>1
    <3> QED
      BY <2>1, <3>1
  <2> HIDE DEF more
  <2>3. CASE ~gone.valid /\ Fill(op, i, t, l, y)
    BY <1>3, <1>9, <2>1, <2>2, <2>3 DEF Fill, Miss, line
  <2>4. CASE gone.valid /\ Evict(op, i, t, l, y)
    BY <1>3, <1>9, <2>1, <2>2, <2>4 DEF Evict, Miss
  <2> QED
    BY <1>4, <2>3, <2>4
<1>13. /\ hits' \in Nat /\ misses' \in Nat /\ evictions' \in Nat
       /\ misses' - evictions' = Cardinality(InUse')
  <2>1. /\ hits \in Nat /\ misses \in Nat /\ evictions \in Nat
        /\ misses - evictions = Cardinality(InUse)
    BY <1>1 DEF TypeOK, Accounting
  <2> HIDE DEF gone
  <2>2. CASE gone.valid
    BY <1>10, <1>12, <2>1, <2>2
  <2>3. CASE ~gone.valid
    BY <1>10, <1>12, <2>1, <2>3
  <2> QED
    BY <2>2, <2>3
<1>14. more \in Int /\ E' = E
  BY <1>2 DEF Touches, Changed
<1> HIDE DEF more
<1> QED
  BY <1>8, <1>11, <1>12, <1>13, <1>14, CountsStep

-----------------------------------------------------------------------------
LEMMA Initially == Init => IInv
<1> SUFFICES ASSUME Init PROVE IInv
  OBVIOUS
<1>1. Unused \in line /\ ~Unused.valid /\ ~Unused.dirty /\ Unused.counter = -1
  BY DEF Unused, line
<1> HIDE DEF Unused
<1>2. /\ E \in 1 .. MaxE
      /\ cache = [i \in Sets |-> [l \in Lines |-> Unused]]
      /\ hits = 0 /\ misses = 0 /\ evictions = 0
      /\ dirty_bytes_in_cache = 0 /\ dirty_bytes_evicted = 0
      /\ since = [i \in Sets |-> {}]
  BY DEF Init
<1>3. TypeOK
  BY <1>1, <1>2 DEF TypeOK
<1>4. \A i \in Sets, l \in Lines : cache[i][l] = Unused
  BY <1>2
<1>5. SetsSound
  BY <1>1, <1>2, <1>4 DEF SetsSound, AgedWhenValid, TagsUnique, AgesInOrder
<1>6. InUse = {} /\ Dirty = {}
  <2>1. \A p \in Places : p[2] <= E => p[1] \in Sets /\ p[2] \in Lines
    BY <1>2, CsimAssumption DEF Places, Lines
  <2> QED
    BY <1>1, <1>4, <2>1 DEF InUse, Dirty
<1>7. B \in Nat /\ B * 0 = 0
  BY AddressParts
<1>8. Accounting
  BY <1>2, <1>6, <1>7, FS_EmptySet DEF Accounting
<1> QED
  BY <1>3, <1>5, <1>8 DEF IInv

LEMMA Step == IInv /\ [Next]_vars => IInv'
<1> SUFFICES ASSUME IInv, [Next]_vars PROVE IInv'
  OBVIOUS
<1>1. ASSUME NEW op \in {"L", "S"}, NEW addr \in Addresses, TestCache(op, addr)
      PROVE  IInv'
  <2>1. set_index(addr) \in Sets /\ Tag(addr) \in Nat /\ UNCHANGED E
    BY <1>1, AddressParts DEF TestCache
  <2>2. CASE Hit(op, set_index(addr), Tag(addr))
    BY <2>1, <2>2, HitStep
  <2>3. CASE Miss(op, set_index(addr), Tag(addr))
    BY <2>1, <2>3, MissStep
  <2> QED
    BY <1>1, <2>2, <2>3 DEF TestCache
<1>2. CASE UNCHANGED vars
  <2>1. TypeOK'
    BY <1>2 DEF vars, IInv, TypeOK, Sets, Lines, Counters
  <2>2. cache' = cache /\ since' = since /\ E' = E
    BY <1>2 DEF vars
  <2>3. AgedWhenValid'
    BY <2>2 DEF IInv, SetsSound, AgedWhenValid, Lines, Sets
  <2>4. TagsUnique'
    BY <2>2 DEF IInv, SetsSound, TagsUnique, Lines, Sets
  <2>5. ASSUME NEW i \in Sets, NEW l \in since[i]
        PROVE  /\ Full(cache[i])'
               /\ \A k \in Lines' \ since[i] : cache[i][k].counter < cache[i][l].counter
               /\ \A k \in since[i] :
                      cache[i][k].counter = cache[i][l].counter => k = l
    BY <2>2 DEF IInv, SetsSound, AgesInOrder, Lines, Full, Counters
  <2>6. AgesInOrder'
    BY <2>2, <2>5 DEF AgesInOrder, Sets
  <2>7. SetsSound'
    BY <2>3, <2>4, <2>6 DEF SetsSound
  <2>8. InUse' = InUse /\ Dirty' = Dirty
    BY <1>2 DEF vars, InUse, Dirty, Places, Sets
  <2>9. Accounting'
    BY <1>2, <2>8 DEF vars, IInv, Accounting
  <2> QED
    BY <2>1, <2>7, <2>9 DEF IInv
<1> QED
  BY <1>1, <1>2 DEF Next

(* The invariant that all of them follow from, for every geometry. *)
THEOREM Invariance == Spec => []IInv
BY Initially, Step, PTL DEF Spec

(* Every line holds what it should, in every reachable state (csim.c:80).  *)
THEOREM TypeCorrect == Spec => []TypeOK
<1>1. IInv => TypeOK
  BY DEF IInv
<1> QED
  BY Invariance, <1>1, PTL

(* No block is in two lines, and lines age in the order of their use from  *)
(* the moment a set is full (csim.c:92-161).                               *)
THEOREM SetsAreSound == Spec => []SetsSound
<1>1. IInv => SetsSound
  BY DEF IInv
<1> QED
  BY Invariance, <1>1, PTL

(* The counts printed at the end describe the cache (csim.c:130-158).      *)
THEOREM CountsAreRight == Spec => []Accounting
<1>1. IInv => Accounting
  BY DEF IInv
<1> QED
  BY Invariance, <1>1, PTL
-----------------------------------------------------------------------------
(* The lines T of a set, by age: p lists them, the youngest first, and     *)
(* line l is where the lines younger than it leave it.                     *)
YoungerIn(set, T, l) == {k \in T : set[k].counter > set[l].counter}
LineAt(set, T, rank) == CHOOSE l \in T : Cardinality(YoungerIn(set, T, l)) = rank - 1

Listing(set, T, p, n) ==
    /\ n \in Nat
    /\ p \in [1 .. n -> T]
    /\ \A l \in T : set[l].counter \in Int
    /\ \A l \in T : \E r \in 1 .. n : p[r] = l
    /\ \A q, r \in 1 .. n : q < r => set[p[q]].counter > set[p[r]].counter

(* A listing is given by the ages. *)
LEMMA ListingIs ==
    ASSUME NEW set, NEW T, NEW p, NEW n, Listing(set, T, p, n)
    PROVE  /\ IsFiniteSet(T) /\ Cardinality(T) = n
           /\ \A r \in 1 .. n : LineAt(set, T, r) = p[r]
<1>1. /\ n \in Nat /\ p \in [1 .. n -> T]
      /\ \A l \in T : set[l].counter \in Int
      /\ \A l \in T : \E r \in 1 .. n : p[r] = l
      /\ \A q, r \in 1 .. n : q < r => set[p[q]].counter > set[p[r]].counter
  BY DEF Listing
<1>2. \A q, r \in 1 .. n : p[q] = p[r] => q = r
  BY <1>1
<1>3. IsFiniteSet(T) /\ Cardinality(T) = n
  <2>1. p \in Bijection(1 .. n, T)
    BY <1>1, <1>2 DEF Bijection, Injection, Surjection, IsInjective
  <2>2. ExistsBijection(1 .. n, T)
    BY <2>1 DEF ExistsBijection
  <2> QED
    BY <1>1, <2>2, FS_NatBijection, FS_CountingElements
<1>4. ASSUME NEW r \in 1 .. n
      PROVE  Cardinality(YoungerIn(set, T, p[r])) = r - 1
  <2> DEFINE Y == YoungerIn(set, T, p[r])
             f == [q \in 1 .. r - 1 |-> p[q]]
  <2>1. \A q \in 1 .. n : p[q] \in Y <=> q < r
    BY <1>1 DEF YoungerIn
  <2>2. f \in Bijection(1 .. r - 1, Y)
    <3>1. f \in [1 .. r - 1 -> Y]
      BY <1>1, <2>1
    <3>2. \A q, s \in 1 .. r - 1 : f[q] = f[s] => q = s
      BY <1>1, <1>2
    <3>3. \A k \in Y : \E q \in 1 .. r - 1 : f[q] = k
      <4> TAKE k \in Y
      <4>1. k \in T
        BY DEF YoungerIn
      <4>2. PICK q \in 1 .. n : p[q] = k
        BY <1>1, <4>1
      <4>3. q \in 1 .. r - 1
        BY <1>1, <2>1, <4>2
      <4> QED
        BY <4>2, <4>3
    <3> QED
      BY <3>1, <3>2, <3>3 DEF Bijection, Injection, Surjection, IsInjective
  <2>3. ExistsBijection(1 .. r - 1, Y) /\ r - 1 \in Nat
    BY <1>1, <2>2 DEF ExistsBijection
  <2> QED
    BY <2>3, FS_CountingElements
<1>5. ASSUME NEW r \in 1 .. n
      PROVE  LineAt(set, T, r) = p[r]
  <2>1. p[r] \in T /\ Cardinality(YoungerIn(set, T, p[r])) = r - 1
    BY <1>1, <1>4
  <2>2. LineAt(set, T, r) \in T /\ Cardinality(YoungerIn(set, T, LineAt(set, T, r))) = r - 1
    BY <2>1 DEF LineAt
  <2>3. PICK q \in 1 .. n : p[q] = LineAt(set, T, r)
    BY <1>1, <2>2
  <2>4. q - 1 = r - 1
    BY <1>4, <2>2, <2>3
  <2> QED
    BY <1>1, <2>3, <2>4
<1> QED
  BY <1>3, <1>5

(* Lines of different ages have a listing. *)
LEMMA ListingExists ==
    ASSUME NEW set, NEW T, IsFiniteSet(T),
           \A l \in T : set[l].counter \in Int,
           \A k, l \in T : set[k].counter = set[l].counter => k = l
    PROVE  \E p : Listing(set, T, p, Cardinality(T))
<1> DEFINE n == Cardinality(T)
           f == [l \in T |-> Cardinality(YoungerIn(set, T, l)) + 1]
<1>1. n \in Nat /\ IsFiniteSet(1 .. n) /\ Cardinality(1 .. n) = n
  BY FS_CardinalityType, FS_Interval
<1>2. ASSUME NEW l \in T
      PROVE  /\ IsFiniteSet(YoungerIn(set, T, l))
             /\ Cardinality(YoungerIn(set, T, l)) \in 0 .. n - 1
  <2>1. YoungerIn(set, T, l) \subseteq T /\ l \notin YoungerIn(set, T, l)
    BY DEF YoungerIn
  <2>2. /\ IsFiniteSet(YoungerIn(set, T, l))
        /\ Cardinality(YoungerIn(set, T, l)) <= n
        /\ Cardinality(YoungerIn(set, T, l)) # n
    BY <2>1, FS_Subset
  <2> QED
    BY <1>1, <2>2, FS_CardinalityType
<1>3. ASSUME NEW k \in T, NEW l \in T, set[k].counter > set[l].counter
      PROVE  Cardinality(YoungerIn(set, T, k)) < Cardinality(YoungerIn(set, T, l))
  <2>1. /\ YoungerIn(set, T, k) \subseteq YoungerIn(set, T, l)
        /\ k \in YoungerIn(set, T, l) /\ k \notin YoungerIn(set, T, k)
    BY <1>3 DEF YoungerIn
  <2> QED
    BY <1>2, <2>1, FS_Subset
<1>4. f \in Bijection(T, 1 .. n)
  <2>1. f \in [T -> 1 .. n]
    BY <1>1, <1>2
  <2>2. \A k, l \in T : f[k] = f[l] => k = l
    <3> SUFFICES ASSUME NEW k \in T, NEW l \in T, k # l PROVE f[k] # f[l]
      OBVIOUS
    <3>1. set[k].counter > set[l].counter \/ set[l].counter > set[k].counter
      OBVIOUS
    <3> QED
      BY <1>2, <1>3, <3>1
  <2>3. f \in Injection(T, 1 .. n)
    BY <2>1, <2>2 DEF Injection, IsInjective
  <2>4. f \in Surjection(T, 1 .. n)
    BY <1>1, <2>3, FS_Injection
  <2> QED
    BY <2>3, <2>4 DEF Bijection
<1> DEFINE p == [r \in 1 .. n |-> CHOOSE l \in T : f[l] = r]
<1>5. \A r \in 1 .. n : p[r] \in T /\ f[p[r]] = r
  <2> TAKE r \in 1 .. n
  <2>1. \E l \in T : f[l] = r
    BY <1>4 DEF Bijection, Surjection
  <2> QED
    BY <2>1
<1>8. p \in [1 .. n -> T]
  BY <1>5
<1> HIDE DEF p
<1>6. \A q, r \in 1 .. n : q < r => set[p[q]].counter > set[p[r]].counter
  <2> SUFFICES ASSUME NEW q \in 1 .. n, NEW r \in 1 .. n, q < r,
                      ~(set[p[q]].counter > set[p[r]].counter)
               PROVE  FALSE
    OBVIOUS
  <2>1. PICK k, l \in T : k = p[q] /\ l = p[r] /\ f[k] = q /\ f[l] = r
    <3> HIDE DEF f
    <3> QED
      BY <1>5
  <2>2. set[l].counter > set[k].counter
    BY <1>1, <2>1
  <2>3. f[l] < f[k]
    BY <1>2, <1>3, <2>2
  <2> QED
    BY <1>1, <2>1, <2>3
<1>7. \A l \in T : \E r \in 1 .. n : p[r] = l
  <2> TAKE l \in T
  <2>1. f[l] \in 1 .. n /\ p[f[l]] \in T /\ f[p[f[l]]] = f[l]
    BY <1>4, <1>5 DEF Bijection, Injection
  <2>2. p[f[l]] = l
    BY <1>4, <2>1 DEF Bijection, Injection, IsInjective
  <2> QED
    BY <2>1, <2>2
<1> HIDE DEF f
<1> QED
  BY <1>1, <1>6, <1>7, <1>8 DEF Listing

(* The line at place m is touched, or when m is n + 1 a line that is not   *)
(* in the list: it comes first. *)
Raised(p, n, m, l) ==
    [r \in 1 .. (IF m <= n THEN n ELSE n + 1) |->
        IF r = 1 THEN l ELSE IF r <= m THEN p[r - 1] ELSE p[r]]

LEMMA ListingRaised ==
    ASSUME NEW set, NEW T, NEW p, NEW n, Listing(set, T, p, n),
           NEW m \in 1 .. n + 1, NEW l,
           m <= n => p[m] = l,
           m = n + 1 => l \notin T,
           NEW after, after[l].counter \in Int,
           \A k \in T \ {l} : after[k].counter = set[k].counter,
           \A k \in T \ {l} : set[k].counter < after[l].counter
    PROVE  Listing(after, T \cup {l}, Raised(p, n, m, l), IF m <= n THEN n ELSE n + 1)
<1> DEFINE big == IF m <= n THEN n ELSE n + 1
           q == Raised(p, n, m, l)
<1>1. /\ n \in Nat /\ p \in [1 .. n -> T]
      /\ \A k \in T : set[k].counter \in Int
      /\ \A k \in T : \E r \in 1 .. n : p[r] = k
      /\ \A s, r \in 1 .. n : s < r => set[p[s]].counter > set[p[r]].counter
  BY DEF Listing
<1>2. big \in Nat /\ m \in 1 .. big /\ big >= 1
  BY <1>1
<1>3. \A r \in 1 .. n : p[r] = l <=> r = m
  BY <1>1
<1>4. /\ q[1] = l
      /\ \A r \in 2 .. m : q[r] = p[r - 1] /\ r - 1 \in 1 .. n /\ r - 1 # m
      /\ \A r \in m + 1 .. big : r # 1 => q[r] = p[r] /\ r \in 1 .. n /\ r # m
  BY <1>1, <1>2 DEF Raised
<1>5. \A r \in 2 .. big : \E s \in 1 .. n :
         s # m /\ q[r] = p[s] /\ s = (IF r <= m THEN r - 1 ELSE r)
  BY <1>1, <1>2, <1>4
<1>6. \A r \in 2 .. big : q[r] \in T \ {l}
  BY <1>1, <1>3, <1>5
<1>7. q \in [1 .. big -> T \cup {l}]
  <2>1. q = [r \in 1 .. big |-> q[r]]
    BY DEF Raised
  <2>2. \A r \in 1 .. big : q[r] \in T \cup {l}
    BY <1>2, <1>4, <1>6
  <2> HIDE DEF q
  <2> QED
    BY <2>1, <2>2
<1> HIDE DEF q
<1>8. \A k \in T \cup {l} : after[k].counter \in Int
  BY <1>1
<1>9. \A k \in T \cup {l} : \E r \in 1 .. big : q[r] = k
  <2> TAKE k \in T \cup {l}
  <2>1. CASE k = l
    BY <1>2, <1>4, <2>1
  <2>2. CASE k # l
    <3>1. PICK s \in 1 .. n : p[s] = k
      BY <1>1, <2>2
    <3>2. s # m
      BY <1>3, <2>2, <3>1
    <3>3. CASE s < m
      <4>1. s + 1 \in 2 .. m /\ s + 1 \in 1 .. big /\ (s + 1) - 1 = s
        BY <1>1, <1>2, <3>3
      <4> QED
        BY <1>4, <3>1, <4>1
    <3>4. CASE s > m
      <4>1. s \in m + 1 .. big /\ s # 1 /\ s \in 1 .. big
        BY <1>1, <1>2, <3>4
      <4> QED
        BY <1>4, <3>1, <4>1
    <3> QED
      BY <1>1, <3>2, <3>3, <3>4
  <2> QED
    BY <2>1, <2>2
<1>10. \A s, r \in 1 .. big : s < r => after[q[s]].counter > after[q[r]].counter
  <2> SUFFICES ASSUME NEW s \in 1 .. big, NEW r \in 1 .. big, s < r
               PROVE  after[q[s]].counter > after[q[r]].counter
    OBVIOUS
  <2>1. r \in 2 .. big
    BY <1>2
  <2>2. PICK y \in 1 .. n : y # m /\ q[r] = p[y] /\ y = (IF r <= m THEN r - 1 ELSE r)
    BY <1>5, <2>1
  <2>3. q[r] \in T \ {l}
    BY <1>6, <2>1
  <2>4. CASE s = 1
    BY <1>1, <1>4, <2>3, <2>4
  <2>5. CASE s # 1
    <3>1. s \in 2 .. big
      BY <1>2, <2>5
    <3>2. PICK x \in 1 .. n : x # m /\ q[s] = p[x] /\ x = (IF s <= m THEN s - 1 ELSE s)
      BY <1>5, <3>1
    <3>3. q[s] \in T \ {l}
      BY <1>6, <3>1
    <3>4. x < y
      BY <1>1, <1>2, <2>2, <3>2
    <3>5. set[p[x]].counter > set[p[y]].counter
      BY <1>1, <3>4
    <3> QED
      BY <2>2, <2>3, <3>2, <3>3, <3>5
  <2> QED
    BY <2>4, <2>5
<1> QED
  BY <1>2, <1>7, <1>8, <1>9, <1>10 DEF Listing, q

-----------------------------------------------------------------------------
(* A tag goes to the front of a list of tags, in the place of another one. *)
ToFront(t, tags, gone) == <<t>> \o Aged!RemoveFirst(tags, gone)
Shifted(t, s, m, n) ==
    [r \in 1 .. n |-> IF r = 1 THEN t ELSE IF r <= m THEN s[r - 1] ELSE s[r]]

LEMMA FrontOf ==
    ASSUME NEW n \in Nat, NEW s \in [1 .. n -> Nat], NEW m \in 1 .. n,
           NEW t \in Nat,
           \A r \in 1 .. n : s[r] = s[m] => r = m
    PROVE  ToFront(t, s, s[m]) = Shifted(t, s, m, n)
<1>1. s \in Seq(Nat) /\ Len(s) = n
  OBVIOUS
<1>2. Aged!SelectInSeq(s, LAMBDA v : v = s[m]) = m
  <2> DEFINE I == {r \in 1 .. n : s[r] = s[m]}
  <2>1. I = {m}
    OBVIOUS
  <2>2. Aged!Min(I) = m
    <3> HIDE DEF I
    <3> QED
      BY <2>1 DEF Aged!Min
  <2> QED
    BY <1>1, <2>1, <2>2 DEF Aged!SelectInSeq
<1>3. Aged!RemoveFirst(s, s[m]) = Aged!RemoveAt(s, m)
  <2>1. \E r \in 1 .. Len(s) : s[r] = s[m]
    BY <1>1
  <2> QED
    BY <1>2, <2>1 DEF Aged!RemoveFirst
<1> DEFINE q == <<t>> \o Aged!RemoveAt(s, m)
<1>4. /\ Len(q) = n /\ q \in Seq(Nat)
      /\ \A r \in 1 .. n : q[r] = IF r = 1 THEN t ELSE IF r <= m THEN s[r - 1] ELSE s[r]
  <2> DEFINE rest == Aged!RemoveAt(s, m)
  <2>1. /\ rest \in Seq(Nat) /\ Len(rest) = n - 1
        /\ \A r \in 1 .. n - 1 : rest[r] = IF r < m THEN s[r] ELSE s[r + 1]
    <3> DEFINE a == SubSeq(s, 1, m - 1)
               b == SubSeq(s, m + 1, n)
    <3>1. /\ a \in Seq(Nat) /\ Len(a) = m - 1
          /\ \A r \in 1 .. m - 1 : a[r] = s[r]
      BY <1>1
    <3>2. /\ b \in Seq(Nat) /\ Len(b) = n - m
          /\ \A r \in 1 .. n - m : b[r] = s[r + m]
      BY <1>1
    <3>3. rest = a \o b
      BY <1>1 DEF Aged!RemoveAt
    <3> HIDE DEF a, b, rest
    <3>4. rest \in Seq(Nat) /\ Len(rest) = n - 1
      BY <3>1, <3>2, <3>3
    <3>5. ASSUME NEW r \in 1 .. n - 1
          PROVE  rest[r] = IF r < m THEN s[r] ELSE s[r + 1]
      <4>1. rest[r] = IF r <= m - 1 THEN a[r] ELSE b[r - (m - 1)]
        <5>1. ASSUME NEW u \in Seq(Nat), NEW w \in Seq(Nat), NEW j \in 1 .. Len(u) + Len(w)
              PROVE  (u \o w)[j] = IF j <= Len(u) THEN u[j] ELSE w[j - Len(u)]
          OBVIOUS
        <5>2. r \in 1 .. Len(a) + Len(b)
          BY <3>1, <3>2
        <5>3. (a \o b)[r] = IF r <= Len(a) THEN a[r] ELSE b[r - Len(a)]
          BY <3>1, <3>2, <5>1, <5>2
        <5> QED
          BY <3>1, <3>3, <5>3
      <4>2. CASE r < m
        BY <3>1, <4>1, <4>2
      <4>3. CASE ~(r < m)
        <5>1. r - (m - 1) \in 1 .. n - m /\ (r - (m - 1)) + m = r + 1
          BY <4>3
        <5> QED
          BY <3>2, <4>1, <4>3, <5>1
      <4> QED
        BY <4>2, <4>3
    <3> QED
      BY <3>4, <3>5
  <2> HIDE DEF rest
  <2>2. Len(<<t>>) = 1 /\ <<t>> \in Seq(Nat) /\ <<t>>[1] = t
    OBVIOUS
  <2>3. q \in Seq(Nat) /\ Len(q) = n
    BY <2>1, <2>2 DEF rest
  <2> QED
    BY <2>1, <2>2, <2>3 DEF rest
<1>5. q = [r \in 1 .. n |-> q[r]]
  <2> HIDE DEF q
  <2> QED
    BY <1>4
<1> HIDE DEF q
<1>6. q = [r \in 1 .. n |-> IF r = 1 THEN t ELSE IF r <= m THEN s[r - 1] ELSE s[r]]
  BY <1>4, <1>5
<1> QED
  BY <1>3, <1>6 DEF q, ToFront, Shifted

(* A tag goes to the front of a list that has not the one it replaces.     *)
LEMMA InFrontOf ==
    ASSUME NEW n \in Nat, NEW s \in [1 .. n -> Nat], NEW v, NEW t \in Nat,
           \A r \in 1 .. n : s[r] # v
    PROVE  ToFront(t, s, v) = Shifted(t, s, n + 1, n + 1)
<1>1. s \in Seq(Nat) /\ Len(s) = n
  OBVIOUS
<1>2. Aged!RemoveFirst(s, v) = s
  BY <1>1 DEF Aged!RemoveFirst
<1> DEFINE q == <<t>> \o s
<1>3. /\ Len(q) = n + 1 /\ q \in Seq(Nat)
      /\ \A r \in 1 .. n + 1 : q[r] = IF r = 1 THEN t ELSE IF r <= n + 1 THEN s[r - 1] ELSE s[r]
  BY <1>1
<1>4. q = [r \in 1 .. n + 1 |-> q[r]]
  <2> HIDE DEF q
  <2> QED
    BY <1>3
<1> HIDE DEF q
<1>5. q = [r \in 1 .. n + 1 |-> IF r = 1 THEN t ELSE IF r <= n + 1 THEN s[r - 1] ELSE s[r]]
  BY <1>3, <1>4
<1> QED
  BY <1>2, <1>5 DEF q, ToFront, Shifted

(* One set as the abstract cache sees it: lines L, and T used since it is  *)
(* full.                                                                   *)
UsedLines(set, L) == {k \in L : set[k].valid}
TagsIn(set, lines) == {set[k].tag : k \in lines}
Olds(set, L, T) == TagsIn(set, UsedLines(set, L) \ T)
Recents(set, T) == [rank \in 1 .. Cardinality(T) |-> set[LineAt(set, T, rank)].tag]
Dirties(set, L) == TagsIn(set, {k \in L : set[k].dirty})

OneSet(set, L, T) ==
    /\ IsFiniteSet(L) /\ T \subseteq L
    /\ \A k \in L : set[k] \in line
    /\ \A k \in L : set[k].valid <=> set[k].counter >= 0
    /\ \A k \in L : set[k].dirty => set[k].valid
    /\ \A k, l \in L : set[k].valid /\ set[l].valid /\ set[k].tag = set[l].tag => k = l
    /\ T # {} => \A k \in L : set[k].valid
    /\ \A l \in T : \A k \in L \ T : set[k].counter < set[l].counter
    /\ \A k, l \in T : set[k].counter = set[l].counter => k = l

(* The recent tags have a listing of their lines, and no tag twice. *)
LEMMA RecentsAre ==
    ASSUME NEW set, NEW T, NEW p, NEW n, Listing(set, T, p, n)
    PROVE  Recents(set, T) = [r \in 1 .. n |-> set[p[r]].tag]
BY ListingIs DEF Recents

LEMMA HasListing ==
    ASSUME NEW set, NEW L, NEW T, OneSet(set, L, T)
    PROVE  /\ IsFiniteSet(T) /\ Cardinality(T) \in Nat
           /\ \E p : Listing(set, T, p, Cardinality(T))
<1>1. IsFiniteSet(T) /\ Cardinality(T) \in Nat
  BY FS_Subset, FS_CardinalityType DEF OneSet
<1>2. \A l \in T : set[l].counter \in Int
  BY DEF OneSet, line
<1> QED
  BY <1>1, <1>2, ListingExists DEF OneSet

(* What a set holds are the tags of the lines in use, which are as many.   *)
LEMMA HoldsAre ==
    ASSUME NEW set, NEW L, NEW T, OneSet(set, L, T)
    PROVE  /\ Olds(set, L, T) \cup {Recents(set, T)[r] : r \in DOMAIN Recents(set, T)}
                 = TagsIn(set, UsedLines(set, L))
           /\ IsFiniteSet(UsedLines(set, L))
           /\ Cardinality(TagsIn(set, UsedLines(set, L))) = Cardinality(UsedLines(set, L))
<1> DEFINE U == UsedLines(set, L)
           n == Cardinality(T)
           f == [k \in U |-> set[k].tag]
<1>1. PICK p : Listing(set, T, p, n)
  BY HasListing
<1>2. /\ n \in Nat /\ p \in [1 .. n -> T]
      /\ \A l \in T : \E r \in 1 .. n : p[r] = l
  BY <1>1 DEF Listing
<1>3. Recents(set, T) = [r \in 1 .. n |-> set[p[r]].tag]
  BY <1>1, RecentsAre
<1>4. T \subseteq U
  BY DEF OneSet, UsedLines
<1>5. {Recents(set, T)[r] : r \in DOMAIN Recents(set, T)} = TagsIn(set, T)
  <2>1. DOMAIN Recents(set, T) = 1 .. n /\ \A r \in 1 .. n : Recents(set, T)[r] = set[p[r]].tag
    BY <1>3
  <2> QED
    BY <1>2, <2>1 DEF TagsIn
<1>6. Olds(set, L, T) \cup TagsIn(set, T) = TagsIn(set, U)
  BY <1>4 DEF Olds, TagsIn
<1>7. IsFiniteSet(U)
  <2>1. U \subseteq L /\ IsFiniteSet(L)
    BY DEF UsedLines, OneSet
  <2> QED
    BY <2>1, FS_Subset
<1>8. f \in Bijection(U, TagsIn(set, U))
  <2>1. f \in [U -> TagsIn(set, U)]
    BY DEF TagsIn
  <2>2. \A k, l \in U : f[k] = f[l] => k = l
    BY DEF UsedLines, OneSet
  <2>3. \A t \in TagsIn(set, U) : \E k \in U : f[k] = t
    BY DEF TagsIn
  <2> HIDE DEF f, U
  <2> QED
    BY <2>1, <2>2, <2>3 DEF Bijection, Injection, Surjection, IsInjective
<1>9. Cardinality(TagsIn(set, U)) = Cardinality(U)
  <2>1. ExistsBijection(U, TagsIn(set, U))
    BY <1>8 DEF ExistsBijection
  <2> QED
    BY <1>7, <2>1, FS_Bijection
<1> QED
  BY <1>5, <1>6, <1>7, <1>9

(* Line l is touched in a set whose other lines are all in use. *)
LEMMA FullTouched ==
    ASSUME NEW set, NEW L, NEW T, OneSet(set, L, T),
           NEW l \in L, NEW new \in line, NEW after,
           \A k \in L : after[k] = IF k = l THEN new ELSE set[k],
           new.valid,
           \A k \in L \ {l} : set[k].valid,
           \A k \in L : set[k].counter < new.counter
    PROVE  /\ set[l].valid =>
                 /\ Recents(after, T \cup {l}) = ToFront(new.tag, Recents(set, T), set[l].tag)
                 /\ Olds(after, L, T \cup {l}) = Olds(set, L, T) \ {set[l].tag}
           /\ ~set[l].valid =>
                 /\ Recents(after, T \cup {l}) = <<new.tag>>
                 /\ Olds(after, L, T \cup {l}) = Olds(set, L, T)
<1> DEFINE n == Cardinality(T)
<1>1. /\ T \subseteq L
      /\ \A k \in L : set[k] \in line
      /\ \A k, m \in L : set[k].valid /\ set[m].valid /\ set[k].tag = set[m].tag => k = m
      /\ T # {} => \A k \in L : set[k].valid
  BY DEF OneSet
<1>2. PICK p : Listing(set, T, p, n)
  BY HasListing
<1>3. /\ n \in Nat /\ p \in [1 .. n -> T]
      /\ \A k \in T : \E r \in 1 .. n : p[r] = k
      /\ \A q, r \in 1 .. n : q < r => set[p[q]].counter > set[p[r]].counter
      /\ \A k \in T : set[k].counter \in Int
  BY <1>2 DEF Listing
<1>4. PICK m \in 1 .. n + 1 : (m <= n => p[m] = l) /\ (m = n + 1 => l \notin T)
  <2>1. CASE l \in T
    <3>1. PICK r \in 1 .. n : p[r] = l
      BY <1>3, <2>1
    <3> QED
      BY <1>3, <3>1
  <2>2. CASE l \notin T
    BY <1>3, <2>2
  <2> QED
    BY <2>1, <2>2
<1> DEFINE big == IF m <= n THEN n ELSE n + 1
           q == Raised(p, n, m, l)
<1>5. Listing(after, T \cup {l}, q, big)
  <2>1. after[l].counter \in Int /\ after[l].counter = new.counter
    BY DEF line
  <2>2. \A k \in T \ {l} : after[k].counter = set[k].counter
    BY <1>1
  <2>3. \A k \in T \ {l} : set[k].counter < after[l].counter
    BY <1>1, <2>1
  <2> QED
    BY <1>2, <1>4, <2>1, <2>2, <2>3, ListingRaised
<1>6. /\ Recents(after, T \cup {l}) = [r \in 1 .. big |-> after[q[r]].tag]
      /\ Recents(set, T) = [r \in 1 .. n |-> set[p[r]].tag]
  <2> HIDE DEF q, big, n
  <2>1. Recents(after, T \cup {l}) = [r \in 1 .. big |-> after[q[r]].tag]
    <3> DEFINE U == T \cup {l}
    <3>1. Listing(after, U, q, big)
      BY <1>5
    <3> HIDE DEF U
    <3>2. Recents(after, U) = [r \in 1 .. big |-> after[q[r]].tag]
      BY <3>1, RecentsAre
    <3> QED
      BY <3>2 DEF U
  <2>2. Recents(set, T) = [r \in 1 .. n |-> set[p[r]].tag]
    BY <1>2, RecentsAre
  <2> QED
    BY <2>1, <2>2
<1>7. /\ q[1] = l
      /\ \A r \in 2 .. big : q[r] = IF r <= m THEN p[r - 1] ELSE p[r]
  BY <1>3 DEF Raised
<1>8. q \in [1 .. big -> T \cup {l}] /\ big \in Nat
  BY <1>5 DEF Listing
<1>9. \A r, s \in 1 .. n : set[p[r]].tag = set[p[s]].tag => r = s
  BY <1>1, <1>3
<1>10. \A r \in 2 .. big : q[r] # l
  BY <1>1, <1>3, <1>4, <1>7
<1>11. /\ after[q[1]].tag = new.tag
       /\ \A r \in 2 .. big : after[q[r]].tag = set[q[r]].tag
  BY <1>1, <1>7, <1>8, <1>10
<1> DEFINE s == Recents(set, T)
           t == new.tag
<1>12. s \in [1 .. n -> Nat] /\ t \in Nat /\ \A r \in 1 .. n : s[r] = set[p[r]].tag
  BY <1>1, <1>3, <1>6 DEF line
<1>13. \A r \in 1 .. big : after[q[r]].tag =
          IF r = 1 THEN t ELSE IF r <= m THEN s[r - 1] ELSE s[r]
  <2> SUFFICES ASSUME NEW r \in 1 .. big
               PROVE  after[q[r]].tag =
                         IF r = 1 THEN t ELSE IF r <= m THEN s[r - 1] ELSE s[r]
    OBVIOUS
  <2> HIDE DEF q, s, t
  <2>1. CASE r = 1
    BY <1>11, <2>1 DEF t
  <2>2. CASE r # 1
    <3>1. r \in 2 .. big /\ (r <= m => r - 1 \in 1 .. n) /\ (~(r <= m) => r \in 1 .. n)
      BY <1>3, <2>2
    <3> QED
      BY <1>7, <1>11, <1>12, <2>2, <3>1
  <2> QED
    BY <2>1, <2>2
<1>14. Olds(after, L, T \cup {l}) = TagsIn(set, L \ (T \cup {l}))
  <2>1. UsedLines(after, L) = L
    BY <1>1 DEF UsedLines
  <2> QED
    BY <1>1, <2>1 DEF Olds, TagsIn
<1>15. CASE set[l].valid
  <2>1. UsedLines(set, L) = L
    BY <1>15 DEF UsedLines
  <2>2. Olds(after, L, T \cup {l}) = Olds(set, L, T) \ {set[l].tag}
    BY <1>1, <1>14, <1>15, <2>1 DEF Olds, TagsIn
  <2>3. Recents(after, T \cup {l}) = Shifted(t, s, m, big)
    <3> HIDE DEF s, t, q, big
    <3> QED
      BY <1>6, <1>13 DEF Shifted
  <2>4. Shifted(t, s, m, big) = ToFront(t, s, set[l].tag)
    <3>1. CASE m <= n
      <4>1. s[m] = set[l].tag /\ m \in 1 .. n /\ big = n
        BY <1>3, <1>4, <1>12, <3>1
      <4>2. \A r \in 1 .. n : s[r] = s[m] => r = m
        BY <1>9, <1>12, <4>1
      <4> HIDE DEF s, t, big, n
      <4> QED
        <5>1. n \in Nat /\ s \in [1 .. n -> Nat] /\ t \in Nat
          BY <1>3, <1>12
        <5>2. ToFront(t, s, s[m]) = Shifted(t, s, m, n)
          BY <4>1, <4>2, <5>1, FrontOf
        <5> QED
          BY <4>1, <5>2
    <3>2. CASE ~(m <= n)
      <4>1. m = n + 1 /\ l \notin T /\ big = n + 1
        BY <1>3, <1>4, <3>2
      <4>2. \A r \in 1 .. n : s[r] # set[l].tag
        <5> TAKE r \in 1 .. n
        <5>1. p[r] \in T /\ p[r] \in L /\ p[r] # l
          BY <1>1, <1>3, <4>1
        <5> HIDE DEF s
        <5> QED
          BY <1>1, <1>12, <1>15, <5>1
      <4> HIDE DEF s, t, big, n
      <4> QED
        <5>1. n \in Nat /\ s \in [1 .. n -> Nat] /\ t \in Nat
          BY <1>3, <1>12
        <5>2. ToFront(t, s, set[l].tag) = Shifted(t, s, n + 1, n + 1)
          BY <4>2, <5>1, InFrontOf
        <5> QED
          BY <4>1, <5>2
    <3> QED
      BY <3>1, <3>2
  <2> QED
    BY <1>15, <2>2, <2>3, <2>4
<1>16. CASE ~set[l].valid
  <2>1. T = {} /\ n = 0
    BY <1>1, <1>16, FS_EmptySet
  <2>2. UsedLines(set, L) = L \ {l}
    BY <1>16 DEF UsedLines
  <2>3. Olds(after, L, T \cup {l}) = Olds(set, L, T)
    BY <1>14, <2>1, <2>2 DEF Olds
  <2>4. big = 1
    BY <1>4, <2>1
  <2>5. Recents(after, T \cup {l}) = [r \in 1 .. 1 |-> t]
    <3> HIDE DEF s, t, q, big, n
    <3> QED
      BY <1>6, <1>13, <2>4
  <2>6. [r \in 1 .. 1 |-> t] = <<t>>
    <3> HIDE DEF t
    <3>1. [r \in 1 .. 1 |-> t] \in Seq({t}) /\ Len([r \in 1 .. 1 |-> t]) = 1
      OBVIOUS
    <3> QED
      BY <3>1
  <2> QED
    BY <1>16, <2>3, <2>5, <2>6
<1> QED
  BY <1>15, <1>16

(* Line l is touched in a set that is not full afterwards either.          *)
LEMMA PartlyTouched ==
    ASSUME NEW set, NEW L, OneSet(set, L, {}),
           NEW l \in L, NEW new \in line, NEW after,
           \A k \in L : after[k] = IF k = l THEN new ELSE set[k],
           new.valid,
           set[l].valid => set[l].tag = new.tag
    PROVE  /\ Recents(after, {}) = Recents(set, {})
           /\ Olds(after, L, {}) = Olds(set, L, {}) \cup {new.tag}
<1>1. Cardinality({}) = 0 /\ 1 .. 0 = {}
  BY FS_EmptySet
<1>2. Recents(after, {}) = Recents(set, {})
  BY <1>1 DEF Recents
<1>3. UsedLines(after, L) = UsedLines(set, L) \cup {l}
  BY DEF UsedLines
<1>4. UsedLines(set, L) \subseteq L
  BY DEF UsedLines
<1>5. l \in UsedLines(set, L) <=> set[l].valid
  BY DEF UsedLines
<1>6. TagsIn(after, UsedLines(set, L) \cup {l}) = TagsIn(set, UsedLines(set, L)) \cup {new.tag}
  BY <1>4, <1>5 DEF TagsIn
<1> QED
  BY <1>2, <1>3, <1>6 DEF Olds

(* The tags of the dirty lines. *)
LEMMA DirtyTouched ==
    ASSUME NEW set, NEW L, NEW T, OneSet(set, L, T),
           NEW l \in L, NEW new \in line, NEW after,
           \A k \in L : after[k] = IF k = l THEN new ELSE set[k]
    PROVE  Dirties(after, L) = (IF set[l].dirty THEN Dirties(set, L) \ {set[l].tag}
                                ELSE Dirties(set, L))
                               \cup (IF new.dirty THEN {new.tag} ELSE {})
<1> DEFINE D == {k \in L : set[k].dirty}
<1>1. \A k, m \in D : set[k].tag = set[m].tag => k = m
  BY DEF OneSet
<1>2. {k \in L : after[k].dirty} = (D \ {l}) \cup (IF new.dirty THEN {l} ELSE {})
  OBVIOUS
<1>3. TagsIn(after, (D \ {l}) \cup (IF new.dirty THEN {l} ELSE {}))
         = TagsIn(set, D \ {l}) \cup (IF new.dirty THEN {new.tag} ELSE {})
  BY DEF TagsIn
<1>4. TagsIn(set, D \ {l}) = IF set[l].dirty THEN TagsIn(set, D) \ {set[l].tag}
                             ELSE TagsIn(set, D)
  BY <1>1 DEF TagsIn
<1> QED
  BY <1>2, <1>3, <1>4 DEF Dirties

(* A dirty tag is that of a line in use. *)
LEMMA DirtyTag ==
    ASSUME NEW set, NEW L, NEW T, OneSet(set, L, T), NEW l \in L, set[l].valid
    PROVE  set[l].tag \in Dirties(set, L) <=> set[l].dirty
BY DEF OneSet, Dirties, TagsIn

(* The oldest line of a full set is one of the old ones, and if there is   *)
(* none the last of the recent ones. *)
LEMMA OldestTag ==
    ASSUME NEW set, NEW L, NEW T, OneSet(set, L, T),
           \A k \in L : set[k].valid,
           NEW l \in L, \A k \in L : set[l].counter <= set[k].counter
    PROVE  IF Olds(set, L, T) # {} THEN set[l].tag \in Olds(set, L, T)
           ELSE set[l].tag = Aged!Last(Recents(set, T))
<1> DEFINE n == Cardinality(T)
<1>1. /\ T \subseteq L
      /\ \A k \in L : set[k].counter \in Int
      /\ \A k \in T : \A m \in L \ T : set[m].counter < set[k].counter
  BY DEF OneSet, line
<1>2. Olds(set, L, T) = TagsIn(set, L \ T)
  <2>1. UsedLines(set, L) = L
    BY DEF UsedLines
  <2> QED
    BY <2>1 DEF Olds
<1>3. CASE Olds(set, L, T) # {}
  <2>1. PICK k \in L : k \notin T
    BY <1>2, <1>3 DEF TagsIn
  <2>2. l \notin T
    BY <1>1, <2>1
  <2> QED
    BY <1>2, <1>3, <2>2 DEF TagsIn
<1>4. CASE Olds(set, L, T) = {}
  <2>1. l \in T
    BY <1>2, <1>4 DEF TagsIn
  <2>2. PICK p : Listing(set, T, p, n)
    BY HasListing
  <2>3. /\ n \in Nat /\ p \in [1 .. n -> T]
        /\ \A q, r \in 1 .. n : q < r => set[p[q]].counter > set[p[r]].counter
    BY <2>2 DEF Listing
  <2>4. PICK r \in 1 .. n : p[r] = l
    BY <2>1, <2>2 DEF Listing
  <2>5. r = n
    <3> SUFFICES ASSUME r # n PROVE FALSE
      OBVIOUS
    <3>1. n \in 1 .. n /\ r < n
      BY <2>3, <2>4
    <3>2. p[n] \in L /\ set[p[n]].counter < set[l].counter
      BY <1>1, <2>3, <2>4, <3>1
    <3> QED
      BY <1>1, <3>2
  <2>6. Recents(set, T) = [s \in 1 .. n |-> set[p[s]].tag]
    BY <2>2, RecentsAre
  <2>7. Len(Recents(set, T)) = n
    <3> HIDE DEF n
    <3> QED
      BY <2>3, <2>6
  <2>8. Recents(set, T)[n] = set[l].tag
    BY <2>4, <2>5, <2>6
  <2> QED
    BY <1>4, <2>7, <2>8 DEF Aged!Last
<1> QED
  BY <1>3, <1>4

-----------------------------------------------------------------------------
(* Each set of the simulator is such a set, before and after a step. *)
LEMMA EachSet ==
    ASSUME TypeOK, SetsSound, NEW i \in Sets
    PROVE  OneSet(cache[i], Lines, since[i])
<1>1. IsFiniteSet(Lines)
  BY CsimAssumption, FS_Interval DEF TypeOK, Lines
<1>2. \A k \in Lines : cache[i][k] \in line
  BY DEF TypeOK
<1>3. since[i] # {} => \A k \in Lines : cache[i][k].valid
  <2> SUFFICES ASSUME NEW l \in since[i], NEW k \in Lines PROVE cache[i][k].valid
    OBVIOUS
  <2>1. cache[i][k].counter # -1
    BY DEF SetsSound, AgesInOrder, Full, Counters
  <2>2. cache[i][k].counter >= 0
    BY <1>2, <2>1 DEF line
  <2> QED
    BY <2>2 DEF SetsSound, AgedWhenValid
<1>4. /\ since[i] \subseteq Lines
      /\ \A k \in Lines : cache[i][k].valid <=> cache[i][k].counter >= 0
      /\ \A k \in Lines : cache[i][k].dirty => cache[i][k].valid
  BY DEF TypeOK, SetsSound, AgedWhenValid
<1>5. \A k, l \in Lines : cache[i][k].valid /\ cache[i][l].valid
                             /\ cache[i][k].tag = cache[i][l].tag => k = l
  BY DEF SetsSound, TagsUnique
<1>6. /\ \A l \in since[i] : \A k \in Lines \ since[i] :
            cache[i][k].counter < cache[i][l].counter
      /\ \A k, l \in since[i] : cache[i][k].counter = cache[i][l].counter => k = l
  BY DEF SetsSound, AgesInOrder
<1> QED
  BY <1>1, <1>2, <1>3, <1>4, <1>5, <1>6 DEF OneSet

LEMMA Mapping ==
    /\ OldTags = [i \in Sets |-> Olds(cache[i], Lines, since[i])]
    /\ RecentTags = [i \in Sets |-> Recents(cache[i], since[i])]
    /\ DirtyTags = [i \in Sets |-> Dirties(cache[i], Lines)]
BY DEF OldTags, TagsOf, ValidLines, Olds, TagsIn, UsedLines, RecentTags, TagByAge, Younger,
       Recents, LineAt, YoungerIn, DirtyTags, Dirties

LEMMA NextMapping ==
    /\ OldTags' = [i \in Sets |-> Olds(cache'[i], Lines', since'[i])]
    /\ RecentTags' = [i \in Sets |-> Recents(cache'[i], since'[i])]
    /\ DirtyTags' = [i \in Sets |-> Dirties(cache'[i], Lines')]
BY DEF OldTags, TagsOf, ValidLines, Olds, TagsIn, UsedLines, RecentTags, TagByAge, Younger,
       Recents, LineAt, YoungerIn, DirtyTags, Dirties, Sets, S

(* What an access does to the abstract cache.                              *)
LEMMA Access ==
    ASSUME TypeOK, SetsSound, NEW i \in Sets, NEW l \in Lines, NEW new,
           Touches(i, l, new)
    PROVE  /\ OthersUsed(i, l) /\ cache[i][l].valid =>
                 /\ OldTags' = [OldTags EXCEPT ![i] = @ \ {cache[i][l].tag}]
                 /\ RecentTags' = [RecentTags EXCEPT ![i] = ToFront(new.tag, @, cache[i][l].tag)]
           /\ OthersUsed(i, l) /\ ~cache[i][l].valid =>
                 /\ OldTags' = OldTags
                 /\ RecentTags' = [RecentTags EXCEPT ![i] = <<new.tag>>]
           /\ ~OthersUsed(i, l) /\ (cache[i][l].valid => cache[i][l].tag = new.tag) =>
                 /\ OldTags' = [OldTags EXCEPT ![i] = @ \cup {new.tag}]
                 /\ RecentTags' = RecentTags
           /\ DirtyTags' = [DirtyTags EXCEPT ![i] =
                 (IF cache[i][l].dirty THEN @ \ {cache[i][l].tag} ELSE @)
                 \cup (IF new.dirty THEN {new.tag} ELSE {})]
<1> DEFINE set == cache[i]
           after == cache'[i]
           T == since[i]
<1>1. /\ new \in line /\ new.valid
      /\ \A k \in Lines \ {l} : set[k].valid => set[k].tag # new.tag
      /\ OthersUsed(i, l) => since' = [since EXCEPT ![i] = @ \cup {l}]
      /\ OthersUsed(i, l) => \A k \in Lines : set[k].counter < new.counter
      /\ ~OthersUsed(i, l) => since' = since /\ since[i] = {}
  BY DEF Touches
<1>2. Lines' = Lines /\ cache' = [cache EXCEPT ![i] = [k \in Lines |-> IF k = l THEN new ELSE @[k]]]
  BY DEF Touches, Changed, Lines
<1>3. \A k \in Lines : after[k] = IF k = l THEN new ELSE set[k]
  BY <1>2 DEF TypeOK
<1>4. \A j \in Sets : j # i => cache'[j] = cache[j]
  BY <1>2 DEF TypeOK
<1>5. OneSet(set, Lines, T)
  BY EachSet
<1>6. OthersUsed(i, l) => \A k \in Lines \ {l} : set[k].valid
  BY <1>5 DEF OthersUsed, OneSet
<1> DEFINE t == new.tag
           v == set[l].tag
<1>7. ASSUME OthersUsed(i, l)
      PROVE  /\ set[l].valid =>
                   /\ Recents(after, T \cup {l}) = ToFront(t, Recents(set, T), v)
                   /\ Olds(after, Lines, T \cup {l}) = Olds(set, Lines, T) \ {v}
             /\ ~set[l].valid =>
                   /\ Recents(after, T \cup {l}) = <<t>>
                   /\ Olds(after, Lines, T \cup {l}) = Olds(set, Lines, T)
  <2>1. /\ \A k \in Lines \ {l} : set[k].valid
        /\ \A k \in Lines : set[k].counter < new.counter
    BY <1>1, <1>6, <1>7
  <2> HIDE DEF after, set, T
  <2> QED
    BY <1>1, <1>3, <1>5, <2>1, FullTouched
<1>9. ~OthersUsed(i, l) /\ (set[l].valid => v = t) =>
         /\ Recents(after, T) = Recents(set, T)
         /\ Olds(after, Lines, T) = Olds(set, Lines, T) \cup {t}
  <2> SUFFICES ASSUME ~OthersUsed(i, l), set[l].valid => v = t
               PROVE  /\ Recents(after, T) = Recents(set, T)
                      /\ Olds(after, Lines, T) = Olds(set, Lines, T) \cup {t}
    OBVIOUS
  <2>1. T = {}
    BY <1>1
  <2> HIDE DEF after, set, T
  <2>2. OneSet(set, Lines, {})
    BY <1>5, <2>1
  <2>3. /\ Recents(after, {}) = Recents(set, {})
        /\ Olds(after, Lines, {}) = Olds(set, Lines, {}) \cup {t}
    BY <1>1, <1>3, <2>2, PartlyTouched
  <2> QED
    BY <2>1, <2>3
<1>10. Dirties(after, Lines) = (IF set[l].dirty THEN Dirties(set, Lines) \ {v}
                                ELSE Dirties(set, Lines))
                               \cup (IF new.dirty THEN {t} ELSE {})
  <2> HIDE DEF after, set, T
  <2> QED
    BY <1>1, <1>3, <1>5, DirtyTouched
<1>11. /\ OldTags = [j \in Sets |-> Olds(cache[j], Lines, since[j])]
       /\ RecentTags = [j \in Sets |-> Recents(cache[j], since[j])]
       /\ DirtyTags = [j \in Sets |-> Dirties(cache[j], Lines)]
  BY Mapping
<1>12. /\ OldTags' = [j \in Sets |-> Olds(cache'[j], Lines, since'[j])]
       /\ RecentTags' = [j \in Sets |-> Recents(cache'[j], since'[j])]
       /\ DirtyTags' = [j \in Sets |-> Dirties(cache'[j], Lines)]
  BY <1>2, NextMapping
<1>13. OthersUsed(i, l) => since'[i] = T \cup {l} /\ \A j \in Sets : j # i => since'[j] = since[j]
  BY <1>1 DEF TypeOK
<1>14. DirtyTags' = [DirtyTags EXCEPT ![i] =
          (IF set[l].dirty THEN @ \ {v} ELSE @) \cup (IF new.dirty THEN {t} ELSE {})]
  BY <1>4, <1>10, <1>11, <1>12
<1>15. ASSUME OthersUsed(i, l), set[l].valid
       PROVE  /\ OldTags' = [OldTags EXCEPT ![i] = @ \ {v}]
              /\ RecentTags' = [RecentTags EXCEPT ![i] = ToFront(t, @, v)]
  BY <1>4, <1>7, <1>11, <1>12, <1>13, <1>15
<1>16. ASSUME OthersUsed(i, l), ~set[l].valid
       PROVE  /\ OldTags' = OldTags
              /\ RecentTags' = [RecentTags EXCEPT ![i] = <<t>>]
  BY <1>4, <1>7, <1>11, <1>12, <1>13, <1>16
<1>17. ASSUME ~OthersUsed(i, l), set[l].valid => v = t
       PROVE  /\ OldTags' = [OldTags EXCEPT ![i] = @ \cup {t}]
              /\ RecentTags' = RecentTags
  BY <1>1, <1>4, <1>9, <1>11, <1>12, <1>17
<1> QED
  BY <1>14, <1>15, <1>16, <1>17

(* Both modules count alike. *)
LEMMA SameCount ==
    ASSUME NEW X
    PROVE  Aged!Cardinality(X) = Cardinality(X)
BY DEF Aged!Cardinality, Cardinality

(* How full a set is. *)
LEMMA Fullness ==
    ASSUME TypeOK, SetsSound, NEW i \in Sets, NEW l \in Lines
    PROVE  /\ Aged!Holds(i) = TagsIn(cache[i], UsedLines(cache[i], Lines))
           /\ Cardinality(Aged!Holds(i)) \in 0 .. E
           /\ OthersUsed(i, l) <=> \A k \in Lines \ {l} : cache[i][k].valid
           /\ cache[i][l].valid => (Cardinality(Aged!Holds(i)) = E <=> OthersUsed(i, l))
           /\ ~cache[i][l].valid => Cardinality(Aged!Holds(i)) < E
           /\ ~cache[i][l].valid => (Cardinality(Aged!Holds(i)) + 1 = E <=> OthersUsed(i, l))
<1> DEFINE U == UsedLines(cache[i], Lines)
<1>1. OneSet(cache[i], Lines, since[i])
  BY EachSet
<1>2. E \in Nat /\ E >= 1 /\ IsFiniteSet(Lines) /\ Cardinality(Lines) = E
  <2>1. E \in Nat /\ E >= 1
    BY CsimAssumption DEF TypeOK
  <2> QED
    BY <2>1, FS_Interval DEF Lines
<1>3. Aged!Holds(i) = TagsIn(cache[i], U)
  <2>1. OldTags[i] = Olds(cache[i], Lines, since[i]) /\ RecentTags[i] = Recents(cache[i], since[i])
    BY Mapping
  <2>2. Aged!Holds(i) = OldTags[i] \cup {RecentTags[i][r] : r \in DOMAIN RecentTags[i]}
    BY DEF Aged!Holds, Aged!Range
  <2>3. Olds(cache[i], Lines, since[i])
           \cup {Recents(cache[i], since[i])[r] : r \in DOMAIN Recents(cache[i], since[i])}
           = TagsIn(cache[i], U)
    BY <1>1, HoldsAre
  <2> QED
    BY <2>1, <2>2, <2>3
<1>4. IsFiniteSet(U) /\ Cardinality(Aged!Holds(i)) = Cardinality(U)
  BY <1>1, <1>3, HoldsAre
<1>5. U \subseteq Lines /\ \A k \in Lines : k \in U <=> cache[i][k].valid
  BY DEF UsedLines
<1>6. OthersUsed(i, l) <=> \A k \in Lines \ {l} : cache[i][k].valid
  BY DEF OthersUsed, SetsSound, AgedWhenValid
<1> HIDE DEF U
<1>7. Cardinality(U) \in 0 .. E /\ (Cardinality(U) = E <=> U = Lines)
  BY <1>2, <1>4, <1>5, FS_Subset, FS_CardinalityType
<1>8. CASE cache[i][l].valid
  <2>1. U = Lines <=> OthersUsed(i, l)
    BY <1>5, <1>6, <1>8
  <2> QED
    BY <1>3, <1>4, <1>6, <1>7, <1>8, <2>1 DEF U
<1>9. CASE ~cache[i][l].valid
  <2>1. l \notin U
    BY <1>5, <1>9
  <2>2. Cardinality(U \cup {l}) = Cardinality(U) + 1
    BY <1>4, <2>1, FS_AddElement
  <2>3. U \cup {l} \subseteq Lines
    BY <1>5
  <2>4. Cardinality(U \cup {l}) = E <=> U \cup {l} = Lines
    BY <1>2, <2>3, FS_Subset
  <2>5. U \cup {l} = Lines <=> OthersUsed(i, l)
    BY <1>5, <1>6, <2>1
  <2>6. Cardinality(U) # E
    BY <1>7, <2>1
  <2>7. Cardinality(U) + 1 = E <=> OthersUsed(i, l)
    BY <2>2, <2>4, <2>5
  <2>8. Cardinality(U) < E
    BY <1>2, <1>7, <2>6
  <2> QED
    BY <1>3, <1>4, <1>6, <1>7, <1>9, <2>7, <2>8 DEF U
<1> QED
  BY <1>8, <1>9

(* Whole blocks are written back. *)
LEMMA BlockMore ==
    \A n \in Nat, b \in Nat \ {0} : (n + b) \div b = (n \div b) + 1
<1> SUFFICES ASSUME NEW n \in Nat, NEW b \in Nat \ {0}
             PROVE  (n + b) \div b = (n \div b) + 1
  OBVIOUS
<1> QED
  OBVIOUS

LEMMA HitRefines ==
    ASSUME TypeOK, SetsSound, NEW op \in {"L", "S"}, NEW i \in Sets, NEW t \in Nat,
           Hit(op, i, t), UNCHANGED E
    PROVE  Aged!Hit(i, t, op = "S")
<1>1. PICK l \in Lines, new \in line :
         /\ Matching(cache[i], t) = {l}
         /\ cache[i][l].valid /\ cache[i][l].tag = t
         /\ new.tag = t
         /\ new.dirty <=> (cache[i][l].dirty \/ op = "S")
         /\ Touches(i, l, new)
  BY HitIs
<1>2. /\ OthersUsed(i, l) =>
            /\ OldTags' = [OldTags EXCEPT ![i] = @ \ {t}]
            /\ RecentTags' = [RecentTags EXCEPT ![i] = ToFront(t, @, t)]
      /\ ~OthersUsed(i, l) =>
            /\ OldTags' = [OldTags EXCEPT ![i] = @ \cup {t}]
            /\ RecentTags' = RecentTags
      /\ DirtyTags' = [DirtyTags EXCEPT ![i] =
            (IF cache[i][l].dirty THEN @ \ {t} ELSE @) \cup (IF new.dirty THEN {t} ELSE {})]
  BY <1>1, Access
<1>3. /\ Aged!Holds(i) = TagsIn(cache[i], UsedLines(cache[i], Lines))
      /\ Cardinality(Aged!Holds(i)) < E <=> ~OthersUsed(i, l)
  <2>1. /\ Cardinality(Aged!Holds(i)) \in 0 .. E /\ E \in Nat
        /\ Cardinality(Aged!Holds(i)) = E <=> OthersUsed(i, l)
    BY <1>1, Fullness, CsimAssumption DEF TypeOK
  <2> QED
    BY <1>1, <2>1, Fullness
<1>4. t \in Aged!Holds(i)
  BY <1>1, <1>3 DEF TagsIn, UsedLines
<1>5. /\ OldTags = [j \in Sets |-> Olds(cache[j], Lines, since[j])]
      /\ DirtyTags = [j \in Sets |-> Dirties(cache[j], Lines)]
  BY Mapping
<1>6. ~OthersUsed(i, l) => OldTags' = OldTags
  <2>1. SUFFICES ASSUME ~OthersUsed(i, l) PROVE t \in OldTags[i]
    BY <1>2, <1>5
  <2>2. l \in UsedLines(cache[i], Lines) \ since[i]
    BY <1>1, <2>1 DEF UsedLines, Touches
  <2> QED
    BY <1>1, <1>5, <2>2 DEF Olds, TagsIn
<1>7. DirtyTags' = [DirtyTags EXCEPT ![i] = IF op = "S" THEN @ \cup {t} ELSE @]
  <2>1. t \in DirtyTags[i] <=> cache[i][l].dirty
    BY <1>1, <1>5, DirtyTag, EachSet
  <2>2. ((IF cache[i][l].dirty THEN DirtyTags[i] \ {t} ELSE DirtyTags[i])
            \cup (IF new.dirty THEN {t} ELSE {}))
        = (IF op = "S" THEN DirtyTags[i] \cup {t} ELSE DirtyTags[i])
    BY <1>1, <2>1
  <2> QED
    BY <1>2, <2>2
<1>8. hits' = hits + 1 /\ UNCHANGED <<E, misses, dirty_bytes_evicted>>
  <2>1. Cardinality(Matching(cache[i], t)) = 1
    BY <1>1, FS_Singleton
  <2> QED
    BY <2>1 DEF Hit
<1>9. (dirty_bytes_evicted \div B)' = dirty_bytes_evicted \div B
  BY <1>8 DEF B
<1>10. DirtyTags' = [DirtyTags EXCEPT ![i] = Aged!Written(@, t, op = "S")]
  BY <1>7 DEF Aged!Written
<1>11. IF Aged!Cardinality(Aged!Holds(i)) < E
       THEN UNCHANGED <<OldTags, RecentTags>>
       ELSE /\ OldTags' = [OldTags EXCEPT ![i] = @ \ {t}]
            /\ RecentTags' = [RecentTags EXCEPT ![i] = <<t>> \o Aged!RemoveFirst(@, t)]
  BY <1>2, <1>3, <1>6, SameCount DEF ToFront
<1>12. UNCHANGED <<E, misses, dirty_bytes_evicted \div B>>
  BY <1>8, <1>9
<1> QED
  BY <1>4, <1>8, <1>10, <1>11, <1>12 DEF Aged!Hit

LEMMA MissRefines ==
    ASSUME TypeOK, SetsSound, NEW op \in {"L", "S"}, NEW i \in Sets, NEW t \in Nat,
           Miss(op, i, t), UNCHANGED E
    PROVE  \/ Aged!Fill(i, t, op = "S")
           \/ \E victim \in Aged!Holds(i) : Aged!Replace(i, t, victim, op = "S")
<1>1. PICK l \in Lines, new \in line :
         /\ Oldest(cache[i], l)
         /\ \E y \in Counters(cache[i]) :
               \/ ~cache[i][l].valid /\ Fill(op, i, t, l, y)
               \/ cache[i][l].valid /\ Evict(op, i, t, l, y)
         /\ cache[i][l].valid => OthersUsed(i, l)
         /\ new.tag = t
         /\ new.dirty <=> op = "S"
         /\ Touches(i, l, new)
  BY MissIs
<1>2. PICK y \in Counters(cache[i]) :
         \/ ~cache[i][l].valid /\ Fill(op, i, t, l, y)
         \/ cache[i][l].valid /\ Evict(op, i, t, l, y)
  BY <1>1
<1>3. Matching(cache[i], t) = {} /\ misses' = misses + 1 /\ hits' = hits
  BY DEF Miss
<1>4. /\ Aged!Holds(i) = TagsIn(cache[i], UsedLines(cache[i], Lines))
      /\ OthersUsed(i, l) <=> \A k \in Lines \ {l} : cache[i][k].valid
      /\ cache[i][l].valid => (Cardinality(Aged!Holds(i)) = E <=> OthersUsed(i, l))
      /\ ~cache[i][l].valid => Cardinality(Aged!Holds(i)) < E
      /\ ~cache[i][l].valid => (Cardinality(Aged!Holds(i)) + 1 = E <=> OthersUsed(i, l))
  BY Fullness
<1>5. t \notin Aged!Holds(i)
  BY <1>3, <1>4 DEF TagsIn, UsedLines, Matching
<1>6. /\ OldTags = [j \in Sets |-> Olds(cache[j], Lines, since[j])]
      /\ RecentTags = [j \in Sets |-> Recents(cache[j], since[j])]
      /\ DirtyTags = [j \in Sets |-> Dirties(cache[j], Lines)]
  BY Mapping
<1> DEFINE v == cache[i][l].tag
<1>7. /\ OthersUsed(i, l) /\ cache[i][l].valid =>
            /\ OldTags' = [OldTags EXCEPT ![i] = @ \ {v}]
            /\ RecentTags' = [RecentTags EXCEPT ![i] = ToFront(t, @, v)]
      /\ OthersUsed(i, l) /\ ~cache[i][l].valid =>
            /\ OldTags' = OldTags
            /\ RecentTags' = [RecentTags EXCEPT ![i] = <<t>>]
      /\ ~OthersUsed(i, l) /\ (cache[i][l].valid => v = t) =>
            /\ OldTags' = [OldTags EXCEPT ![i] = @ \cup {t}]
            /\ RecentTags' = RecentTags
      /\ DirtyTags' = [DirtyTags EXCEPT ![i] =
            (IF cache[i][l].dirty THEN @ \ {v} ELSE @) \cup (IF new.dirty THEN {t} ELSE {})]
  BY <1>1, Access
<1>8. CASE ~cache[i][l].valid /\ Fill(op, i, t, l, y)
  <2>1. ~cache[i][l].dirty
    BY <1>8 DEF SetsSound, AgedWhenValid
  <2>2. DirtyTags' = [DirtyTags EXCEPT ![i] = IF op = "S" THEN @ \cup {t} ELSE @]
    <3>1. ((IF cache[i][l].dirty THEN DirtyTags[i] \ {v} ELSE DirtyTags[i])
              \cup (IF new.dirty THEN {t} ELSE {}))
          = (IF op = "S" THEN DirtyTags[i] \cup {t} ELSE DirtyTags[i])
      BY <1>1, <2>1
    <3> HIDE DEF v
    <3> QED
      BY <1>7, <3>1
  <2>3. dirty_bytes_evicted' = dirty_bytes_evicted
    BY <1>8 DEF Fill
  <2>4. (dirty_bytes_evicted \div B)' = dirty_bytes_evicted \div B
    BY <2>3 DEF B
  <2>5. IF OthersUsed(i, l)
        THEN OldTags' = OldTags /\ RecentTags' = [RecentTags EXCEPT ![i] = <<t>>]
        ELSE /\ OldTags' = [OldTags EXCEPT ![i] = @ \cup {t}]
             /\ RecentTags' = RecentTags
    BY <1>7, <1>8
  <2>6. Aged!Fill(i, t, op = "S")
    <3>1. DirtyTags' = [DirtyTags EXCEPT ![i] = Aged!Written(@, t, op = "S")]
      BY <2>2 DEF Aged!Written
    <3>2. IF Aged!Cardinality(Aged!Holds(i)) + 1 = E
          THEN RecentTags' = [RecentTags EXCEPT ![i] = <<t>>] /\ UNCHANGED OldTags
          ELSE OldTags' = [OldTags EXCEPT ![i] = @ \cup {t}] /\ UNCHANGED RecentTags
      BY <1>4, <1>8, <2>5, SameCount
    <3>3. UNCHANGED <<E, hits, dirty_bytes_evicted \div B>>
      BY <1>3, <2>4
    <3>4. Aged!Cardinality(Aged!Holds(i)) < E
      BY <1>4, <1>8, SameCount
    <3> QED
      BY <1>3, <1>5, <3>1, <3>2, <3>3, <3>4 DEF Aged!Fill
  <2> QED
    BY <2>6
<1>9. CASE cache[i][l].valid /\ Evict(op, i, t, l, y)
  <2>1. OthersUsed(i, l) /\ Cardinality(Aged!Holds(i)) = E
    BY <1>1, <1>4, <1>9
  <2>2. v \in Aged!Holds(i)
    BY <1>4, <1>9 DEF TagsIn, UsedLines
  <2>3. IF OldTags[i] # {} THEN v \in OldTags[i] ELSE v = Aged!Last(RecentTags[i])
    <3>1. \A k \in Lines : cache[i][k].valid /\ cache[i][l].counter <= cache[i][k].counter
      BY <1>1, <1>4, <1>9, <2>1 DEF Oldest
    <3>2. IF Olds(cache[i], Lines, since[i]) # {} THEN v \in Olds(cache[i], Lines, since[i])
          ELSE v = Aged!Last(Recents(cache[i], since[i]))
      BY <3>1, EachSet, OldestTag
    <3>3. /\ OldTags[i] = Olds(cache[i], Lines, since[i])
          /\ RecentTags[i] = Recents(cache[i], since[i])
      BY <1>6
    <3> HIDE DEF v
    <3> QED
      BY <3>2, <3>3
  <2>4. v \in DirtyTags[i] <=> cache[i][l].dirty
    BY <1>6, <1>9, DirtyTag, EachSet
  <2>5. DirtyTags' = [DirtyTags EXCEPT ![i] =
           IF op = "S" THEN (@ \ {v}) \cup {t} ELSE @ \ {v}]
    <3>1. ((IF cache[i][l].dirty THEN DirtyTags[i] \ {v} ELSE DirtyTags[i])
              \cup (IF new.dirty THEN {t} ELSE {}))
          = (IF op = "S" THEN (DirtyTags[i] \ {v}) \cup {t} ELSE DirtyTags[i] \ {v})
      BY <1>1, <2>4
    <3> HIDE DEF v
    <3> QED
      BY <1>7, <3>1
  <2>6. (dirty_bytes_evicted \div B)' =
           (dirty_bytes_evicted \div B) + IF v \in DirtyTags[i] THEN 1 ELSE 0
    <3>1. B \in Nat \ {0} /\ dirty_bytes_evicted \in Nat /\ B' = B
      BY AddressParts DEF TypeOK, B
    <3>2. dirty_bytes_evicted' = dirty_bytes_evicted + IF cache[i][l].dirty THEN B ELSE 0
      BY <1>9 DEF Evict
    <3>3. CASE cache[i][l].dirty
      BY <2>4, <3>1, <3>2, <3>3, BlockMore
    <3>4. CASE ~cache[i][l].dirty
      <4>1. dirty_bytes_evicted' = dirty_bytes_evicted
        BY <3>1, <3>2, <3>4
      <4>2. dirty_bytes_evicted \div B \in Int
        BY <3>1
      <4> QED
        BY <2>4, <3>1, <3>4, <4>1, <4>2
    <3> QED
      BY <3>3, <3>4
  <2>7. /\ OldTags' = [OldTags EXCEPT ![i] = @ \ {v}]
        /\ RecentTags' = [RecentTags EXCEPT ![i] = ToFront(t, @, v)]
    BY <1>7, <1>9, <2>1
  <2> HIDE DEF v
  <2>8. Aged!Replace(i, t, v, op = "S")
    <3>1. DirtyTags' = [DirtyTags EXCEPT ![i] = Aged!Written(@ \ {v}, t, op = "S")]
      BY <2>5 DEF Aged!Written
    <3>2. RecentTags' = [RecentTags EXCEPT ![i] = <<t>> \o Aged!RemoveFirst(@, v)]
      BY <2>7 DEF ToFront
    <3>3. UNCHANGED <<E, hits>>
      BY <1>3
    <3>4. Aged!Cardinality(Aged!Holds(i)) = E
      BY <2>1, SameCount
    <3> QED
      BY <1>3, <1>5, <3>4, <2>3, <2>6, <2>7, <3>1, <3>2, <3>3 DEF Aged!Replace
  <2> QED
    BY <2>2, <2>8
<1> QED
  BY <1>2, <1>8, <1>9

LEMMA StartRefines == Init => Aged!Init
<1> SUFFICES ASSUME Init PROVE Aged!Init
  OBVIOUS
<1>1. /\ E \in 1 .. MaxE
      /\ cache = [i \in Sets |-> [l \in Lines |-> Unused]]
      /\ hits = 0 /\ misses = 0
      /\ dirty_bytes_evicted = 0
      /\ since = [i \in Sets |-> {}]
  BY DEF Init
<1>2. ~Unused.valid /\ ~Unused.dirty
  BY DEF Unused
<1>3. \A i \in Sets : since[i] = {} /\ \A l \in Lines : cache[i][l] = Unused
  BY <1>1
<1>4. \A i \in Sets : Olds(cache[i], Lines, since[i]) = {} /\ Dirties(cache[i], Lines) = {}
  BY <1>2, <1>3 DEF Olds, Dirties, TagsIn, UsedLines
<1>5. \A i \in Sets : Recents(cache[i], since[i]) = <<>>
  <2>1. Cardinality({}) = 0
    BY FS_EmptySet
  <2> TAKE i \in Sets
  <2>2. Recents(cache[i], since[i]) = [r \in 1 .. 0 |-> cache[i][LineAt(cache[i], {}, r)].tag]
    BY <1>3, <2>1 DEF Recents
  <2> QED
    BY <2>2
<1>6. OldTags = [i \in Sets |-> {}] /\ DirtyTags = [i \in Sets |-> {}]
  BY <1>4, Mapping
<1>7. RecentTags = [i \in Sets |-> <<>>]
  BY <1>5, Mapping
<1>8. dirty_bytes_evicted \div B = 0
  BY <1>1, AddressParts
<1> QED
  BY <1>1, <1>6, <1>7, <1>8 DEF Aged!Init

LEMMA StepRefines == IInv /\ [Next]_vars => [Aged!Next]_(Aged!vars)
<1> SUFFICES ASSUME IInv, [Next]_vars PROVE [Aged!Next]_(Aged!vars)
  OBVIOUS
<1>1. TypeOK /\ SetsSound
  BY DEF IInv
<1>2. ASSUME NEW op \in {"L", "S"}, NEW addr \in Addresses, TestCache(op, addr)
      PROVE  Aged!Next
  <2> DEFINE i == set_index(addr)
             t == Tag(addr)
  <2>1. i \in Sets /\ t \in Nat /\ UNCHANGED E
    BY <1>2, AddressParts DEF TestCache
  <2>2. t \in {Tag(a) : a \in Addresses} /\ (op = "S") \in BOOLEAN
    OBVIOUS
  <2>3. Hit(op, i, t) \/ Miss(op, i, t)
    BY <1>2 DEF TestCache
  <2> HIDE DEF i, t
  <2>4. \/ Aged!Hit(i, t, op = "S") \/ Aged!Fill(i, t, op = "S")
        \/ \E victim \in Aged!Holds(i) : Aged!Replace(i, t, victim, op = "S")
    BY <1>1, <2>1, <2>3, HitRefines, MissRefines
  <2> QED
    BY <2>1, <2>2, <2>4 DEF Aged!Next
<1>3. CASE UNCHANGED vars
  <2>1. UNCHANGED <<E, cache, since, hits, misses, dirty_bytes_evicted>>
    BY <1>3 DEF vars
  <2>2. OldTags' = OldTags /\ RecentTags' = RecentTags /\ DirtyTags' = DirtyTags
    <3>1. Lines' = Lines
      BY <2>1 DEF Lines
    <3> QED
      BY <2>1, <3>1, Mapping, NextMapping
  <2>3. (dirty_bytes_evicted \div B)' = dirty_bytes_evicted \div B
    BY <2>1 DEF B
  <2> QED
    BY <2>1, <2>2, <2>3 DEF Aged!vars
<1> QED
  BY <1>2, <1>3 DEF Next

(* The simulator is a cache that replaces a line that was not used since   *)
(* its set is full, and if there is none the least recently used, and that *)
(* writes back the blocks that are dirty (csim.c:80-164).                  *)
THEOREM Refinement == Spec => ImplementsAgedSets
<1>1. Init => IInv /\ Aged!Init
  BY Initially, StartRefines
<1>2. IInv /\ [Next]_vars => IInv'
  BY Step
<1>3. IInv /\ [Next]_vars => [Aged!Next]_(Aged!vars)
  BY StepRefines
<1> QED
  BY <1>1, <1>2, <1>3, PTL DEF Spec, ImplementsAgedSets, Aged!Spec
=============================================================================
