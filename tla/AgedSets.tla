------------------------------ MODULE AgedSets ------------------------------
(***************************************************************************)
(* What the cache simulator promises: a write-back cache of Sets sets with *)
(* ways lines each.  A set that is not yet full keeps no order.  From the  *)
(* access on that fills it, recent lists the tags that were used, the last *)
(* used first; old are those not used since.  A miss in a full set         *)
(* replaces an old tag, and when there is none the least recently used.    *)
(* With one or two ways at most one tag is old, and this is exactly LRU.   *)
(***************************************************************************)
EXTENDS Integers, Sequences, SequencesExt, FiniteSets

CONSTANTS Sets, Tags, MaxWays

VARIABLES ways, old, recent, dirty, hits, misses, writebacks

vars == <<ways, old, recent, dirty, hits, misses, writebacks>>

Holds(i) == old[i] \cup Range(recent[i])

Init ==
    /\ ways \in 1 .. MaxWays
    /\ old = [i \in Sets |-> {}]
    /\ recent = [i \in Sets |-> <<>>]
    /\ dirty = [i \in Sets |-> {}]
    /\ hits = 0 /\ misses = 0 /\ writebacks = 0

Written(set, t, write) == IF write THEN set \cup {t} ELSE set

Hit(i, t, write) ==
    /\ t \in Holds(i)
    /\ hits' = hits + 1
    /\ dirty' = [dirty EXCEPT ![i] = Written(@, t, write)]
    /\ IF Cardinality(Holds(i)) < ways
       THEN UNCHANGED <<old, recent>>
       ELSE /\ old' = [old EXCEPT ![i] = @ \ {t}]
            /\ recent' = [recent EXCEPT ![i] = <<t>> \o RemoveFirst(@, t)]
    /\ UNCHANGED <<ways, misses, writebacks>>

Fill(i, t, write) ==
    /\ t \notin Holds(i)
    /\ Cardinality(Holds(i)) < ways
    /\ misses' = misses + 1
    /\ dirty' = [dirty EXCEPT ![i] = Written(@, t, write)]
    /\ IF Cardinality(Holds(i)) + 1 = ways
       THEN recent' = [recent EXCEPT ![i] = <<t>>] /\ UNCHANGED old
       ELSE old' = [old EXCEPT ![i] = @ \cup {t}] /\ UNCHANGED recent
    /\ UNCHANGED <<ways, hits, writebacks>>

Replace(i, t, victim, write) ==
    /\ t \notin Holds(i)
    /\ Cardinality(Holds(i)) = ways
    /\ IF old[i] # {} THEN victim \in old[i] ELSE victim = Last(recent[i])
    /\ misses' = misses + 1
    /\ writebacks' = writebacks + IF victim \in dirty[i] THEN 1 ELSE 0
    /\ dirty' = [dirty EXCEPT ![i] = Written(@ \ {victim}, t, write)]
    /\ old' = [old EXCEPT ![i] = @ \ {victim}]
    /\ recent' = [recent EXCEPT ![i] = <<t>> \o RemoveFirst(@, victim)]
    /\ UNCHANGED <<ways, hits>>

Next ==
    \E i \in Sets, t \in Tags, write \in BOOLEAN :
        \/ Hit(i, t, write)
        \/ Fill(i, t, write)
        \/ \E victim \in Holds(i) : Replace(i, t, victim, write)

Spec == Init /\ [][Next]_vars
=============================================================================
