----------------------------- MODULE LossyCache -----------------------------
(***************************************************************************)
(* What the engine relies on when it uses the cuckoo table as a cache: an  *)
(* entry that is found is the last one inserted under its key, but entries *)
(* may disappear.  KvEngine uses these steps; CuckooTable implements them. *)
(***************************************************************************)
CONSTANTS Keys, Values, None

VARIABLE contents   \* per key: what a lookup finds, or None

Init == contents = [k \in Keys |-> None]

\* A present key is updated in place.  A new key may push out one entry by
\* CLOCK eviction, and another one (or itself) when no bucket has room.
Insert(k, x, evictable) ==
  \/ /\ contents[k] # None
     /\ contents' = [contents EXCEPT ![k] = x]
  \/ /\ contents[k] = None
     /\ \E lost \in {{}} \cup {{a, b} : a, b \in {a \in evictable : contents[a] # None \/ a = k}} :
          contents' = [a \in Keys |-> IF a \in lost THEN None ELSE IF a = k THEN x ELSE contents[a]]

Remove(k) == contents' = [contents EXCEPT ![k] = None]

Lookup == UNCHANGED contents

Next == \/ Lookup
        \/ \E k \in Keys : Remove(k) \/ \E x \in Values : Insert(k, x, Keys)

Spec == Init /\ [][Next]_contents
=============================================================================
