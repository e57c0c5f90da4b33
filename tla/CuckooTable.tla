----------------------------- MODULE CuckooTable -----------------------------
(***************************************************************************)
(* One shard of the engine's cache: the cuckoo hash table of               *)
(* src/src/engine/cuckoo_table.rs, with CLOCK eviction.                    *)
(*                                                                         *)
(* Slots of two tables of buckets point into an array of entries; indices  *)
(* of removed entries are kept on a free list.  A lookup holds the read    *)
(* lock, an insertion or removal the write lock, so that each of them is   *)
(* atomic for the others; an insertion that has to search is followed step *)
(* by step, one turn of its CLOCK or displacement loop at a time, while    *)
(* pc # "idle" says that it holds the lock.                                *)
(*                                                                         *)
(* u32::MAX in a slot, and an entry never written, are None.  The shadow   *)
(* counters of the statistics are left out.                                *)
(***************************************************************************)
EXTENDS Integers, Sequences

CONSTANTS Keys, Values, None,
          Inputs,            \* the keys and values that are inserted
          Size,              \* buckets per table
          Slots,             \* slots per bucket, 8 in the code
          Capacities,        \* numbers of entries that may be asked for
          MaxDisplacements,  \* 256 in the code
          Hash1, Hash2,      \* per key: the two hashes
          TagUnit            \* the tag is the part of a hash above it, 2^32 in the code

ASSUME SizesAssumption == /\ Size \in Nat \ {0} /\ Slots \in Nat \ {0} /\ TagUnit \in Nat \ {0}
                          /\ Capacities \subseteq Nat /\ MaxDisplacements \in Nat
ASSUME HashAssumption == Hash1 \in [Keys -> Nat] /\ Hash2 \in [Keys -> Nat]
ASSUME InputsAssumption == Inputs \subseteq Keys \X Values
ASSUME NoneAssumption == None \notin Nat /\ None \notin Values /\ None \notin Keys

\* CuckooTable::new allows at most nine tenths of the slots to be used.
AbsoluteMax == (Size * 2 * Slots * 90) \div 100

Tag(k) == LET tag == Hash1[k] \div TagUnit IN IF tag = 0 THEN 1 ELSE tag

\* A place is a table, a bucket and a slot.
Places == {1, 2} \X (0..(Size - 1)) \X (0..(Slots - 1))
Home(k) == {q \in Places : q[2] = (IF q[1] = 1 THEN Hash1[k] ELSE Hash2[k]) % Size}

VARIABLES slot,          \* per place: the tag and index it holds
          storage,       \* per index: the entry
          max_capacity, storage_size, free_list, clock_hand,
          pc, key, value,   \* the insertion that holds the lock
          index, tag,       \* current_index and current_tag: what it wants to place
          turns,            \* of the loop it is in
          answer,           \* of the insertion that was the last operation
          before            \* history: what lookups found when it took the lock

table == <<slot, storage, storage_size, free_list, clock_hand>>
locals == <<pc, key, value, index, tag, turns>>
vars == <<table, max_capacity, locals, answer, before>>

EmptySlot == [tag |-> 0, index |-> None]
Entry(k, x) == [key |-> k, payload |-> x, referenced |-> TRUE]

\* The loops look at the first table's bucket from slot 0 on, then at the
\* second one's.
Order(q) == (q[1] - 1) * Slots + q[3]
First(S) == CHOOSE q \in S : \A r \in S : Order(q) <= Order(r)

\* A variant: tags are taken for keys.
MatchesTag(k) == {q \in Home(k) : slot[q].index # None /\ slot[q].tag = Tag(k)}

\* The slots in which a key is recognised, and what a lookup would return.
Matches(k) == {q \in Home(k) : /\ slot[q].index # None
                               /\ slot[q].tag = Tag(k)
                               /\ storage[slot[q].index].key = k}
Found(k) == IF Matches(k) = {} THEN None ELSE storage[slot[First(Matches(k))].index].payload

Nothing == [k \in Keys |-> None]

Init == /\ \E asked \in Capacities : max_capacity = IF asked < AbsoluteMax THEN asked ELSE AbsoluteMax
        /\ slot = [q \in Places |-> EmptySlot]
        /\ storage = [i \in 0..(max_capacity - 1) |-> None]
        /\ storage_size = 0
        /\ free_list = <<>>
        /\ clock_hand = 0
        /\ pc = "idle"
        /\ key = None /\ value = None /\ index = None /\ tag = 0 /\ turns = 0
        /\ answer = None
        /\ before = Nothing

\* The insertion ends and releases the lock.
Return(a) == /\ pc' = "idle"
             /\ key' = None /\ value' = None /\ index' = None /\ tag' = 0 /\ turns' = 0
             /\ answer' = a
             /\ before' = Nothing

-----------------------------------------------------------------------------
\* Operations that need no search

\* lookup_map
Lookup(k) ==
  /\ pc = "idle"
  /\ IF Matches(k) = {} THEN UNCHANGED storage
     ELSE storage' = [storage EXCEPT ![slot[First(Matches(k))].index].referenced = TRUE]
  /\ answer' = None
  /\ UNCHANGED <<slot, storage_size, free_list, clock_hand, max_capacity, locals, before>>

\* remove: the index goes to the free list, the entry stays in the storage.
Remove(k) ==
  /\ pc = "idle"
  /\ IF Matches(k) = {} THEN UNCHANGED <<slot, free_list>>
     ELSE LET q == First(Matches(k)) IN
            /\ slot' = [slot EXCEPT ![q] = EmptySlot]
            /\ free_list' = Append(free_list, slot[q].index)
  /\ answer' = None
  /\ UNCHANGED <<storage, storage_size, clock_hand, max_capacity, locals, before>>

\* insert of a key that is present.
Update(k, x) ==
  /\ pc = "idle"
  /\ Matches(k) # {}
  /\ storage' = [storage EXCEPT ![slot[First(Matches(k))].index] = Entry(k, x)]
  /\ answer' = TRUE
  /\ UNCHANGED <<slot, storage_size, free_list, clock_hand, max_capacity, locals, before>>

-----------------------------------------------------------------------------
\* insert of a new key: an index for the entry

Insert(k, x) ==
  /\ pc = "idle"
  /\ Matches(k) = {}
  /\ pc' = "allocate"
  /\ key' = k /\ value' = x
  /\ answer' = None
  /\ before' = [a \in Keys |-> Found(a)]
  /\ UNCHANGED <<table, max_capacity, index, tag, turns>>

\* The entry is written at i and will be placed.
Allocate(i) ==
  /\ storage' = [storage EXCEPT ![i] = Entry(key, value)]
  /\ index' = i /\ tag' = Tag(key)
  /\ pc' = "place" /\ turns' = 0
  /\ UNCHANGED <<key, value, answer, before, max_capacity>>

\* A variant: the index stays on the free list.
TakeFreeKeep ==
  /\ pc = "allocate"
  /\ free_list # <<>>
  /\ Allocate(free_list[Len(free_list)])
  /\ UNCHANGED <<slot, free_list, storage_size, clock_hand>>

TakeFree ==
  /\ pc = "allocate"
  /\ free_list # <<>>
  /\ free_list' = SubSeq(free_list, 1, Len(free_list) - 1)
  /\ Allocate(free_list[Len(free_list)])
  /\ UNCHANGED <<slot, storage_size, clock_hand>>

Grow ==
  /\ pc = "allocate"
  /\ free_list = <<>> /\ storage_size < max_capacity
  /\ storage_size' = storage_size + 1
  /\ Allocate(storage_size)
  /\ UNCHANGED <<slot, free_list, clock_hand>>

\* The CLOCK loop.
Hand == IF clock_hand >= max_capacity THEN 0 ELSE clock_hand
Clocking == /\ pc = "allocate"
            /\ free_list = <<>> /\ storage_size >= max_capacity

\* A variant: entries keep their second chance.
ClockPassKeep ==
  /\ Clocking /\ turns < 2 * max_capacity
  /\ storage[Hand].referenced
  /\ clock_hand' = Hand + 1
  /\ turns' = turns + 1
  /\ UNCHANGED <<slot, storage, storage_size, free_list, max_capacity, pc, key, value, index, tag, answer, before>>

ClockPass ==
  /\ Clocking /\ turns < 2 * max_capacity
  /\ storage[Hand].referenced
  /\ storage' = [storage EXCEPT ![Hand].referenced = FALSE]
  /\ clock_hand' = Hand + 1
  /\ turns' = turns + 1
  /\ UNCHANGED <<slot, storage_size, free_list, max_capacity, pc, key, value, index, tag, answer, before>>

\* A variant: the victim's slot is left as it is.
EvictKeepSlot ==
  /\ Clocking /\ turns < 2 * max_capacity
  /\ ~ storage[Hand].referenced
  /\ clock_hand' = Hand + 1
  /\ Allocate(Hand)
  /\ UNCHANGED <<slot, storage_size, free_list>>

\* The slot of the victim, if it has one, is cleared before its storage is
\* written.
Evict ==
  LET places == {q \in Home(storage[Hand].key) : slot[q].index = Hand}
  IN /\ Clocking /\ turns < 2 * max_capacity
     /\ ~ storage[Hand].referenced
     /\ clock_hand' = Hand + 1
     /\ slot' = [q \in Places |-> IF places # {} /\ q = First(places) THEN EmptySlot ELSE slot[q]]
     /\ Allocate(Hand)
     /\ UNCHANGED <<storage_size, free_list>>

EvictionFails ==
  /\ Clocking /\ turns = 2 * max_capacity
  /\ Return(FALSE)
  /\ UNCHANGED <<table, max_capacity>>

-----------------------------------------------------------------------------
\* insert of a new key: a place for the entry

\* The key of the entry in hand, and the free slots it may go to.
CurKey == storage[index].key
FreePlaces == {q \in Home(CurKey) : slot[q].index = None}

Place ==
  /\ pc = "place" /\ turns < MaxDisplacements
  /\ FreePlaces # {}
  /\ slot' = [slot EXCEPT ![First(FreePlaces)] = [tag |-> tag, index |-> index]]
  /\ Return(TRUE)
  /\ UNCHANGED <<storage, storage_size, free_list, clock_hand, max_capacity>>

\* A variant: the slot keeps the victim's tag.
DisplaceKeepTag ==
  LET q == <<1, Hash1[CurKey] % Size, (Hash1[CurKey] + index + turns) % Slots>>
  IN /\ pc = "place" /\ turns < MaxDisplacements
     /\ FreePlaces = {}
     /\ slot' = [slot EXCEPT ![q].index = index]
     /\ index' = slot[q].index /\ tag' = slot[q].tag
     /\ turns' = turns + 1
     /\ UNCHANGED <<storage, storage_size, free_list, clock_hand, max_capacity, pc, key, value, answer, before>>

\* The entry takes a slot of its first bucket, whose entry has to move.
\* (A sum that wraps at 2^64 selects the same slot: 8 divides 2^64.)
Displace ==
  LET q == <<1, Hash1[CurKey] % Size, (Hash1[CurKey] + index + turns) % Slots>>
  IN /\ pc = "place" /\ turns < MaxDisplacements
     /\ FreePlaces = {}
     /\ slot' = [slot EXCEPT ![q] = [tag |-> tag, index |-> index]]
     /\ index' = slot[q].index /\ tag' = slot[q].tag
     /\ turns' = turns + 1
     /\ UNCHANGED <<storage, storage_size, free_list, clock_hand, max_capacity, pc, key, value, answer, before>>

\* The entry in hand has no slot any more; its index is not freed.
GiveUp ==
  /\ pc = "place" /\ turns = MaxDisplacements
  /\ Return(FALSE)
  /\ UNCHANGED <<table, max_capacity>>

Next == \/ \E k \in Keys : Lookup(k) \/ Remove(k)
        \/ \E i \in Inputs : Update(i[1], i[2]) \/ Insert(i[1], i[2])
        \/ TakeFree \/ Grow \/ ClockPass \/ Evict \/ EvictionFails
        \/ Place \/ Displace \/ GiveUp

Spec == Init /\ [][Next]_vars

-----------------------------------------------------------------------------
\* Properties

StoredEntry == [key : Keys, payload : Values, referenced : BOOLEAN]

TypeOK ==
  /\ max_capacity \in 0..AbsoluteMax
  /\ slot \in [Places -> [tag : Nat, index : (0..(max_capacity - 1)) \cup {None}]]
  /\ storage_size \in 0..max_capacity
  /\ DOMAIN storage = 0..(max_capacity - 1)
  /\ \A i \in 0..(max_capacity - 1) : IF i < storage_size THEN storage[i] \in StoredEntry ELSE storage[i] = None
  /\ free_list \in Seq(0..(storage_size - 1))
  /\ clock_hand \in 0..max_capacity
  /\ pc \in {"idle", "allocate", "place"}
  /\ pc # "idle" => key \in Keys /\ value \in Values
  /\ pc = "place" => index \in 0..(storage_size - 1)
  /\ tag \in Nat /\ turns \in Nat
  /\ before \in [Keys -> Values \cup {None}]

\* Every occupied slot is one that a lookup of its entry's key recognises, no
\* two slots hold the same entry or the same key, and the entry in the hands
\* of an insertion is in no slot: displacement and reuse of storage under the
\* write lock (lines 307-320 and 360-371) leave no slot that shows another
\* key's entry.
Occupied == {q \in Places : slot[q].index # None}
SlotsConsistent ==
  /\ TypeOK
  /\ \A q \in Occupied : /\ slot[q].index < storage_size
                         /\ q \in Matches(storage[slot[q].index].key)
  /\ \A q, r \in Occupied : q # r => storage[slot[q].index].key # storage[slot[r].index].key
  /\ pc = "place" => \A q \in Occupied : slot[q].index # index

\* The free list (lines 235 and 447) holds no index twice, none that a slot or
\* an insertion uses, and so never outgrows its array; the subtraction on line
\* 485 does not wrap.
FreeListSound ==
  /\ \A i, j \in DOMAIN free_list : i # j => free_list[i] # free_list[j]
  /\ \A i \in DOMAIN free_list : /\ \A q \in Occupied : slot[q].index # free_list[i]
                                 /\ pc = "place" => free_list[i] # index
  /\ Len(free_list) <= storage_size

\* CLOCK always finds a victim, within one full turn of the hand: the message
\* "Eviction failed" (line 323) is for tables without room for any entry.
ClockFindsVictim == Clocking /\ max_capacity > 0 => turns <= max_capacity

\* An insertion that answers true can be looked up, however many entries it
\* displaced (line 343 and the test on line 572).
AcceptedIsFound == [][pc = "place" /\ answer' = TRUE => \A k \in Keys : k = key => Found(k)' = value]_vars

Abstract == INSTANCE LossyCache
              WITH contents <- IF pc = "idle" THEN [k \in Keys |-> Found(k)] ELSE before

\* What a lookup finds is what was last inserted under its key; an insertion
\* makes at most two entries disappear, and nothing else does.
ImplementsCache == Abstract!Spec
=============================================================================
