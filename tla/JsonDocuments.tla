--------------------------- MODULE JsonDocuments ---------------------------
(***************************************************************************)
(* JSON documents, and what the handlers compute with them                 *)
(* (server/http_handler.rs).  A document is null, a scalar or an object; an *)
(* object is a function from its keys to documents.                        *)
(***************************************************************************)
EXTENDS Integers, Sequences, SequencesExt

Null == [kind |-> "null"]
Scalar(x) == [kind |-> "scalar", value |-> x]
Object(members) == [kind |-> "object", members |-> members]
IsObject(d) == d.kind = "object"
Keys(d) == IF IsObject(d) THEN DOMAIN d.members ELSE {}

\* Drop the key k, or set it to d.
Without(members, k) == [x \in DOMAIN members \ {k} |-> members[x]]
With(members, k, d) == [x \in DOMAIN members \cup {k} |-> IF x = k THEN d ELSE members[x]]

RECURSIVE json_merge_patch(_, _)
\* Faulty variant: null is stored instead of removing the key.
MergeStoresNull(target, patch) ==
  LET start == IF IsObject(target) THEN target.members ELSE <<>>
      Step(members, key) ==
        With(members, key, json_merge_patch(IF key \in DOMAIN members THEN members[key] ELSE Object(<<>>),
                                            patch.members[key]))
  IN IF ~ IsObject(patch) THEN patch ELSE Object(FoldLeft(Step, start, SetToSeq(Keys(patch))))

json_merge_patch(target, patch) ==
  LET start == IF IsObject(target) THEN target.members ELSE <<>>
      Step(members, key) ==
        LET value == patch.members[key]
            old == IF key \in DOMAIN members THEN members[key] ELSE Object(<<>>)
        IN IF value = Null THEN Without(members, key)
                           ELSE With(members, key, json_merge_patch(old, value))
  IN IF ~ IsObject(patch) THEN patch
     ELSE Object(FoldLeft(Step, start, SetToSeq(Keys(patch))))

RECURSIVE strip_to_subkeys(_, _, _)
strip_to_subkeys(value, current_depth, max_depth) ==
  IF (max_depth > 0 /\ current_depth >= max_depth) \/ ~ IsObject(value) THEN Null
  ELSE Object([k \in Keys(value) |->
                IF IsObject(value.members[k])
                  THEN strip_to_subkeys(value.members[k], current_depth + 1, max_depth)
                  ELSE Null])

-----------------------------------------------------------------------------
(* What they are to compute.                                               *)

\* The documents of at most the given depth.
RECURSIVE Documents(_, _, _)
Documents(keys, scalars, depth) ==
  {Null} \cup {Scalar(x) : x \in scalars}
  \cup IF depth = 0 THEN {}
       ELSE UNION {{Object(f) : f \in [ks -> Documents(keys, scalars, depth - 1)]} : ks \in SUBSET keys}

\* The paths of keys in a document, and the document at the end of one.
RECURSIVE KeyPaths(_)
KeyPaths(d) == {<<>>} \cup UNION {{<<k>> \o p : p \in KeyPaths(d.members[k])} : k \in Keys(d)}

RECURSIVE ValueAt(_, _)
ValueAt(d, p) == IF p = <<>> THEN d ELSE ValueAt(d.members[Head(p)], Tail(p))

HasNull(d) == \E p \in KeyPaths(d) : ValueAt(d, p) = Null

\* The patch that makes b of a, for a b without null.
RECURSIVE Difference(_, _)
Difference(a, b) ==
  IF ~ IsObject(b) THEN b
  ELSE LET shared == Keys(a) \cap Keys(b)
       IN Object([k \in (Keys(a) \cup Keys(b)) \ {k \in shared : a.members[k] = b.members[k]} |->
                   IF k \in shared THEN Difference(a.members[k], b.members[k])
                   ELSE IF k \in Keys(a) THEN Null ELSE b.members[k]])

\* RFC 7396: a patch can turn a document into any document without null, and
\* applying it again changes nothing; keys it does not name stay as they are.
MergePatchLaws(d, docs) ==
  \A b \in docs :
    /\ ~ HasNull(b) => json_merge_patch(d, Difference(d, b)) = b
    /\ LET r == json_merge_patch(d, b)
       IN IsObject(b) => /\ json_merge_patch(r, b) = r
                         /\ \A k \in Keys(d) \ Keys(b) : k \in Keys(r) /\ r.members[k] = d.members[k]

\* The answer of read_subkeys shows the keys down to the requested depth (0: all
\* of them) and no value.
SubkeysShape(d, depths) ==
  \A m \in depths :
    LET r == strip_to_subkeys(d, 0, m)
    IN /\ KeyPaths(r) = {p \in KeyPaths(d) : m = 0 \/ Len(p) <= m}
       /\ \A p \in KeyPaths(r) : ValueAt(r, p).kind # "scalar"
=============================================================================
