----------------------------- MODULE PathIndex -----------------------------
(***************************************************************************)
(* The index of secret paths: the B-tree of engine/btree_index.rs behind   *)
(* the lock of engine/tls_btree_manager.rs, and the listing of a directory *)
(* that KvEngine::list_keys makes from it.                                 *)
(*                                                                         *)
(* A path is a sequence of characters, its order the order of the texts.   *)
(* To keep states small the tree holds the positions of paths in Pool, an  *)
(* ascending list of paths.                                                *)
(***************************************************************************)
EXTENDS Integers, Sequences, SequencesExt

CONSTANTS Pool,        \* the paths that may be inserted, ascending
          Degrees,     \* the values of min_degree that are tried
          Slash        \* the character "/"

VARIABLES root, min_degree,
          inserted     \* history: what was inserted

Node(leaf, keys, children) == [leaf |-> leaf, keys |-> keys, children |-> children]

IndexInit == /\ root = Node(TRUE, <<>>, <<>>)
             /\ min_degree \in Degrees
             /\ inserted = {}

-----------------------------------------------------------------------------
(* The B-tree.                                                             *)

\* How many keys of the node are less than k, and how many are at most k.
Less(node, k) == Len(SelectSeq(node.keys, LAMBDA x : x < k))
UpTo(node, k) == Len(SelectSeq(node.keys, LAMBDA x : x <= k))

RECURSIVE contains_path(_, _)
contains_path(node, k) ==
  LET i == Less(node, k) + 1
  IN \/ i <= Len(node.keys) /\ node.keys[i] = k
     \/ (i > Len(node.keys) \/ node.keys[i] # k) /\ ~ node.leaf /\ contains_path(node.children[i], k)

RECURSIVE collect_paths(_)
collect_paths(node) ==
  IF node.leaf THEN node.keys
  ELSE FlattenSeq([i \in 1..Len(node.keys) |-> Append(collect_paths(node.children[i]), node.keys[i])])
       \o collect_paths(Last(node.children))

split_child(d, parent, i) ==
  LET child == parent.children[i]
      Part(first, last) == Node(child.leaf, SubSeq(child.keys, first, last - 1),
                                IF child.leaf THEN <<>> ELSE SubSeq(child.children, first, last))
  IN Node(parent.leaf,
          InsertAt(parent.keys, i, child.keys[d]),
          InsertAt(ReplaceAt(parent.children, i, Part(1, d)), i + 1, Part(d + 1, 2 * d)))

\* Faulty variant: nodes are split one key too late.
FullLate(d, node) == Len(node.keys) = 2 * d
Full(d, node) == Len(node.keys) = 2 * d - 1

RECURSIVE insert_into_non_full(_, _, _)
\* Faulty variant: the key is not compared again after a split.
InsertLeft(d, node, k) ==
  LET i == UpTo(node, k) + 1
      wide == IF ~ node.leaf /\ Full(d, node.children[i]) THEN split_child(d, node, i) ELSE node
  IN IF node.leaf THEN Node(TRUE, InsertAt(node.keys, i, k), <<>>)
     ELSE [wide EXCEPT !.children[i] = insert_into_non_full(d, @, k)]

insert_into_non_full(d, node, k) ==
  LET i == UpTo(node, k) + 1
      split == ~ node.leaf /\ Full(d, node.children[i])
      wide == IF split THEN split_child(d, node, i) ELSE node
      c == IF split /\ k > wide.keys[i] THEN i + 1 ELSE i
  IN IF node.leaf THEN Node(TRUE, InsertAt(node.keys, i, k), <<>>)
     ELSE [wide EXCEPT !.children[c] = insert_into_non_full(d, @, k)]

insert_path(d, node, k) ==
  insert_into_non_full(d, IF Full(d, node) THEN split_child(d, Node(FALSE, <<>>, <<node>>), 1) ELSE node, k)

insert_path_if_absent(k) ==
  /\ ~ contains_path(root, k)
  /\ root' = insert_path(min_degree, root, k)
  /\ inserted' = inserted \cup {k}
  /\ UNCHANGED min_degree

IndexNext == \E k \in DOMAIN Pool : insert_path_if_absent(k)

-----------------------------------------------------------------------------
(* Listing a directory.                                                    *)

\* The first of the parts between slashes, with a slash if there are more.
FirstPart(text) ==
  LET slashes == {i \in DOMAIN text : text[i] = Slash}
  IN IF slashes = {} THEN text ELSE SubSeq(text, 1, CHOOSE i \in slashes : \A j \in slashes : i <= j)

\* Faulty variant: the slash stays.
KeepSlash(text) == text
StripSlash(text) == IF text # <<>> /\ Head(text) = Slash THEN Tail(text) ELSE text

list_keys(prefix) ==
  LET paths == {Pool[k] : k \in ToSet(collect_paths(root))}
      below == {p \in paths : IsPrefix(prefix, p) /\ Len(p) > Len(prefix)}
      remainders == {StripSlash(SubSeq(p, Len(prefix) + 1, Len(p))) : p \in below} \ {<<>>}
  IN {FirstPart(r) : r \in IF prefix = <<>> THEN paths ELSE remainders}

-----------------------------------------------------------------------------
(* Properties.                                                             *)

RECURSIVE Height(_)
Height(node) == IF node.leaf THEN 0 ELSE 1 + Height(node.children[1])

RECURSIVE WellFormed(_, _)
WellFormed(node, lowest) ==
  /\ Len(node.keys) \in lowest..(2 * min_degree - 1)
  /\ node.leaf => node.children = <<>>
  /\ ~ node.leaf => /\ Len(node.children) = Len(node.keys) + 1
                    /\ \A i \in DOMAIN node.children : /\ WellFormed(node.children[i], min_degree - 1)
                                                       /\ Height(node.children[i]) = Height(node) - 1

\* The tree stays a B-tree: every node but the root holds min_degree - 1 to
\* 2 min_degree - 1 keys, an inner node one child more than keys, and all leaves
\* are at the same depth (split_child_node_static is only called on full nodes).
IndexShape == /\ root.leaf \/ root.keys # <<>>
              /\ WellFormed(root, 0)

\* The index is the set of the inserted paths: get_all_paths lists each of them
\* once and in ascending order, and validate_path finds these and no other.
IndexIsSet ==
  /\ LET s == collect_paths(root)
     IN ToSet(s) = inserted /\ \A i \in 1..(Len(s) - 1) : s[i] < s[i + 1]
  /\ \A k \in DOMAIN Pool : contains_path(root, k) <=> k \in inserted

\* What is in the directory with the given name, ending in a slash or empty.
Below(name) == {p \in {Pool[k] : k \in inserted} : IsPrefix(name, p) /\ Len(p) > Len(name)}
Entries(name) == {FirstPart(SubSeq(p, Len(name) + 1, Len(p))) : p \in Below(name)}

\* Listing shows what is in a directory, each entry once.  Without a slash at
\* the end of its name, this holds if no path continues the name with another
\* character: a secret "ab" is shown as "b" in the list of "a" (list_keys).
ListsDirectory ==
  \A k \in DOMAIN Pool :
    LET dir == Append(Pool[k], Slash)
    IN /\ list_keys(<<>>) = Entries(<<>>)
       /\ list_keys(dir) = Entries(dir)
       /\ Below(Pool[k]) = Below(dir) => list_keys(Pool[k]) = Entries(dir)
=============================================================================
