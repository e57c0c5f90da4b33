---------------------------- MODULE MCAlgorithms ----------------------------
\* The pure algorithms for TLC: insertions into the path index in every order,
\* the days of 400 years, and documents with the patches between them.
EXTENDS PathIndex, TimeFormat, JsonDocuments

VARIABLE doc        \* the document that is patched or stripped

vars == <<root, min_degree, inserted, days, date, doc>>

NoIndex == root = Node(TRUE, <<>>, <<>>) /\ min_degree = 2 /\ inserted = {}
Epoch == days = 0 /\ date = [year |-> 1970, month |-> 1, day |-> 1]

\* Twelve paths in ascending order; "/" comes before the letters.
Paths12 == << <<"a">>, <<"a", "/", "a">>, <<"a", "/", "a", "/", "b">>, <<"a", "/", "b">>,
              <<"a", "b">>, <<"a", "b", "/", "a">>, <<"a", "b", "a">>,
              <<"b">>, <<"b", "/", "a">>, <<"b", "/", "a", "/", "b">>, <<"b", "/", "b">>, <<"c", "/", "b">> >>
Years400 == 1970..2370
AllDocuments == Documents({"a", "b"}, {1}, 2)

Init == \/ IndexInit /\ Epoch /\ doc = Null
        \/ NoIndex /\ CalendarInit /\ doc = Null
        \/ NoIndex /\ Epoch /\ doc \in AllDocuments

Next == \/ doc = Null /\ days = 0 /\ IndexNext /\ UNCHANGED <<days, date, doc>>
        \/ doc = Null /\ inserted = {} /\ NextDay /\ UNCHANGED <<root, min_degree, inserted, doc>>

Spec == Init /\ [][Next]_vars

\* Merge patches follow RFC 7396, and subkeys show the keys down to the requested
\* depth and no value (json_merge_patch, strip_to_subkeys).
DocumentLaws == /\ doc # Null => MergePatchLaws(doc, AllDocuments)
                /\ SubkeysShape(doc, 0..3)
=============================================================================
