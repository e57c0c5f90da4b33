----------------------------- MODULE MCKvEngine -----------------------------
\* Instances of KvEngine for TLC: which requests the clients of each worker
\* send, and how many.
EXTENDS KvEngine, FiniteSets, TLC

CONSTANTS w1, w2, p1, p2

R(kind, p, v, cas) == [kind |-> kind, path |-> p, version |-> v, cas |-> cas]

ThreeAndOne == w1 :> 3 @@ w2 :> 1
TwoAndOne == w1 :> 2 @@ w2 :> 1
OneEach == [w \in Workers |-> 1]

\* Troubles that happen once.
Once(S) == [t \in Troubles |-> IF t \in S THEN 1 ELSE 0]
NoTrouble == {Once({})}
StoreTroubles == {Once({"switch", "write"}), Once({"evict"})}
FullTroubles == {Once({"evict"}), Once({"drop"})}
SharedTroubles == {Once({"evict", "crash"})}
Hostile == {Once({"switch", "batch", "crash", "evict"}), Once({"switch", "write", "drop", "evict"}),
            Once({"get", "crash", "evict"}), Once({"batch", "drop"})}
OneSwitch == {Once({"switch"})}

\* Every kind of request; each worker has a path.
OwnedRequests ==
  w1 :> {R("put", p1, 0, None), R("soft_delete", p1, 1, None), R("undelete", p1, 1, None),
         R("destroy", p1, 1, None), R("read_version", p1, 1, None)}
  @@ w2 :> {R("put", p2, 0, None)}

\* Requests on one path.
SharedRequests ==
  [w \in Workers |-> {R("put", p1, 0, None), R("soft_delete", p1, 1, None), R("destroy", p1, 1, None),
                      R("read_version", p1, 0, None)}]

PutsAndDeletes == w1 :> {R("put", p1, 0, None)}
                  @@ w2 :> {R("put", p1, 0, None), R("soft_delete", p1, 1, None)}

\* Requests that write once or twice, and do not destroy.
OwnedPuts == w1 :> {R("put", p1, 0, None), R("put", p1, 0, 1), R("soft_delete", p1, 1, None),
                    R("read_version", p1, 1, None), R("read_metadata", p1, 0, None)}
             @@ w2 :> {R("put", p2, 0, None)}

\* Two conditional updates that expect a new path.
CasRequests == [w \in Workers |-> {R("put", p1, 0, 0)}]

\* One worker writes, the other one reads.
WriterAndReader == w1 :> {R("put", p1, 0, None)} @@ w2 :> {R("read_version", p1, 0, None)}
=============================================================================
