--------------------------- MODULE KvEngineFacts ----------------------------
(***************************************************************************)
(* Facts about keys, writes and stores in KvEngine, and types in the part  *)
(* of an operation that reads and decides.                                 *)
(***************************************************************************)
EXTENDS KvEngine, SequenceTheorems, WellFoundedInduction, TLAPS

-----------------------------------------------------------------------------
\* Keys and writes

\* The keys of metadata and of payloads differ, and name their path and version.
LEMMA KeyFacts ==
  /\ \A p \in Paths : MetaKey(p) \in Keys /\ MetaKey(p) \in MetaKeys
  /\ \A p \in Paths, v \in Versions : VersionKey(p, v) \in Keys /\ VersionKey(p, v) \notin MetaKeys
  /\ \A p, q \in Paths : MetaKey(p) = MetaKey(q) => p = q
  /\ \A p, q \in Paths, v, u \in Versions : VersionKey(p, v) = VersionKey(q, u) => p = q /\ v = u
  /\ \A p, q \in Paths, v \in Versions : VersionKey(p, v) # MetaKey(q)
  /\ MetaKeys \subseteq Keys
BY DEF MetaKey, VersionKey, Keys, MetaKeys

\* A write to a metadata key carries metadata, any other one a payload or None.
LEMMA WriteFacts ==
  ASSUME NEW x \in Write
  PROVE  /\ x.key \in Keys
         /\ x.key \in MetaKeys => x.value \in KeyMetadata /\ x.value # None
         /\ x.key \notin MetaKeys => x.value \in Payloads \cup {None}
BY KeyFacts, NoneAssumption, ZenonT(60) DEF Write

\* The writes that operations make are writes.
LEMMA WriteTypes ==
  /\ \A p \in Paths, m \in KeyMetadata : Put(MetaKey(p), m) \in Write
  /\ \A p \in Paths, v \in Versions, x \in Payloads : Put(VersionKey(p, v), x) \in Write
  /\ \A p \in Paths, v \in Versions : Delete(VersionKey(p, v)) \in Write
BY KeyFacts, ZenonT(60) DEF Write, Put, Delete

\* The next version number has the width of a version number.
LEMMA NextVersionType ==
  ASSUME NEW m \in KeyMetadata
  PROVE  NextVersion(m) \in Versions
BY BoundsAssumption DEF NextVersion, KeyMetadata, Versions

\* put_version lists the versions it found and the new one.
LEMMA NewVersionFacts ==
  ASSUME NEW m \in KeyMetadata
  PROVE  /\ WithNewVersion(m) \in KeyMetadata
         /\ \A v : Listed(WithNewVersion(m), v) => Listed(m, v) \/ v = NextVersion(m)
<1> DEFINE s == [version_id |-> NextVersion(m), deleted |-> FALSE, destroyed |-> FALSE]
<1>1. NextVersion(m) \in Versions
  BY NextVersionType, ZenonT(60)
<1>2. s \in VersionState /\ m.versions \in Seq(VersionState)
  BY <1>1, ZenonT(60) DEF VersionState, KeyMetadata
<1> HIDE DEF s
<1>3. /\ Append(m.versions, s) \in Seq(VersionState)
      /\ Len(Append(m.versions, s)) = Len(m.versions) + 1
      /\ \A i \in 1..Len(m.versions) : Append(m.versions, s)[i] = m.versions[i]
      /\ Append(m.versions, s)[Len(m.versions) + 1] = s
  BY <1>2, AppendProperties
<1>4. WithNewVersion(m) = [current_version |-> NextVersion(m), versions |-> Append(m.versions, s)]
  BY ZenonT(60) DEF WithNewVersion, s
<1>5. WithNewVersion(m) \in KeyMetadata
  BY <1>1, <1>3, <1>4 DEF KeyMetadata
<1>6. ASSUME NEW v, Listed(WithNewVersion(m), v)
      PROVE  Listed(m, v) \/ v = NextVersion(m)
  <2>1. PICK i \in DOMAIN Append(m.versions, s) : Append(m.versions, s)[i].version_id = v
    BY <1>4, <1>6 DEF Listed
  <2>2. i \in 1..(Len(m.versions) + 1) /\ DOMAIN m.versions = 1..Len(m.versions) /\ Len(m.versions) \in Nat
    BY <1>2, <1>3, <2>1, LenProperties, ZenonT(60)
  <2>3. CASE i \in 1..Len(m.versions)
    BY <1>3, <2>1, <2>2, <2>3, ZenonT(60) DEF Listed
  <2>4. CASE i = Len(m.versions) + 1
    BY <1>3, <2>1, <2>4 DEF s
  <2> QED BY <2>2, <2>3, <2>4, SMTT(60)
<1> QED BY <1>5, <1>6, ZenonT(60)

\* An edit lists the same versions as before.
LEMMA EditedFacts ==
  ASSUME NEW m \in KeyMetadata, NEW r \in Request
  PROVE  /\ Edited(r, m) \in KeyMetadata
         /\ \A v : Listed(Edited(r, m), v) <=> Listed(m, v)
<1> DEFINE i == Find(m, r.version)
           old == m.versions[i]
           new == CASE r.kind = "soft_delete" -> [old EXCEPT !.deleted = TRUE]
                    [] r.kind = "undelete" -> [old EXCEPT !.deleted = FALSE]
                    [] OTHER -> [old EXCEPT !.destroyed = TRUE]
<1>1. Edited(r, m) = [m EXCEPT !.versions = [m.versions EXCEPT ![i] = new]]
  BY ZenonT(60) DEF Edited, KeyMetadata
<1>2. m.versions \in Seq(VersionState) /\ DOMAIN m.versions = 1..Len(m.versions)
  BY LenProperties, ZenonT(60) DEF KeyMetadata
<1>3. i \in DOMAIN m.versions => new \in VersionState /\ new.version_id = old.version_id
  <2> SUFFICES ASSUME i \in DOMAIN m.versions
               PROVE  new \in VersionState /\ new.version_id = old.version_id
    OBVIOUS
  <2>1. old \in VersionState
    BY <1>2, ElementOfSeq, ZenonT(60)
  <2> HIDE DEF old
  <2> QED BY <2>1, ZenonT(60) DEF VersionState
<1> HIDE DEF i, old, new
<1>4. [m.versions EXCEPT ![i] = new] \in Seq(VersionState)
  <2>1. CASE i \in DOMAIN m.versions
    BY <1>2, <1>3, <2>1, ExceptSeq, ZenonT(60)
  <2>2. CASE i \notin DOMAIN m.versions
    <3>1. [m.versions EXCEPT ![i] = new] = m.versions
      BY <1>2, <2>2, LenProperties, ZenonT(60)
    <3> QED BY <1>2, <3>1, ZenonT(60)
  <2> QED BY <2>1, <2>2, ZenonT(60)
<1>5. /\ DOMAIN [m.versions EXCEPT ![i] = new] = DOMAIN m.versions
      /\ \A j \in DOMAIN m.versions : [m.versions EXCEPT ![i] = new][j].version_id = m.versions[j].version_id
  BY <1>3, ZenonT(60) DEF old
<1>6. Edited(r, m) \in KeyMetadata
  BY <1>1, <1>4, ZenonT(60) DEF KeyMetadata
<1>7. Edited(r, m).versions = [m.versions EXCEPT ![i] = new]
  BY <1>1, ZenonT(60) DEF KeyMetadata
<1> QED BY <1>5, <1>6, <1>7, ZenonT(60) DEF Listed

-----------------------------------------------------------------------------
\* The last write to a key exists

\* A nonempty set of natural numbers has a least element.
LEMMA LeastNumber ==
  ASSUME NEW T, T \subseteq Nat, T # {}
  PROVE  \E x \in T : \A y \in T : x <= y
<1> DEFINE R == {ss \in Nat \X Nat : ss[1] < ss[2]}
<1>1. IsWellFoundedOn(R, Nat)
  BY NatLessThanWellFounded, ZenonT(60) DEF OpToRel
<1>2. PICK x \in T : \A y \in T : ~ (<<y, x>> \in R)
  <2> HIDE DEF R
  <2> QED BY <1>1, WFMin, ZenonT(60)
<1>3. \A y \in T : y \in Nat /\ x \in Nat /\ ~ (y < x)
  BY <1>2, ZenonT(60)
<1> QED BY <1>3

\* A nonempty bounded set of natural numbers has a greatest element.
LEMMA GreatestBelow ==
  ASSUME NEW n \in Nat, NEW T, T \subseteq 1..n, T # {}
  PROVE  \E x \in T : \A y \in T : y <= x
<1> DEFINE U == {n - i : i \in T}
<1>1. U \subseteq Nat
  OBVIOUS
<1>2. U # {}
  BY ZenonT(60)
<1>3. PICK u \in U : \A y \in U : u <= y
  <2> HIDE DEF U
  <2> QED BY <1>1, <1>2, LeastNumber, ZenonT(60)
<1>4. PICK x \in T : u = n - x
  OBVIOUS
<1>5. \A y \in T : n - x <= n - y
  BY <1>3, <1>4, ZenonT(60)
<1> QED BY <1>5

\* If a sequence of writes touches a key, there is a last write that does.
LEMMA LastTouchFacts ==
  ASSUME NEW ws \in Seq(Write), NEW k, Touches(ws, k) # {}
  PROVE  /\ LastTouch(ws, k) \in 1..Len(ws)
         /\ ws[LastTouch(ws, k)].key = k
         /\ \A j \in Touches(ws, k) : j <= LastTouch(ws, k)
<1>1. Len(ws) \in Nat /\ Touches(ws, k) \subseteq 1..Len(ws)
  BY LenProperties, ZenonT(60) DEF Touches
<1>2. \E x \in Touches(ws, k) : \A y \in Touches(ws, k) : y <= x
  BY <1>1, GreatestBelow, ZenonT(60)
<1>3. /\ LastTouch(ws, k) \in Touches(ws, k)
      /\ \A j \in Touches(ws, k) : j <= LastTouch(ws, k)
  BY <1>2, ZenonT(60) DEF LastTouch
<1> QED BY <1>3, ZenonT(60) DEF Touches

\* Applying writes changes the touched keys to the value of their last write.
LEMMA ApplyFacts ==
  ASSUME NEW f, IsStore(f), NEW ws \in Seq(Write)
  PROVE  /\ IsStore(Apply(f, ws))
         /\ \A k \in Keys : Touches(ws, k) = {} => Apply(f, ws)[k] = f[k]
         /\ \A k \in Keys : Touches(ws, k) # {} =>
              \E i \in 1..Len(ws) : ws[i].key = k /\ Apply(f, ws)[k] = ws[i].value
<1>1. \A k \in Keys : Touches(ws, k) = {} => Apply(f, ws)[k] = f[k]
  BY ZenonT(60) DEF Apply
<1>2. ASSUME NEW k \in Keys, Touches(ws, k) # {}
      PROVE  \E i \in 1..Len(ws) : ws[i].key = k /\ Apply(f, ws)[k] = ws[i].value
  <2>1. Apply(f, ws)[k] = ws[LastTouch(ws, k)].value
    BY <1>2, ZenonT(60) DEF Apply
  <2> QED BY <1>2, <2>1, LastTouchFacts, ZenonT(60)
<1>3. ASSUME NEW k \in Keys
      PROVE  \/ Apply(f, ws)[k] = None
             \/ Apply(f, ws)[k] \in (IF k \in MetaKeys THEN KeyMetadata ELSE Payloads)
  <2>1. CASE Touches(ws, k) = {}
    BY <1>1, <2>1, ZenonT(60) DEF IsStore
  <2>2. CASE Touches(ws, k) # {}
    <3>1. PICK i \in 1..Len(ws) : ws[i].key = k /\ Apply(f, ws)[k] = ws[i].value
      BY <1>2, <2>2, ZenonT(60)
    <3>2. ws[i] \in Write
      BY ElementOfSeq, ZenonT(60)
    <3> QED BY <3>1, <3>2, WriteFacts, ZenonT(60)
  <2> QED BY <2>1, <2>2, ZenonT(60)
<1>4. Apply(f, ws) = [k \in Keys |-> Apply(f, ws)[k]]
  BY ZenonT(60) DEF Apply
<1> QED BY <1>1, <1>2, <1>3, <1>4, ZenonT(60) DEF IsStore

-----------------------------------------------------------------------------
\* Type correctness

\* An insertion, with or without evictions, leaves a store.
LEMMA CacheInsertType ==
  ASSUME IsStore(cache), NEW k \in Keys, NEW x,
         x \in (IF k \in MetaKeys THEN KeyMetadata ELSE Payloads),
         CacheInsert(k, x)
  PROVE  IsStore(cache)' /\ (UNCHANGED left \/ Trouble("evict"))
<1>1. PICK e : Cache!Insert(k, x, e)
  BY ZenonT(60) DEF CacheInsert
<1>2. IsStore(cache)'
  BY <1>1 DEF IsStore, Cache!Insert
<1> QED BY <1>2, ZenonT(60) DEF CacheInsert

\* A removal leaves a store.
LEMMA CacheRemoveType ==
  ASSUME IsStore(cache), NEW k \in Keys, CacheRemove(k)
  PROVE  IsStore(cache)' /\ UNCHANGED left
BY ZenonT(60) DEF IsStore, CacheRemove, Cache!Remove

\* The empty cache is a store.
LEMMA EmptyIsStore == IsStore(Empty)
BY ZenonT(60) DEF IsStore, Empty

\* The end of an operation keeps the types and the control state.
LEMMA ReplyType ==
  ASSUME TypeOK, ControlOK, NEW w \in Workers, NEW r, Reply(w, r),
         UNCHANGED <<phase, req, ops>>
  PROVE  /\ pc' \in [Workers -> {"idle", "index"} \cup Reading \cup Writing]
         /\ key' \in [Workers -> Keys \cup {None}]
         /\ got' = [u \in Workers |-> got'[u]]
         /\ \A u \in Workers :
              \/ got'[u] = None
              \/ key'[u] \in MetaKeys /\ got'[u] \in KeyMetadata
              \/ key'[u] \in Keys \ MetaKeys /\ got'[u] \in Payloads
         /\ todo' \in [Workers -> Seq(Write)]
         /\ ControlOK'
<1>1. <<>> \in Seq(Write)
  BY EmptySeq, ZenonT(60)
<1>2. /\ pc' = [pc EXCEPT ![w] = "idle"]
      /\ key' = [key EXCEPT ![w] = None]
      /\ got' = [got EXCEPT ![w] = None]
      /\ todo' = [todo EXCEPT ![w] = <<>>]
  BY ZenonT(60) DEF Reply, Goto
<1>3. ControlOK'
  BY <1>2, ZenonT(60) DEF ControlOK, TypeOK, Reading, Writing
<1> QED BY <1>1, <1>2, <1>3, ZenonT(60) DEF TypeOK

\* What may still happen only gets less.
LEMMA LeftType ==
  ASSUME TypeOK, UNCHANGED left \/ \E t \in Troubles : Trouble(t)
  PROVE  /\ left' \in [Troubles -> Nat]
         /\ \A t \in Troubles : left[t] = 0 => left'[t] = 0
<1>1. left \in [Troubles -> Nat]
  BY ZenonT(60) DEF TypeOK
<1>2. CASE \E t \in Troubles : Trouble(t)
  <2>1. PICK t \in Troubles : left[t] > 0 /\ left' = [left EXCEPT ![t] = left[t] - 1]
    BY <1>2, ZenonT(60) DEF Trouble
  <2>2. left[t] \in Nat /\ left[t] - 1 \in Nat
    BY <1>1, <2>1
  <2> QED BY <1>1, <2>1, <2>2
<1> QED BY <1>1, <1>2, ZenonT(60)

\* The troubles that the steps below name.
LEMMA TroubleFacts == {"get", "write", "batch", "drop", "crash", "switch", "evict"} \subseteq Troubles
BY ZenonT(60) DEF Troubles

\* A new engine is well typed.
LEMMA TypeInit == Init => TypeOK /\ ControlOK
<1> SUFFICES ASSUME Init PROVE TypeOK /\ ControlOK
  OBVIOUS
<1>1. IsStore(cache) /\ IsStore(disk)
  BY EmptyIsStore, ZenonT(60) DEF Init
<1>2. <<>> \in Seq(Write)
  BY EmptySeq, ZenonT(60)
<1> QED BY <1>1, <1>2, BoundsAssumption DEF Init, TypeOK, ControlOK, Reading, Writing

\* The start of an operation keeps the types and the control state.
LEMMA BeginType ==
  ASSUME TypeOK, ControlOK, NEW w \in Workers, Begin(w)
  PROVE  TypeOK' /\ ControlOK'
<1>1. PICK r \in Requests[w] : /\ req' = [req EXCEPT ![w] = r]
                               /\ key' = [key EXCEPT ![w] = MetaKey(r.path)]
  BY ZenonT(60) DEF Begin
<1>2. r \in Request /\ r.path \in Paths
  BY <1>1, RequestsAssumption DEF Request
<1>3. MetaKey(r.path) \in Keys /\ MetaKey(r.path) \in MetaKeys
  BY <1>2, KeyFacts, ZenonT(60)
<1>4. got[w] = None /\ got' = got /\ pc[w] = "idle" /\ pc' = [pc EXCEPT ![w] = "lookup"]
  BY ZenonT(60) DEF Begin, ControlOK, Goto
<1>5. ops' = [ops EXCEPT ![w] = ops[w] + 1] /\ ops[w] < MaxOps[w] /\ MaxOps[w] \in Nat /\ ops[w] \in Nat
  BY BoundsAssumption, ZenonT(60) DEF Begin, TypeOK
<1>6. TypeOK'
  <2>1. \A u \in Workers :
              \/ got'[u] = None
              \/ key'[u] \in MetaKeys /\ got'[u] \in KeyMetadata
              \/ key'[u] \in Keys \ MetaKeys /\ got'[u] \in Payloads
    BY <1>1, <1>4, ZenonT(60) DEF TypeOK
  <2>2. req' \in [Workers -> Request \cup {None}] /\ key' \in [Workers -> Keys \cup {None}]
    BY <1>1, <1>2, <1>3, ZenonT(60) DEF TypeOK
  <2>3. ops' \in [Workers -> Nat] /\ \A u \in Workers : ops'[u] <= MaxOps[u]
    BY <1>5 DEF TypeOK
  <2>4. pc' \in [Workers -> {"idle", "index"} \cup Reading \cup Writing]
    BY <1>4, ZenonT(60) DEF TypeOK, Reading
  <2> QED BY <1>4, <2>1, <2>2, <2>3, <2>4 DEF Begin, TypeOK, shared, IsStore
<1>7. ControlOK'
  BY <1>1, <1>2, <1>4, <1>5, SMTT(60) DEF Begin, ControlOK, TypeOK, Reading, Writing, shared
<1> QED BY <1>6, <1>7, ZenonT(60)

\* The four steps of read_raw_optimistic.
LEMMA ReadType ==
  ASSUME TypeOK, ControlOK, NEW w \in Workers, Lookup(w) \/ Get(w) \/ GetFails(w) \/ Fill(w)
  PROVE  TypeOK' /\ ControlOK'
<1>1. pc[w] \in Reading /\ req[w] \in Request /\ req[w].path \in Paths /\ pc[w] # "idle"
  BY ZenonT(60) DEF Lookup, Get, GetFails, Fill, Reading, ControlOK, Request
<1>2. key[w] \in Keys
  BY <1>1, KeyFacts DEF ControlOK
<1>3. ASSUME Lookup(w) \/ Get(w) PROVE TypeOK' /\ ControlOK'
  <2>1. PICK x : /\ got' = [got EXCEPT ![w] = x]
                 /\ x = None \/ x \in (IF key[w] \in MetaKeys THEN KeyMetadata ELSE Payloads)
                 /\ \/ pc' = [pc EXCEPT ![w] = "decide"]
                    \/ pc' = [pc EXCEPT ![w] = "get"]
                    \/ pc' = [pc EXCEPT ![w] = "fill"] /\ x # None
    BY <1>2, <1>3, ZenonT(60) DEF Lookup, Get, Goto, TypeOK, IsStore
  <2>2. UNCHANGED <<shared, req, key, todo, result, ops, left, wiped>>
    BY <1>3, ZenonT(60) DEF Lookup, Get
  <2>3. TypeOK'
    <3>1. \A u \in Workers :
              \/ got'[u] = None
              \/ key'[u] \in MetaKeys /\ got'[u] \in KeyMetadata
              \/ key'[u] \in Keys \ MetaKeys /\ got'[u] \in Payloads
      BY <1>2, <2>1, <2>2, ZenonT(60) DEF TypeOK
    <3>2. pc' \in [Workers -> {"idle", "index"} \cup Reading \cup Writing]
      BY <2>1, ZenonT(60) DEF TypeOK, Reading
    <3> QED BY <2>1, <2>2, <3>1, <3>2, ZenonT(60) DEF TypeOK, shared, IsStore
  <2>4. ControlOK'
    BY <1>1, <2>1, <2>2 DEF ControlOK, TypeOK, Reading, Writing, shared
  <2> QED BY <2>3, <2>4, ZenonT(60)
<1>4. ASSUME GetFails(w) PROVE TypeOK' /\ ControlOK'
  <2>1. left' \in [Troubles -> Nat]
    BY <1>4, LeftType, TroubleFacts, ZenonT(60) DEF GetFails
  <2>2. Reply(w, Err("StorageError")) /\ UNCHANGED <<shared, req, ops, wiped>>
    BY <1>4, ZenonT(60) DEF GetFails
  <2> QED BY <2>1, <2>2, ReplyType, ZenonT(60) DEF TypeOK, shared, IsStore
<1>5. ASSUME Fill(w) PROVE TypeOK' /\ ControlOK'
  <2>1. got[w] \in (IF key[w] \in MetaKeys THEN KeyMetadata ELSE Payloads)
    BY <1>2, <1>5, ZenonT(60) DEF Fill, ControlOK, TypeOK
  <2>2. IsStore(cache)' /\ left' \in [Troubles -> Nat]
    <3>1. IsStore(cache)' /\ (UNCHANGED left \/ Trouble("evict"))
      BY <1>2, <1>5, <2>1, CacheInsertType, ZenonT(60) DEF Fill, TypeOK
    <3> QED BY <3>1, LeftType, TroubleFacts, ZenonT(60)
  <2>3. pc' = [pc EXCEPT ![w] = "decide"]
    BY <1>5, ZenonT(60) DEF Fill, Goto
  <2>4. pc' \in [Workers -> {"idle", "index"} \cup Reading \cup Writing]
    BY <2>3, ZenonT(60) DEF TypeOK, Reading
  <2>5. TypeOK'
    BY <1>5, <2>2, <2>4, ZenonT(60) DEF Fill, TypeOK, IsStore
  <2>6. ControlOK'
    BY <1>1, <1>5, <2>3, ZenonT(60) DEF Fill, ControlOK, TypeOK, Reading, Writing
  <2> QED BY <2>5, <2>6
<1> QED BY <1>3, <1>4, <1>5, ZenonT(60)

\* What Decide may do, other than reply: go on to the payload (read_version),
\* or start writing.
\* The metadata among the writes ws lists what the metadata x of the path q
\* listed, and otherwise only versions whose payload ws writes earlier.
Supported(ws, x, q) ==
  \A i \in 1..Len(ws), p \in Paths, v \in Versions :
    ws[i].key = MetaKey(p) /\ Listed(ws[i].value, v) =>
      \/ p = q /\ x # None /\ Listed(x, v)
      \/ \E j \in 1..(i - 1) : Carries(ws[j], p, v)

\* What a decision can do: answer, read the payload, or prepare typed writes.
LEMMA DecideCases ==
  ASSUME TypeOK, ControlOK, NEW w \in Workers, Decide(w)
  PROVE  \/ \E r : Reply(w, r)
         \/ /\ req[w].kind = "read_version"
            /\ \E v \in Versions : key' = [key EXCEPT ![w] = VersionKey(req[w].path, v)]
            /\ got' = [got EXCEPT ![w] = None]
            /\ pc' = [pc EXCEPT ![w] = "lookup"]
            /\ UNCHANGED <<todo, result>>
         \/ /\ key[w] = MetaKey(req[w].path)
            /\ \E ws \in Seq(Write) : /\ ws # <<>> /\ Supported(ws, got[w], req[w].path)
                                     /\ todo' = [todo EXCEPT ![w] = ws]
            /\ pc' = [pc EXCEPT ![w] = "mode"]
            /\ UNCHANGED <<key, got, result>>
<1> DEFINE r == req[w]
<1>1. pc[w] = "decide" /\ r \in Request /\ r.path \in Paths /\ r.version \in Versions /\ ops[w] >= 1
  BY ZenonT(60) DEF Decide, ControlOK, Request
<1>2. r.kind # "read_version" => key[w] = MetaKey(r.path) /\ (got[w] = None \/ got[w] \in KeyMetadata)
  BY <1>1, KeyFacts, SMTT(60) DEF ControlOK, TypeOK, Reading
<1>3. CASE DecidePut(w)
  <2> DEFINE m == IF got[w] = None THEN [current_version |-> 0, versions |-> <<>>] ELSE got[w]
             ws == <<Put(VersionKey(r.path, NextVersion(m)), <<w, ops[w]>>),
                     Put(MetaKey(r.path), WithNewVersion(m))>>
  <2>1. m \in KeyMetadata
    <3>1. 0 \in Versions /\ <<>> \in Seq(VersionState)
      BY EmptySeq, BoundsAssumption, SMTT(60) DEF Versions
    <3> QED BY <1>2, <1>3, <3>1, ZenonT(60) DEF DecidePut, KeyMetadata
  <2>2. <<w, ops[w]>> \in Payloads
    BY <1>1, BoundsAssumption, SMTT(60) DEF Payloads, TypeOK
  <2>3. /\ Put(VersionKey(r.path, NextVersion(m)), <<w, ops[w]>>) \in Write
        /\ Put(MetaKey(r.path), WithNewVersion(m)) \in Write
    BY <1>1, <2>1, <2>2, WriteTypes, NextVersionType, NewVersionFacts, ZenonT(60)
  <2>4. \/ Reply(w, Err("CasMismatch"))
        \/ /\ todo' = [todo EXCEPT ![w] = ws]
           /\ Goto(w, "mode")
           /\ UNCHANGED <<key, got, result>>
    BY <1>3, ZenonT(60) DEF DecidePut
  <2>5. ws \in Seq(Write) /\ ws # <<>>
    BY <2>3, SMTT(60)
  <2>6. Supported(ws, got[w], r.path)
    <3> SUFFICES ASSUME NEW i \in 1..Len(ws), NEW p \in Paths, NEW v \in Versions,
                        ws[i].key = MetaKey(p), Listed(ws[i].value, v)
                 PROVE  \/ p = r.path /\ got[w] # None /\ Listed(got[w], v)
                        \/ \E j \in 1..(i - 1) : Carries(ws[j], p, v)
      BY ZenonT(60) DEF Supported
    <3>1. NextVersion(m) \in Versions /\ <<w, ops[w]>> # None
      BY <2>1, <2>2, NextVersionType, NoneAssumption, ZenonT(60)
    <3>2. /\ Len(ws) = 2
          /\ ws[1].key = VersionKey(r.path, NextVersion(m)) /\ ws[1].value = <<w, ops[w]>>
          /\ ws[2].key = MetaKey(r.path) /\ ws[2].value = WithNewVersion(m)
      BY ZenonT(60) DEF Put
    <3> HIDE DEF ws
    <3>3. i = 2 /\ p = r.path
      BY <1>1, <3>1, <3>2, KeyFacts, SMTT(60)
    <3>4. Listed(m, v) \/ v = NextVersion(m)
      BY <2>1, <3>2, <3>3, NewVersionFacts, ZenonT(60)
    <3>5. CASE v = NextVersion(m)
      <4>1. Carries(ws[1], p, v)
        BY <3>1, <3>2, <3>3, <3>5, ZenonT(60) DEF Carries
      <4> QED BY <3>3, <4>1, SMTT(60)
    <3>6. CASE Listed(m, v)
      BY <3>3, <3>6, SMTT(60) DEF Listed
    <3> QED BY <3>4, <3>5, <3>6, ZenonT(60)
  <2> HIDE DEF ws
  <2> QED BY <1>2, <1>3, <2>4, <2>5, <2>6, ZenonT(60) DEF DecidePut, Goto
<1>4. CASE DecideEdit(w)
  <2> DEFINE m == got[w]
             meta == Put(MetaKey(r.path), Edited(r, m))
             ws == IF r.kind = "destroy" THEN <<Delete(VersionKey(r.path, r.version)), meta>> ELSE <<meta>>
  <2>1. \/ \E x : Reply(w, x)
        \/ /\ m # None
           /\ todo' = [todo EXCEPT ![w] = ws]
           /\ Goto(w, "mode")
           /\ UNCHANGED <<key, got, result>>
    BY <1>4, ZenonT(60) DEF DecideEdit
  <2>2. r.kind # "read_version"
    BY <1>4, ZenonT(60) DEF DecideEdit
  <2>3. ASSUME m # None PROVE ws \in Seq(Write) /\ ws # <<>>
    <3>1. meta \in Write /\ Delete(VersionKey(r.path, r.version)) \in Write
      BY <1>1, <1>2, <2>2, <2>3, WriteTypes, EditedFacts, ZenonT(60)
    <3> HIDE DEF meta
    <3> QED BY <3>1, SMTT(60)
  <2>4. ASSUME m # None PROVE Supported(ws, m, r.path)
    <3> SUFFICES ASSUME NEW i \in 1..Len(ws), NEW p \in Paths, NEW v \in Versions,
                        ws[i].key = MetaKey(p), Listed(ws[i].value, v)
                 PROVE  p = r.path /\ Listed(m, v)
      BY <2>4, ZenonT(60) DEF Supported
    <3>1. ws[i] = meta \/ ws[i] = Delete(VersionKey(r.path, r.version))
      BY SMTT(60)
    <3> HIDE DEF ws
    <3>2. meta.key = MetaKey(r.path) /\ meta.value = Edited(r, m)
      BY ZenonT(60) DEF Put
    <3>3. ws[i] # Delete(VersionKey(r.path, r.version))
      BY <1>1, KeyFacts, SMTT(60) DEF Delete
    <3>4. ws[i].key = MetaKey(r.path) /\ ws[i].value = Edited(r, m)
      BY <3>1, <3>2, <3>3, ZenonT(60)
    <3>5. p = r.path
      BY <1>1, <3>4, KeyFacts, ZenonT(60)
    <3>6. m \in KeyMetadata
      BY <1>2, <2>2, <2>4, ZenonT(60)
    <3> QED BY <1>1, <3>4, <3>5, <3>6, EditedFacts, ZenonT(60)
  <2> HIDE DEF ws
  <2> QED BY <1>2, <2>1, <2>2, <2>3, <2>4, ZenonT(60) DEF Goto
<1>5. CASE DecideReadMetadata(w) \/ DecidePayload(w)
  BY <1>5, ZenonT(60) DEF DecideReadMetadata, DecidePayload
<1>6. CASE DecideReadVersion(w)
  <2>1. r.kind = "read_version" /\ key[w] = MetaKey(r.path)
    BY <1>6, ZenonT(60) DEF DecideReadVersion
  <2>2. got[w] # None => got[w] \in KeyMetadata
    BY <1>1, <2>1, KeyFacts, ZenonT(60) DEF TypeOK
  <2>3. got[w] # None => Target(r, got[w]) \in Versions
    BY <1>1, <2>2, ZenonT(60) DEF Target, KeyMetadata
  <2> QED BY <1>6, <2>1, <2>3, ZenonT(60) DEF DecideReadVersion, Goto
<1> QED BY <1>3, <1>4, <1>5, <1>6, ZenonT(60) DEF Decide

\* A decision keeps the types and the control state.
LEMMA DecideType ==
  ASSUME TypeOK, ControlOK, NEW w \in Workers, Decide(w)
  PROVE  TypeOK' /\ ControlOK'
<1>1. UNCHANGED <<shared, req, ops, left, wiped>> /\ pc[w] = "decide"
  BY ZenonT(60) DEF Decide
<1>2. req[w] \in Request /\ req[w].path \in Paths
  BY <1>1, ZenonT(60) DEF ControlOK, Request
<1>3. CASE \E r : Reply(w, r)
  BY <1>1, <1>3, ReplyType, ZenonT(60) DEF TypeOK, shared, IsStore
<1>4. ASSUME NEW v \in Versions,
             req[w].kind = "read_version",
             key' = [key EXCEPT ![w] = VersionKey(req[w].path, v)],
             got' = [got EXCEPT ![w] = None],
             pc' = [pc EXCEPT ![w] = "lookup"],
             UNCHANGED <<todo, result>>
      PROVE  TypeOK' /\ ControlOK'
  <2>1. VersionKey(req[w].path, v) \in Keys
    BY <1>2, KeyFacts, ZenonT(60)
  <2>2. pc' \in [Workers -> {"idle", "index"} \cup Reading \cup Writing]
    BY <1>4, ZenonT(60) DEF TypeOK, Reading
  <2>3. TypeOK'
    BY <1>1, <1>4, <2>1, <2>2, ZenonT(60) DEF TypeOK, shared, IsStore
  <2>4. ControlOK'
    BY <1>1, <1>2, <1>4 DEF ControlOK, TypeOK, Reading, Writing, shared
  <2> QED BY <2>3, <2>4, ZenonT(60)
<1>5. ASSUME NEW ws \in Seq(Write), ws # <<>>,
             todo' = [todo EXCEPT ![w] = ws],
             pc' = [pc EXCEPT ![w] = "mode"],
             UNCHANGED <<key, got, result>>
      PROVE  TypeOK' /\ ControlOK'
  <2>1. pc' \in [Workers -> {"idle", "index"} \cup Reading \cup Writing]
    BY <1>5, ZenonT(60) DEF TypeOK, Writing
  <2>2. TypeOK'
    BY <1>1, <1>5, <2>1, ZenonT(60) DEF TypeOK, shared, IsStore
  <2>3. ControlOK'
    BY <1>1, <1>2, <1>5, ZenonT(60) DEF ControlOK, TypeOK, Reading, Writing, shared
  <2> QED BY <2>2, <2>3, ZenonT(60)
<1> QED BY <1>3, <1>4, <1>5, DecideCases, ZenonT(60)
=============================================================================
