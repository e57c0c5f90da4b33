------------------------------ MODULE MCHttpApi ------------------------------
\* An instance of HttpApi for TLC: two workers on one secret, and two threads
\* that mount engines.
EXTENDS HttpApi, JsonDocuments

CONSTANTS w1, w2, m1, m2, p1, e1, e2

SubkeysOf(d, depth) == strip_to_subkeys(d, 0, depth)
NotJsonText == [kind |-> "text"]
NoMembers == Object(<<>>)

Doc(k, x) == Object(k :> Scalar(x))
Body(data, whole, cas, versions) == [data |-> data, whole |-> whole, cas |-> cas, versions |-> versions]
NoBody == Body(None, NoMembers, None, <<>>)
Q(kind, path, version, body) ==
  [kind |-> kind, mount |-> "secret", path |-> path, version |-> version, depth |-> 1, body |-> body]

Write(k, x) == Q("write_secret", p1, 0, Body(Doc(k, x), NoMembers, None, <<>>))
Patch(d, cas) == Q("patch_secret", p1, 0, Body(d, NoMembers, cas, <<>>))
Many(kind, versions) == Q(kind, p1, 0, Body(None, NoMembers, None, versions))

\* Version numbers are taken modulo 8: 9 is sent for 1, and 8 in a query counts as 0.
HttpRequests ==
  w1 :> {Write("a", 1), Q("write_secret", p1, 0, Body(None, NotJsonText, None, <<>>)),
         Patch(Doc("b", 2), None), Patch(Object("a" :> Null), 9), Patch(Doc("b", 2), 1),
         Q("patch_secret", p1, 0, Body(None, NotJsonText, None, <<>>)),
         Q("read_secret", p1, 8, NoBody), Q("read_subkeys", p1, 1, NoBody),
         [Q("read_secret", p1, 0, NoBody) EXCEPT !.mount = "other"]}
  @@ w2 :> {Write("b", 1), Many("soft_delete_versions", <<1, 2>>), Many("undelete_versions", <<2>>),
            Many("destroy_versions", <<2, 9>>), Many("destroy_versions", <<1, 3>>),
            Q("delete_latest", p1, 0, NoBody), Q("read_metadata", p1, 0, NoBody), Q("list_keys", p1, 0, NoBody)}
HttpBudgets ==
  {[requests |-> w1 :> 2 @@ w2 :> 2, mounts |-> 0, failures |-> 0],
   [requests |-> w1 :> 2 @@ w2 :> 1, mounts |-> 0, failures |-> 1],
   [requests |-> w1 :> 1 @@ w2 :> 2, mounts |-> 0, failures |-> 1],
   [requests |-> w1 :> 1 @@ w2 :> 0, mounts |-> 2, failures |-> 0]}
OneSecret == [e \in Engines |-> [p \in Paths |->
               IF e = e1 THEN [metadata |-> <<[deleted |-> FALSE, destroyed |-> FALSE]>>,
                               payloads |-> <<Doc("a", 1)>>]
                         ELSE [metadata |-> <<>>, payloads |-> <<>>]]]
HttpMounts == m1 :> <<"other", e2>> @@ m2 :> <<"third", e1>>
Secrets == "secret" :> e1
=============================================================================
