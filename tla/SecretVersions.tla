--------------------------- MODULE SecretVersions ---------------------------
(***************************************************************************)
(* What the engine's operations answer and do, given the versions of one   *)
(* secret, oldest first: version i is the i-th element.                    *)
(***************************************************************************)
EXTENDS Integers, Sequences

CONSTANT None

Refusals == {"NotFound", "InvalidVersion", "CasMismatch", "Destroyed", "SoftDeleted", "MissingPayload"}
Writes == {"put", "soft_delete", "undelete", "destroy"}

\* The version that a request is about: readers take 0 for the latest one.
Target(s, r) == IF r.kind = "read_version" /\ r.version = 0 THEN Len(s) ELSE r.version

\* What the metadata of a secret with the versions s says to a request.
Checked(s, r) ==
  LET v == Target(s, r)
  IN CASE r.kind = "put" -> IF r.cas \in {None, Len(s)} THEN "Ok" ELSE "CasMismatch"
       [] r.kind = "read_metadata" -> IF s = <<>> THEN "NotFound" ELSE "Ok"
       [] OTHER -> IF s = <<>> THEN "NotFound"
                   ELSE IF v \notin DOMAIN s THEN "InvalidVersion"
                   ELSE IF r.kind \in {"undelete", "read_version"} /\ s[v].destroyed THEN "Destroyed"
                   ELSE IF r.kind = "read_version" /\ s[v].deleted THEN "SoftDeleted"
                   ELSE "Ok"

\* The answer to a request; a reader also needs the payload.
Verdict(s, r) ==
  IF Checked(s, r) = "Ok" /\ r.kind = "read_version" /\ s[Target(s, r)].value = None
    THEN "MissingPayload"
    ELSE Checked(s, r)

Effect(s, r, x) ==
  CASE r.kind = "put" -> Append(s, [value |-> x, deleted |-> FALSE, destroyed |-> FALSE])
    [] r.kind = "soft_delete" -> [s EXCEPT ![r.version].deleted = TRUE]
    [] r.kind = "undelete" -> [s EXCEPT ![r.version].deleted = FALSE]
    [] r.kind = "destroy" -> [s EXCEPT ![r.version].destroyed = TRUE, ![r.version].value = None]

\* The content of the answer to a read.
Content(s, r) ==
  IF r.kind = "read_metadata"
    THEN [current_version |-> Len(s),
          versions |-> [i \in DOMAIN s |-> [version_id |-> i, deleted |-> s[i].deleted,
                                            destroyed |-> s[i].destroyed]]]
    ELSE s[Target(s, r)].value
=============================================================================
