--------------------------- MODULE VersionedStore ---------------------------
(***************************************************************************)
(* What the engine promises to clients that do not share paths: a store of *)
(* versioned secrets whose operations take effect one at a time, between   *)
(* their call and their answer.                                            *)
(*                                                                         *)
(* The secret at a path is the sequence of its versions.  A write takes    *)
(* effect in one step (Perform) and answers later (Return); an operation   *)
(* that is refused, fails or reads has no effect, with the exception of a  *)
(* destruction that fails halfway.                                         *)
(***************************************************************************)
EXTENDS SecretVersions

CONSTANTS Workers, Paths, Requests, Payloads

VARIABLES store,       \* per path: its versions, oldest first
          req,         \* per worker: its current or last request
          payload,     \* per worker: the payload of that request
          performed,   \* per worker: has its current write taken effect?
          answer       \* per worker: the answer to its last call, None during a call

vars == <<store, req, payload, performed, answer>>

Init == /\ store = [p \in Paths |-> <<>>]
        /\ req = [w \in Workers |-> None]
        /\ payload \in [Workers -> Payloads \cup {None}]
        /\ performed = [w \in Workers |-> FALSE]
        /\ answer = [w \in Workers |-> None]

Failures == {"QueueFull", "StorageError"}

Answer(w, a) == answer' = [answer EXCEPT ![w] = a]
Calling(w) == req[w] # None /\ answer[w] = None
Secret(w) == store[req[w].path]

Call(w) == /\ ~ performed[w]
           /\ \E r \in Requests[w] : req' = [req EXCEPT ![w] = r]
           /\ \E x \in Payloads : payload' = [payload EXCEPT ![w] = x]
           /\ Answer(w, None)
           /\ UNCHANGED <<performed, store>>

Perform(w) == /\ Calling(w) /\ ~ performed[w]
              /\ req[w].kind \in Writes
              /\ performed' = [performed EXCEPT ![w] = TRUE]
              /\ Verdict(Secret(w), req[w]) = "Ok"
              /\ store' = [store EXCEPT ![req[w].path] = Effect(@, req[w], payload[w])]
              /\ UNCHANGED <<req, payload, answer>>

Return(w) == /\ performed[w]
             /\ performed' = [performed EXCEPT ![w] = FALSE]
             /\ Answer(w, <<"Ok", None>>)
             /\ UNCHANGED <<req, payload, store>>

Read(w) == /\ Calling(w)
           /\ req[w].kind \notin Writes
           /\ Verdict(Secret(w), req[w]) = "Ok"
           /\ Answer(w, <<"Ok", Content(Secret(w), req[w])>>)
           /\ UNCHANGED <<req, payload, performed, store>>

Refuse(w) == /\ Calling(w) /\ ~ performed[w]
             /\ \E e \in Refusals : Answer(w, <<"Err", e>>) /\ Verdict(Secret(w), req[w]) = e
             /\ UNCHANGED <<req, payload, performed, store>>

\* Backpressure or a storage error: the operation has no effect.
Fail(w) == /\ Calling(w) /\ ~ performed[w]
           /\ \E e \in Failures : Answer(w, <<"Err", e>>)
           /\ UNCHANGED <<req, payload, performed, store>>

\* A destruction that fails between its two writes has deleted the payload, but
\* the version is not marked (unless it was before).
FailHalfway(w) ==
  /\ performed[w] /\ req[w].kind = "destroy"
  /\ performed' = [performed EXCEPT ![w] = FALSE]
  /\ \E e \in Failures : Answer(w, <<"Err", e>>)
  /\ \E d \in BOOLEAN : store' = [store EXCEPT ![req[w].path][req[w].version].destroyed = d]
  /\ UNCHANGED <<req, payload>>

Next == \E w \in Workers : \/ Call(w) \/ Perform(w) \/ Return(w) \/ Read(w)
                           \/ Refuse(w) \/ Fail(w) \/ FailHalfway(w)

Spec == Init /\ [][Next]_vars
=============================================================================
