---------------------------- MODULE BoundedQueue ----------------------------
(***************************************************************************)
(* What LockFreeQueue promises to its callers: a FIFO queue of bounded     *)
(* length.  A call of enqueue takes effect in one step (Commit) and may    *)
(* return later (Return); a call of dequeue takes the head in one step     *)
(* (Take) and may return it later (Deliver).                               *)
(*                                                                         *)
(* Two answers are weaker than those of a textbook queue, because a thread *)
(* may be stopped between the step that takes effect and its return:       *)
(*   - dequeue may answer Empty while the head's enqueue has not returned; *)
(*   - enqueue may answer Full while some dequeue has not returned.        *)
(***************************************************************************)
EXTENDS Integers, Sequences

CONSTANTS Capacity, Producers, Consumers, Items, None

VARIABLES contents,    \* the items in the queue, oldest first
          committed,   \* per producer: the item of its unfinished enqueue, or None
          taken,       \* per consumer: the item of its unfinished dequeue, or None
          answer       \* per thread: the answer of its last call, None during a call

vars == <<contents, committed, taken, answer>>

Init == /\ contents = <<>>
        /\ committed = [p \in Producers |-> None]
        /\ taken = [c \in Consumers |-> None]
        /\ answer = [t \in Producers \cup Consumers |-> None]

\* A thread calls enqueue or dequeue: its previous answer is consumed.
Call(t) == /\ answer' = [answer EXCEPT ![t] = None]
           /\ UNCHANGED <<contents, committed, taken>>

Commit(p, x) == /\ committed[p] = None
                /\ Len(contents) < Capacity
                /\ contents' = Append(contents, x)
                /\ committed' = [committed EXCEPT ![p] = x]
                /\ UNCHANGED <<taken, answer>>

Return(p) == /\ committed[p] # None
             /\ committed' = [committed EXCEPT ![p] = None]
             /\ answer' = [answer EXCEPT ![p] = <<"Ok", None>>]
             /\ UNCHANGED <<contents, taken>>

Full(p) == /\ committed[p] = None
           /\ \/ Len(contents) = Capacity
              \/ \E c \in Consumers : taken[c] # None
           /\ answer' = [answer EXCEPT ![p] = <<"Err", "Full">>]
           /\ UNCHANGED <<contents, committed, taken>>

Take(c) == /\ taken[c] = None
           /\ contents # <<>>
           /\ taken' = [taken EXCEPT ![c] = Head(contents)]
           /\ contents' = Tail(contents)
           /\ UNCHANGED <<committed, answer>>

Deliver(c) == /\ taken[c] # None
              /\ answer' = [answer EXCEPT ![c] = <<"Ok", taken[c]>>]
              /\ taken' = [taken EXCEPT ![c] = None]
              /\ UNCHANGED <<contents, committed>>

Empty(c) == /\ taken[c] = None
            /\ \/ contents = <<>>
               \/ \E p \in Producers : committed[p] = Head(contents)
            /\ answer' = [answer EXCEPT ![c] = <<"Err", "Empty">>]
            /\ UNCHANGED <<contents, committed, taken>>

Next == \/ \E t \in Producers \cup Consumers : Call(t)
        \/ \E p \in Producers : (\E x \in Items : Commit(p, x)) \/ Return(p) \/ Full(p)
        \/ \E c \in Consumers : Take(c) \/ Deliver(c) \/ Empty(c)

Spec == Init /\ [][Next]_vars
=============================================================================
