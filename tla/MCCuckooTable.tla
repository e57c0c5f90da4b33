---------------------------- MODULE MCCuckooTable ----------------------------
(***************************************************************************)
(* An instance of CuckooTable for TLC: buckets of one slot, and hashes     *)
(* that make keys collide.                                                 *)
(***************************************************************************)
EXTENDS CuckooTable, TLC

CONSTANTS k1, k2, k3, k4

\* All keys share their first bucket, some of them their tag.  All share the
\* second bucket, too, except k1, which can get out of the way.
Hashes == k1 :> 0 @@ k2 :> 2 @@ k3 :> 8 @@ k4 :> 10
Chained == k1 :> 1 @@ k2 :> 0 @@ k3 :> 0 @@ k4 :> 0

\* Two values for the key that moves, one for the others.
SomeInputs == (Keys \X {"x"}) \cup {<<k1, "y">>}
=============================================================================
