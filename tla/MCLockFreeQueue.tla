--------------------------- MODULE MCLockFreeQueue ---------------------------
(***************************************************************************)
(* LockFreeQueue on a small instance: two cells, so that positions wrap    *)
(* around the buffer and the Full and Empty answers occur; threads and     *)
(* None are model values.                                                  *)
(***************************************************************************)
EXTENDS LockFreeQueue
=============================================================================
