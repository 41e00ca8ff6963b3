---------------------------- MODULE MCStampedLock ----------------------------
(* Instances of StampedLock for TLC. *)
EXTENDS StampedLock, TLC

CONSTANTS t1, t2, t3

\* Everything but unlock_shared.
Sound == AllOps \ {"unlock_shared"}
SharedOnly == {"try_lock_shared", "unlock_shared"}

\* Bounds on the operations begun.
Mixed == (t1 :> 3) @@ (t2 :> 2) @@ (t3 :> 2)
=============================================================================
