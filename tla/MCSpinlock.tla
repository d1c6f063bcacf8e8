----------------------------- MODULE MCSpinlock -----------------------------
(***************************************************************************)
(* Three processors: one that holds the lock and two that race for it.     *)
(***************************************************************************)
EXTENDS Spinlock
=============================================================================
