----------------------------- MODULE KernelLock -----------------------------
(***************************************************************************)
(* What lock_kernel() and unlock_kernel() promise, and the level at which  *)
(* Kernel.tla uses the big kernel lock: kernel_lock passes from nobody to  *)
(* a processor and from that processor back to nobody, never from one      *)
(* processor to another.                                                   *)
(***************************************************************************)
CONSTANTS CPU, NULL

VARIABLE kernel_lock

Unlocked == kernel_lock = NULL

Transfer == \E c \in CPU : {kernel_lock, kernel_lock'} = {NULL, c}

Discipline == Unlocked /\ [][Transfer]_kernel_lock
=============================================================================
