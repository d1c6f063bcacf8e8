------------------------------ MODULE Spinlock ------------------------------
(***************************************************************************)
(* spin_lock() and spin_unlock() of kern/spinlock.c with DEBUG_SPINLOCK,   *)
(* one memory access at a time, on processors with store buffers: a store  *)
(* goes into the buffer of its processor, which reads its own stores from  *)
(* there, and reaches memory later, in order.  xchg is a locked            *)
(* instruction: it drains the buffer of its processor and is atomic.       *)
(*                                                                         *)
(* struct spinlock is its word locked and its debugging field cpu, the     *)
(* processor that holds the lock.  name and pcs are only printed.          *)
(***************************************************************************)
EXTENDS Naturals, Sequences

CONSTANTS
    CPU,     \* the processors
    Misuse,  \* callers may lock twice, or unlock what they do not hold
    NULL     \* the null pointer of lk->cpu

ASSUME SpinlockAssumption ==
    /\ Misuse \in BOOLEAN
    /\ NULL \notin CPU

VARIABLES
    locked,  \* lk->locked
    cpu,     \* lk->cpu in memory
    buffer,  \* buffer[c]: the stores to lk->cpu that c has still to perform
    owner,   \* who took the lock and has not put it back (not in the code)
    pc       \* where processor c is

vars == <<locked, cpu, buffer, owner, pc>>

\* Outside the functions; in spin_lock(); in spin_unlock(); in panic().
Place == {"idle", "lock", "lock_cpu", "xchg_1", "record",
          "unlock", "unlock_cpu", "clear", "xchg_0", "panic"}

Init ==
    /\ locked = 0
    /\ cpu = NULL
    /\ buffer = [c \in CPU |-> <<>>]
    /\ owner = NULL
    /\ pc = [c \in CPU |-> "idle"]

Goto(c, place) == pc' = [pc EXCEPT ![c] = place]

-----------------------------------------------------------------------------
(***************************************************************************)
(* Memory.                                                                 *)
(***************************************************************************)

\* What processor c reads from lk->cpu: its own last store, if pending.
ReadCpu(c) ==
    IF buffer[c] = <<>> THEN cpu ELSE buffer[c][Len(buffer[c])]

StoreCpu(c, value) == buffer' = [buffer EXCEPT ![c] = Append(@, value)]

\* The oldest pending store of c reaches memory, at any time.
Drain(c) ==
    /\ buffer[c] # <<>>
    /\ cpu' = Head(buffer[c])
    /\ buffer' = [buffer EXCEPT ![c] = Tail(@)]
    /\ UNCHANGED <<locked, owner, pc>>

\* The memory effect of "lock; xchgl" on lk->locked.
xchg(c, newval) ==
    /\ buffer[c] = <<>>
    /\ locked' = newval

-----------------------------------------------------------------------------
(***************************************************************************)
(* The callers.  lock_kernel() is called by a processor that does not hold *)
(* the lock, unlock_kernel() by the one that does, unless Misuse.          *)
(***************************************************************************)

spin_lock(c) ==
    /\ pc[c] = "idle"
    /\ owner # c \/ Misuse
    /\ Goto(c, "lock")
    /\ UNCHANGED <<locked, cpu, buffer, owner>>

spin_unlock(c) ==
    /\ pc[c] = "idle"
    /\ owner = c \/ Misuse
    /\ Goto(c, "unlock")
    /\ UNCHANGED <<locked, cpu, buffer, owner>>

-----------------------------------------------------------------------------
(***************************************************************************)
(* holding(): lock->locked is read first, and lock->cpu only if it is set. *)
(***************************************************************************)

holding_locked(c) ==
    /\ \/ pc[c] = "lock" /\ Goto(c, IF locked = 0 THEN "xchg_1" ELSE "lock_cpu")
       \/ pc[c] = "unlock" /\ Goto(c, IF locked = 0 THEN "panic" ELSE "unlock_cpu")
    /\ UNCHANGED <<locked, cpu, buffer, owner>>

holding_cpu(c) ==
    /\ \/ /\ pc[c] = "lock_cpu"
          /\ Goto(c, IF ReadCpu(c) = c THEN "panic" ELSE "xchg_1")
       \/ /\ pc[c] = "unlock_cpu"
          /\ Goto(c, IF ReadCpu(c) = c THEN "clear" ELSE "panic")
    /\ UNCHANGED <<locked, cpu, buffer, owner>>

-----------------------------------------------------------------------------
(***************************************************************************)
(* The rest of spin_lock() and of spin_unlock().                           *)
(***************************************************************************)

\* Mistake: the result of the exchange is not looked at.
acquire_no_test(c) ==
    /\ pc[c] = "xchg_1"
    /\ xchg(c, 1)
    /\ owner' = c
    /\ Goto(c, "record")
    /\ UNCHANGED <<cpu, buffer>>

\* One round of the loop: the exchange stores 1 whether it wins or not.
acquire(c) ==
    /\ pc[c] = "xchg_1"
    /\ xchg(c, 1)
    /\ IF locked = 0 THEN owner' = c /\ Goto(c, "record")
                     ELSE UNCHANGED <<owner, pc>>
    /\ UNCHANGED <<cpu, buffer>>

record_cpu(c) ==
    /\ pc[c] = "record"
    /\ StoreCpu(c, c)
    /\ Goto(c, "idle")
    /\ UNCHANGED <<locked, cpu, owner>>

\* Mistake: the record of the owner is left behind.
clear_cpu_missing(c) ==
    /\ pc[c] = "clear"
    /\ Goto(c, "xchg_0")
    /\ UNCHANGED <<locked, cpu, buffer, owner>>

clear_cpu(c) ==
    /\ pc[c] = "clear"
    /\ StoreCpu(c, NULL)
    /\ Goto(c, "xchg_0")
    /\ UNCHANGED <<locked, cpu, owner>>

\* Mistake: the word is set, not cleared.
release_set(c) ==
    /\ pc[c] = "xchg_0"
    /\ xchg(c, 1)
    /\ owner' = NULL
    /\ Goto(c, "idle")
    /\ UNCHANGED <<cpu, buffer>>

release(c) ==
    /\ pc[c] = "xchg_0"
    /\ xchg(c, 0)
    /\ owner' = NULL
    /\ Goto(c, "idle")
    /\ UNCHANGED <<cpu, buffer>>

Step(c) ==
    \/ holding_locked(c)
    \/ holding_cpu(c)
    \/ acquire(c)
    \/ record_cpu(c)
    \/ clear_cpu(c)
    \/ release(c)
    \/ Drain(c)

Next ==
    \E c \in CPU :
        \/ spin_lock(c)
        \/ spin_unlock(c)
        \/ Step(c)

\* Processors run: who is in a function goes on, pending stores reach memory.
Fairness == \A c \in CPU : WF_vars(Step(c))

Spec == Init /\ [][Next]_vars

FairSpec == Spec /\ Fairness

-----------------------------------------------------------------------------
(***************************************************************************)
(* Properties.                                                             *)
(***************************************************************************)

TypeOK ==
    /\ locked \in {0, 1}
    /\ cpu \in CPU \cup {NULL}
    /\ buffer \in [CPU -> Seq(CPU \cup {NULL})]
    /\ owner \in CPU \cup {NULL}
    /\ pc \in [CPU -> Place]

\* Taking and releasing the lock, with everything in between, is taking and
\* releasing an abstract lock: one owner at a time, released by its owner.
Abstract == INSTANCE KernelLock WITH kernel_lock <- owner

Implements == Abstract!Discipline

\* holding() is right though it reads two words of a lock that other
\* processors are taking and releasing: a processor panics for locking twice
\* only if it is the owner, and for unlocking only if it is not.
\* ("CPU %d cannot acquire %s: already holding", kern/spinlock.c:64, and the
\* messages of spin_unlock().)
NoFalsePanic ==
    [][\A c \in CPU : pc[c] # "panic" /\ pc'[c] = "panic"
           => IF pc[c] = "lock_cpu" THEN owner = c ELSE owner # c]_vars

\* And misuse never goes undetected: the owner does not come to spin for a
\* lock it holds, which would be for ever, and nobody else comes to clear it.
MisuseCaught ==
    \A c \in CPU :
        /\ pc[c] = "xchg_1" => owner # c
        /\ pc[c] \in {"record", "clear", "xchg_0"} => owner = c

\* lk->cpu never names a processor that does not hold the lock, in memory or
\* on its way to memory, and the owner reads its own name there except while
\* spin_lock() has not recorded it yet or spin_unlock() has cleared it.  Only
\* the owner has stores pending: none outlives the release.
LockState ==
    /\ locked = IF owner = NULL THEN 0 ELSE 1
    /\ cpu \in {NULL, owner}
    /\ \A c \in CPU :
        IF owner = c
        THEN /\ buffer[c] \in Seq({NULL, c})
             /\ ReadCpu(c) = IF pc[c] \in {"record", "xchg_0"} THEN NULL ELSE c
             /\ pc[c] = "record" => buffer[c] = <<>>
        ELSE buffer[c] = <<>>

\* A free lock that somebody spins for is taken, whatever the others do.
Progress ==
    (owner = NULL /\ \E c \in CPU : pc[c] = "xchg_1") ~> (owner # NULL)

=============================================================================
