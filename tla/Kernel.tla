------------------------------- MODULE Kernel -------------------------------
(***************************************************************************)
(* The core of the kernel: environments, the scheduler and trap entry on   *)
(* NCPU processors under the big kernel lock (kern/env.c, kern/sched.c,    *)
(* kern/trap.c, kern/init.c, and the system calls of kern/syscall.c that   *)
(* change an environment's state).                                         *)
(*                                                                         *)
(* Everything between lock_kernel() and unlock_kernel() is one step: what  *)
(* it reads and writes is protected by the lock.  What happens outside the *)
(* lock is a step of its own: the trap entry, the spinning on the lock,    *)
(* and the tail of env_run(), which loads CR3 after it has released the    *)
(* lock.                                                                   *)
(***************************************************************************)
EXTENDS Naturals, Sequences

CONSTANTS
    NCPU,         \* number of processors; processor 0 boots
    NENV,         \* size of envs[]
    NBOOT,        \* environments i386_init() creates
    MaxGen,       \* generations of a slot before its env_id repeats
    Calls,        \* what programs do besides computing and yielding
    Disciplined,  \* programs start children only as lib/fork.c and user/spin.c do
    KillsZombies, \* they may destroy a child again before it has trapped
    NULL

CPU == 0 .. NCPU - 1
ENVS == 0 .. NENV - 1
BootCpu == 0

AllCalls == {"exofork", "set_status", "destroy", "fault", "ipc", "device"}

ASSUME KernelAssumption ==
    /\ NCPU \in Nat \ {0}
    /\ NENV \in Nat \ {0}
    /\ NBOOT \in 1 .. NENV
    /\ MaxGen \in Nat \ {0}
    /\ Calls \subseteq AllCalls
    /\ Disciplined \in BOOLEAN /\ KillsZombies \in BOOLEAN
    /\ NULL \notin CPU
    /\ NULL \notin ENVS

VARIABLES
    env_status,       \* envs[i].env_status
    env_gen,          \* the generation part of envs[i].env_id
    env_parent_id,    \* envs[i].env_parent_id
    env_ipc_recving,  \* envs[i].env_ipc_recving
    env_free_list,    \* the list threaded through env_link, head first
    successors,       \* history: who had the slot of e's parent after it, up to MaxGen
    curenv,           \* cpus[c].cpu_env
    cpu_status,       \* cpus[c].cpu_status
    cr3,              \* whose page tables processor c has loaded
    kernel_lock,      \* the processor that holds the lock, or NULL
    panicstr,         \* some processor has called panic()
    pc                \* where processor c is

envVars == <<env_gen, env_parent_id, env_ipc_recving, env_free_list, successors>>
cpuVars == <<curenv, cpu_status, cr3, kernel_lock, pc>>
vars == <<env_status, envVars, cpuVars, panicstr>>

Status == {"ENV_FREE", "ENV_DYING", "ENV_RUNNABLE", "ENV_RUNNING",
           "ENV_NOT_RUNNABLE"}

(***************************************************************************)
(* "off": an AP before its startup IPI.  "mp_main": it runs but has not    *)
(* reported in.  "mp_spin", "spin", "wake_spin": waiting for the lock in   *)
(* mp_main(), in a trap from user mode, in the interrupt that ended hlt.   *)
(* "mp_kernel", "kernel", "wake_kernel": the same with the lock held.      *)
(* "boot": i386_init() after lock_kernel().  "run": env_run() between      *)
(* unlock_kernel() and lcr3().  "monitor", "panic": in the monitor for     *)
(* ever, lock held.  "dead": hlt with interrupts off after a panic.        *)
(***************************************************************************)
Spinning == {"mp_spin", "spin", "wake_spin"}
InKernel == {"boot", "mp_kernel", "kernel", "wake_kernel", "monitor", "panic"}
Location == {"off", "mp_main", "run", "user", "halted", "dead"}
              \cup Spinning \cup InKernel

\* An env_id is a slot and the generation of its occupant; generation 0 is the
\* id 0 that stands for the caller and that boot environments have as parent.
EnvId == ENVS \X (0 .. MaxGen)
ZeroId == <<0, 0>>
IdOf(e) == <<e, env_gen[e]>>

\* Mutant: the generations start again one too early.
NextGen_early(g) == IF g + 1 >= MaxGen THEN 1 ELSE g + 1

\* env_alloc(): the next env_id of a slot.  After the largest positive int32
\* the generation starts again at 1 << ENVGENSHIFT.
NextGen(g) == IF g = MaxGen THEN 1 ELSE g + 1

\* CR3 is named by the environment whose PML4 page it points to; boot_cr3 is
\* ZeroId.  A freed environment's page tables are gone: env_cr3 is 0.
boot_cr3 == ZeroId

TypeOK ==
    /\ env_status \in [ENVS -> Status]
    /\ env_gen \in [ENVS -> 0 .. MaxGen]
    /\ env_parent_id \in [ENVS -> EnvId]
    /\ env_ipc_recving \in [ENVS -> BOOLEAN]
    /\ env_free_list \in Seq(ENVS)
    /\ successors \in [ENVS -> 0 .. MaxGen]
    /\ curenv \in [CPU -> ENVS \cup {NULL}]
    /\ cpu_status \in [CPU -> {"UNUSED", "STARTED", "HALTED"}]
    /\ cr3 \in [CPU -> EnvId]
    /\ kernel_lock \in CPU \cup {NULL}
    /\ panicstr \in BOOLEAN
    /\ pc \in [CPU -> Location]

-----------------------------------------------------------------------------
\* env_init(), lock_kernel() of i386_init(): every slot is free and on the list
\* in order; the boot processor holds the lock before any AP is started.
Init ==
    /\ env_status = [e \in ENVS |-> "ENV_FREE"]
    /\ env_gen = [e \in ENVS |-> 0]
    /\ env_parent_id = [e \in ENVS |-> ZeroId]
    /\ env_ipc_recving = [e \in ENVS |-> FALSE]
    /\ env_free_list = [i \in 1 .. NENV |-> i - 1]
    /\ successors = [e \in ENVS |-> 0]
    /\ curenv = [c \in CPU |-> NULL]
    /\ cpu_status = [c \in CPU |-> IF c = BootCpu THEN "STARTED" ELSE "UNUSED"]
    /\ cr3 = [c \in CPU |-> boot_cr3]
    /\ kernel_lock = BootCpu
    /\ panicstr = FALSE
    /\ pc = [c \in CPU |-> IF c = BootCpu THEN "boot" ELSE "off"]

-----------------------------------------------------------------------------
(***************************************************************************)
(* The ways out of the kernel.  Each takes the statuses st, the current    *)
(* environment cur and the CR3 value r that the handler on processor c     *)
(* leaves behind.                                                          *)
(***************************************************************************)

\* Mutant: the environment that is switched from stays marked as running.
env_run_forget_old(c, e, st, cur, r) ==
    /\ env_status' = [st EXCEPT ![e] = "ENV_RUNNING"]
    /\ curenv' = [curenv EXCEPT ![c] = e]
    /\ cr3' = [cr3 EXCEPT ![c] = r]
    /\ kernel_lock' = NULL
    /\ pc' = [pc EXCEPT ![c] = "run"]
    /\ UNCHANGED cpu_status

\* env_run(), up to unlock_kernel(): the old environment is runnable again if
\* it was running, e runs.
env_run(c, e, st, cur, r) ==
    LET back == IF cur # NULL /\ st[cur] = "ENV_RUNNING"
                THEN [st EXCEPT ![cur] = "ENV_RUNNABLE"]
                ELSE st
    IN  /\ env_status' = [back EXCEPT ![e] = "ENV_RUNNING"]
        /\ curenv' = [curenv EXCEPT ![c] = e]
        /\ cr3' = [cr3 EXCEPT ![c] = r]
        /\ kernel_lock' = NULL
        /\ pc' = [pc EXCEPT ![c] = "run"]
        /\ UNCHANGED cpu_status

\* The first loop of sched_halt().
NothingToRun(st) ==
    \A e \in ENVS : st[e] \in {"ENV_FREE", "ENV_NOT_RUNNABLE"}

\* sched_halt(): the monitor if nothing can ever run again, else hlt without an
\* environment, without the lock and on the boot page tables.
sched_halt(c, st, cur, r) ==
    /\ env_status' = st
    /\ \/ /\ NothingToRun(st)
          /\ pc' = [pc EXCEPT ![c] = "monitor"]
          /\ curenv' = [curenv EXCEPT ![c] = cur]
          /\ cr3' = [cr3 EXCEPT ![c] = r]
          /\ UNCHANGED <<cpu_status, kernel_lock>>
       \/ /\ ~NothingToRun(st)
          /\ pc' = [pc EXCEPT ![c] = "halted"]
          /\ curenv' = [curenv EXCEPT ![c] = NULL]
          /\ cr3' = [cr3 EXCEPT ![c] = boot_cr3]
          /\ cpu_status' = [cpu_status EXCEPT ![c] = "HALTED"]
          /\ kernel_lock' = NULL

\* How far the circular search that starts at slot s goes to reach slot e.
Distance(s, e) == IF e >= s THEN e - s ELSE e + NENV - s

\* Mutant: the search always starts at slot 0.
sched_yield_from_0(c, st, cur, r) ==
    LET runnable == {e \in ENVS : st[e] = "ENV_RUNNABLE"}
    IN  \/ \E e \in runnable : /\ \A f \in runnable : e <= f
                               /\ env_run(c, e, st, cur, r)
        \/ /\ runnable = {}
           /\ cur # NULL /\ st[cur] = "ENV_RUNNING"
           /\ env_run(c, cur, st, cur, r)
        \/ /\ runnable = {}
           /\ ~(cur # NULL /\ st[cur] = "ENV_RUNNING")
           /\ sched_halt(c, st, cur, r)

\* sched_yield(): the first runnable slot at or after that of cur (slot 0 if
\* there is no cur), else cur itself if it still runs, else halt.
sched_yield(c, st, cur, r) ==
    LET index == IF cur # NULL THEN cur ELSE 0
        runnable == {e \in ENVS : st[e] = "ENV_RUNNABLE"}
    IN  \/ \E e \in runnable :
              /\ \A f \in runnable : Distance(index, e) <= Distance(index, f)
              /\ env_run(c, e, st, cur, r)
        \/ /\ runnable = {}
           /\ cur # NULL /\ st[cur] = "ENV_RUNNING"
           /\ env_run(c, cur, st, cur, r)
        \/ /\ runnable = {}
           /\ ~(cur # NULL /\ st[cur] = "ENV_RUNNING")
           /\ sched_halt(c, st, cur, r)

\* The end of trap(): back to curenv if it still runs, else to the scheduler.
trap_return(c, st) ==
    LET cur == curenv[c]
    IN  IF cur # NULL /\ st[cur] = "ENV_RUNNING"
        THEN env_run(c, cur, st, cur, cr3[c])
        ELSE sched_yield(c, st, cur, cr3[c])

-----------------------------------------------------------------------------
(***************************************************************************)
(* Processors: boot, trap entry, the lock.                                 *)
(***************************************************************************)

\* boot_aps() starts the APs one at a time, each after the previous one has
\* reported in.
boot_aps(a) ==
    /\ pc[BootCpu] = "boot"
    /\ pc[a] = "off"
    /\ \A b \in CPU : b < a => cpu_status[b] = "STARTED"
    /\ pc' = [pc EXCEPT ![a] = "mp_main"]
    /\ UNCHANGED <<env_status, envVars, curenv, cpu_status, cr3, kernel_lock,
                   panicstr>>

\* mp_main(): tell boot_aps() we are up, then ask for the lock.
mp_main(a) ==
    /\ pc[a] = "mp_main"
    /\ pc' = [pc EXCEPT ![a] = "mp_spin"]
    /\ cpu_status' = [cpu_status EXCEPT ![a] = "STARTED"]
    /\ UNCHANGED <<env_status, envVars, curenv, cr3, kernel_lock, panicstr>>

\* The rest of i386_init(): once every AP is up, ENV_CREATE allocates the
\* first NBOOT slots of the free list, runnable and without a parent, and the
\* boot processor enters the scheduler.
i386_init ==
    LET created == {env_free_list[i] : i \in 1 .. NBOOT}
        st == [e \in ENVS |-> IF e \in created THEN "ENV_RUNNABLE"
                                               ELSE env_status[e]]
    IN  /\ pc[BootCpu] = "boot"
        /\ \A c \in CPU : cpu_status[c] = "STARTED"
        /\ env_gen' = [e \in ENVS |-> IF e \in created THEN NextGen(env_gen[e])
                                                       ELSE env_gen[e]]
        /\ env_free_list' = SubSeq(env_free_list, NBOOT + 1, Len(env_free_list))
        /\ sched_yield(BootCpu, st, curenv[BootCpu], cr3[BootCpu])
        /\ UNCHANGED <<env_parent_id, env_ipc_recving, successors, panicstr>>

\* trap(), up to the lock: from user mode or out of hlt.  After a panic
\* elsewhere the processor stops.
trap(c) ==
    /\ pc[c] \in {"user", "halted"}
    /\ \/ /\ panicstr
          /\ pc' = [pc EXCEPT ![c] = "dead"]
          /\ UNCHANGED cpu_status
       \/ /\ ~panicstr
          /\ pc' = [pc EXCEPT ![c] = IF pc[c] = "user" THEN "spin"
                                                       ELSE "wake_spin"]
          /\ cpu_status' = [cpu_status EXCEPT ![c] = "STARTED"]
    /\ UNCHANGED <<env_status, envVars, curenv, cr3, kernel_lock, panicstr>>

\* Where a processor that spins at l goes on once it has the lock.
WithLock(l) ==
    IF l = "mp_spin" THEN "mp_kernel"
    ELSE IF l = "spin" THEN "kernel" ELSE "wake_kernel"

\* Mutant: the lock is taken without looking whether it is free.
lock_kernel_no_test(c) ==
    /\ pc[c] \in Spinning
    /\ kernel_lock' = c
    /\ pc' = [pc EXCEPT ![c] = WithLock(pc[c])]
    /\ UNCHANGED <<env_status, envVars, curenv, cpu_status, cr3, panicstr>>

\* spin_lock(): the xchg that finds the lock free.
lock_kernel(c) ==
    /\ pc[c] \in Spinning
    /\ kernel_lock = NULL
    /\ kernel_lock' = c
    /\ pc' = [pc EXCEPT ![c] = WithLock(pc[c])]
    /\ UNCHANGED <<env_status, envVars, curenv, cpu_status, cr3, panicstr>>

\* The tail of env_run(), after unlock_kernel(): load the page tables of
\* curenv, return to user mode.
lcr3_and_iret(c) ==
    /\ pc[c] = "run"
    /\ cr3' = [cr3 EXCEPT ![c] = IdOf(curenv[c])]
    /\ pc' = [pc EXCEPT ![c] = "user"]
    /\ UNCHANGED <<env_status, envVars, curenv, cpu_status, kernel_lock,
                   panicstr>>

\* An AP, or a processor woken by its timer, goes to the scheduler.
enter_scheduler(c) ==
    /\ pc[c] \in {"mp_kernel", "wake_kernel"}
    /\ sched_yield(c, env_status, curenv[c], cr3[c])
    /\ UNCHANGED <<envVars, panicstr>>

\* panic(): stay in the monitor, lock held.
panic(c) ==
    /\ panicstr' = TRUE
    /\ pc' = [pc EXCEPT ![c] = "panic"]
    /\ UNCHANGED <<env_status, envVars, curenv, cpu_status, cr3, kernel_lock>>

\* A keyboard or serial interrupt reaches the boot processor (the 8259A is
\* wired to it alone) out of hlt: trap_dispatch() has no case for it.
device_irq_in_kernel(c) ==
    /\ "device" \in Calls
    /\ c = BootCpu
    /\ pc[c] = "wake_kernel"
    /\ panic(c)

-----------------------------------------------------------------------------
(***************************************************************************)
(* Traps from user mode, lock held.                                        *)
(***************************************************************************)

\* trap() goes on to trap_dispatch() unless curenv is a zombie.
dispatching(c) ==
    /\ pc[c] = "kernel"
    /\ env_status[curenv[c]] # "ENV_DYING"

\* envid2env(): the environment that id means to curenv, or NULL.
envid2env(c, id, checkperm) ==
    LET e == id[1]
    IN  IF id = ZeroId THEN curenv[c]
        ELSE IF \/ env_status[e] = "ENV_FREE"
                \/ IdOf(e) # id
                \/ /\ checkperm
                   /\ e # curenv[c]
                   /\ env_parent_id[e] # IdOf(curenv[c])
             THEN NULL
             ELSE e

\* env_free(): the page tables go, the slot heads the free list; its env_id,
\* and so its generation, stays.
env_free(e) ==
    /\ env_free_list' = <<e>> \o env_free_list
    /\ UNCHANGED <<env_gen, env_parent_id, env_ipc_recving, successors>>

\* Mutant: an environment running on another processor is freed at once.
env_destroy_no_zombie(c, e) ==
    /\ env_free(e)
    /\ IF e = curenv[c]
       THEN sched_yield(c, [env_status EXCEPT ![e] = "ENV_FREE"], NULL, boot_cr3)
       ELSE trap_return(c, [env_status EXCEPT ![e] = "ENV_FREE"])
    /\ UNCHANGED panicstr

\* env_destroy(), and the return to trap(): a zombie if e runs elsewhere, else
\* env_free(), and on to the scheduler if e was the caller.
env_destroy(c, e) ==
    LET freed == [env_status EXCEPT ![e] = "ENV_FREE"]
    IN  \/ /\ env_status[e] = "ENV_RUNNING"
           /\ e # curenv[c]
           /\ trap_return(c, [env_status EXCEPT ![e] = "ENV_DYING"])
           /\ UNCHANGED <<envVars, panicstr>>
        \/ /\ e = curenv[c]
           /\ env_free(e)
           /\ sched_yield(c, freed, NULL, boot_cr3)
           /\ UNCHANGED panicstr
        \/ /\ env_status[e] # "ENV_RUNNING"
           /\ e # curenv[c]
           /\ env_free(e)
           /\ trap_return(c, freed)
           /\ UNCHANGED panicstr

\* trap(): garbage collect a zombie.
free_zombie(c) ==
    /\ pc[c] = "kernel"
    /\ env_status[curenv[c]] = "ENV_DYING"
    /\ env_free(curenv[c])
    /\ sched_yield(c, [env_status EXCEPT ![curenv[c]] = "ENV_FREE"], NULL,
                   boot_cr3)
    /\ UNCHANGED panicstr

\* A trap that leaves the environments alone: a system call that only reads
\* or fails, a spurious interrupt, a breakpoint, a fault with an upcall.
harmless_trap(c) ==
    /\ dispatching(c)
    /\ trap_return(c, env_status)
    /\ UNCHANGED <<envVars, panicstr>>

\* The timer interrupt and sys_yield().
timer_or_sys_yield(c) ==
    /\ dispatching(c)
    /\ sched_yield(c, env_status, curenv[c], cr3[c])
    /\ UNCHANGED <<envVars, panicstr>>

\* A trap with no case in trap_dispatch(), a page fault without an upcall, a
\* device interrupt taken in user mode: env_destroy(curenv).
fault(c) ==
    /\ dispatching(c)
    /\ "fault" \in Calls
    /\ env_destroy(c, curenv[c])

\* sys_env_destroy()
sys_env_destroy(c, id) ==
    LET e == envid2env(c, id, TRUE)
    IN  /\ dispatching(c)
        /\ "destroy" \in Calls
        /\ e # NULL
        /\ env_status[e] = "ENV_DYING" => KillsZombies
        /\ env_destroy(c, e)

\* The slot of e is given away: one more than its last occupant, for those of
\* whom that one, or one before it, is the parent.
Followed(e) ==
    [d \in ENVS |->
        IF d = e THEN 0
        ELSE IF env_parent_id[d][1] = e /\ env_parent_id[d] # ZeroId /\ successors[d] < MaxGen
             THEN successors[d] + 1
             ELSE successors[d]]

\* Mutant: env_alloc() does not commit the allocation.
sys_exofork_no_commit(c) ==
    /\ dispatching(c)
    /\ "exofork" \in Calls
    /\ env_free_list # <<>>
    /\ LET e == Head(env_free_list)
       IN  /\ env_gen' = [env_gen EXCEPT ![e] = NextGen(@)]
           /\ env_parent_id' = [env_parent_id EXCEPT ![e] = IdOf(curenv[c])]
           /\ env_ipc_recving' = [env_ipc_recving EXCEPT ![e] = FALSE]
           /\ UNCHANGED <<env_free_list, successors>>
           /\ trap_return(c, [env_status EXCEPT ![e] = "ENV_NOT_RUNNABLE"])
           /\ UNCHANGED panicstr

\* sys_exofork(), with env_alloc(): the head of the free list becomes a child
\* that does not run yet.
sys_exofork(c) ==
    /\ dispatching(c)
    /\ "exofork" \in Calls
    /\ env_free_list # <<>>
    /\ LET e == Head(env_free_list)
       IN  /\ env_gen' = [env_gen EXCEPT ![e] = NextGen(@)]
           /\ env_parent_id' = [env_parent_id EXCEPT ![e] = IdOf(curenv[c])]
           /\ env_ipc_recving' = [env_ipc_recving EXCEPT ![e] = FALSE]
           /\ env_free_list' = Tail(env_free_list)
           /\ successors' = Followed(e)
           /\ trap_return(c, [env_status EXCEPT ![e] = "ENV_NOT_RUNNABLE"])
           /\ UNCHANGED panicstr

\* sys_env_set_status().  A disciplined program only ever starts a child that
\* it has just built.
sys_env_set_status(c, id, status) ==
    LET e == envid2env(c, id, TRUE)
    IN  /\ dispatching(c)
        /\ "set_status" \in Calls
        /\ e # NULL
        /\ Disciplined => /\ status = "ENV_RUNNABLE"
                          /\ env_status[e] = "ENV_NOT_RUNNABLE"
                          /\ ~env_ipc_recving[e]
        /\ trap_return(c, [env_status EXCEPT ![e] = status])
        /\ UNCHANGED <<envVars, panicstr>>

\* sys_ipc_recv(): wait for a message.
sys_ipc_recv(c) ==
    /\ dispatching(c)
    /\ "ipc" \in Calls
    /\ env_ipc_recving' = [env_ipc_recving EXCEPT ![curenv[c]] = TRUE]
    /\ trap_return(c, [env_status EXCEPT ![curenv[c]] = "ENV_NOT_RUNNABLE"])
    /\ UNCHANGED <<env_gen, env_parent_id, env_free_list, successors, panicstr>>

\* sys_ipc_try_send() to a receiver: the receiver is runnable again.
sys_ipc_try_send(c, id) ==
    LET e == envid2env(c, id, FALSE)
    IN  /\ dispatching(c)
        /\ "ipc" \in Calls
        /\ e # NULL
        /\ env_ipc_recving[e]
        /\ env_ipc_recving' = [env_ipc_recving EXCEPT ![e] = FALSE]
        /\ trap_return(c, [env_status EXCEPT ![e] = "ENV_RUNNABLE"])
        /\ UNCHANGED <<env_gen, env_parent_id, env_free_list, successors, panicstr>>

\* The monitor's command loop, entered by sched_halt() or panic().
monitor(c) ==
    /\ pc[c] \in {"monitor", "panic"}
    /\ UNCHANGED vars

Processor(c) ==
    \/ boot_aps(c)
    \/ mp_main(c)
    \/ c = BootCpu /\ i386_init
    \/ trap(c)
    \/ lock_kernel(c)
    \/ lcr3_and_iret(c)
    \/ enter_scheduler(c)
    \/ device_irq_in_kernel(c)
    \/ monitor(c)

TrapFromUser(c) ==
    \/ free_zombie(c)
    \/ harmless_trap(c)
    \/ timer_or_sys_yield(c)
    \/ fault(c)
    \/ sys_exofork(c)
    \/ sys_ipc_recv(c)
    \/ \E id \in EnvId :
          \/ sys_env_destroy(c, id)
          \/ sys_ipc_try_send(c, id)
          \/ \E s \in {"ENV_RUNNABLE", "ENV_NOT_RUNNABLE"} :
                sys_env_set_status(c, id, s)

Next == \E c \in CPU : Processor(c) \/ TrapFromUser(c)

Spec == Init /\ [][Next]_vars

\* The processor's own steps end (the timer is periodic, the lock is released),
\* every handler finishes, and the timer interrupt is not put off for ever: it
\* is pending when user mode is entered again.
Fairness ==
    \A c \in CPU :
        /\ WF_vars(Processor(c))
        /\ WF_vars(TrapFromUser(c))
        /\ SF_vars(timer_or_sys_yield(c))

FairSpec == Spec /\ Fairness

-----------------------------------------------------------------------------
(***************************************************************************)
(* Properties.                                                             *)
(***************************************************************************)

\* envid2env() with checkperm, "to ensure that the envid is not stale": an
\* environment is killed only by itself or by the very environment that created
\* it.  Whoever moves into a dead parent's slot is no parent of the orphans,
\* until the slot has had as many environments since as there are generations.
KillsOwn ==
    \A e \in ENVS :
        /\ env_status[e] \notin {"ENV_FREE", "ENV_DYING"}
        /\ env_status'[e] \in {"ENV_FREE", "ENV_DYING"}
        => LET killer == curenv[kernel_lock]
           IN  \/ killer = e
               \/ /\ env_parent_id[e] # ZeroId /\ killer = env_parent_id[e][1]
                  /\ successors[e] \in {0, MaxGen}
KilledByCreator == [][KillsOwn]_vars

\* lock_kernel()/unlock_kernel(): the lock names the one processor that is
\* between them, so no two processors are inside the kernel, and a processor
\* that stays in the monitor keeps the others out.
KernelMutex ==
    \A c \in CPU : pc[c] \in InKernel <=> kernel_lock = c

\* sched_yield(): "Never choose an environment that's currently running on
\* another CPU"; what user/stresssched.c tests for.
RunsOnOneCpu ==
    \A c, d \in CPU : curenv[c] # NULL /\ curenv[c] = curenv[d] => c = d

\* env_status tells the truth: an environment is RUNNING or DYING exactly when
\* some processor has it as its current one.  One left RUNNING on no processor
\* would never be scheduled or freed again; a current one that is anything
\* else could be run twice or freed under its processor's feet.
RunningIffCurrent ==
    \A e \in ENVS :
        env_status[e] \in {"ENV_RUNNING", "ENV_DYING"}
            <=> \E c \in CPU : curenv[c] = e /\ pc[c] # "monitor"

\* trap() asserts curenv on a trap from user mode, and would take the lock
\* twice if cpu_status still said HALTED there; a halted processor holds on to
\* no environment and to no environment's page tables.
CpuConsistent ==
    \A c \in CPU :
        /\ pc[c] \in {"run", "user", "spin", "kernel"} =>
              curenv[c] # NULL /\ cpu_status[c] = "STARTED"
        /\ pc[c] \in {"halted", "wake_spin", "wake_kernel"} =>
              curenv[c] = NULL /\ cr3[c] = boot_cr3
        /\ pc[c] = "halted" => cpu_status[c] = "HALTED"

\* env_alloc()/env_free(): the free list holds every free slot once and no
\* slot that is in use.
FreeListExact ==
    /\ \A i, j \in 1 .. Len(env_free_list) :
          env_free_list[i] = env_free_list[j] => i = j
    /\ \A e \in ENVS :
          env_status[e] = "ENV_FREE"
              <=> \E i \in 1 .. Len(env_free_list) : env_free_list[i] = e

PageTablesLive(id) ==
    \/ id = boot_cr3
    \/ env_status[id[1]] # "ENV_FREE" /\ IdOf(id[1]) = id

\* lcr3(): while a processor is in user mode, or in the kernel on behalf of a
\* trap from it, it uses the page tables of its current environment and these
\* have not been freed by another processor.
UserPageTables ==
    \A c \in CPU :
        pc[c] \in {"user", "spin", "kernel"} =>
            cr3[c] = IdOf(curenv[c]) /\ PageTablesLive(cr3[c])

\* env_free() switches to boot_cr3 "before freeing the page directory, just in
\* case the page gets reused": no processor ever has freed page tables loaded.
Cr3NeverFreed == \A c \in CPU : PageTablesLive(cr3[c])

\* sys_ipc_recv(): "Block until a value is ready".  An environment that waits
\* for a message is not run before one arrives.
ReceiverBlocked ==
    \A e \in ENVS :
        env_ipc_recving[e] =>
            env_status[e] \in {"ENV_NOT_RUNNABLE", "ENV_FREE"}

\* sched_halt(): the processor that gives up for lack of work is right, and
\* stays right: nothing is running anywhere else.
MonitorQuiescent ==
    \A c \in CPU :
        pc[c] = "monitor" => /\ NothingToRun(env_status)
                             /\ \A d \in CPU : pc[d] \notin
                                   {"user", "run", "spin", "kernel"}

\* boot_aps(), mp_main(): the lock keeps the APs out of the scheduler until
\* i386_init() has created the first environments; an AP that got in earlier
\* would find nothing to run and take the machine to the monitor.
ApsWaitForBoot ==
    pc[BootCpu] = "boot" =>
        \A a \in CPU \ {BootCpu} : pc[a] \in {"off", "mp_main", "mp_spin"}

\* What lock_kernel(), trap() and sched_halt() rely on, whatever programs do:
\* types, exclusion, and processors in the state that trap() asserts.
MachineConsistent == TypeOK /\ KernelMutex /\ CpuConsistent

\* What the scheduler and env_run() rely on: one processor for an environment,
\* a status that tells the truth, receivers that wait, a monitor that is
\* entered rightly, and APs that wait for the first environments.
EnvsConsistent ==
    /\ RunsOnOneCpu
    /\ RunningIffCurrent
    /\ ReceiverBlocked
    /\ MonitorQuiescent
    /\ ApsWaitForBoot

\* env_destroy(): "A zombie environment will be freed the next time it traps
\* to the kernel": it is not scheduled again, and nobody but the processor it
\* still occupies frees it.  It does not hold if its parent destroys it twice.
ZombieFreedByItsCpu ==
    [][\A e \in ENVS :
          env_status[e] = "ENV_DYING" =>
              \/ env_status'[e] = "ENV_DYING"
              \/ /\ env_status'[e] = "ENV_FREE"
                 /\ \E c \in CPU : kernel_lock = c /\ curenv[c] = e]_vars

\* sched_yield(), "simple round-robin scheduling": every runnable environment
\* gets its turn, unless the kernel panics.
NoStarvation ==
    \A e \in ENVS :
        env_status[e] = "ENV_RUNNABLE"
            ~> env_status[e] # "ENV_RUNNABLE" \/ panicstr
=============================================================================
