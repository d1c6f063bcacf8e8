---------------------------- MODULE KernelProofs ----------------------------
(***************************************************************************)
(* Proofs about Kernel, for every number of processors and environments.   *)
(***************************************************************************)
EXTENDS Kernel, TLAPS

-----------------------------------------------------------------------------
(***************************************************************************)
(* Part 1: what holds whatever programs do.                                *)
(***************************************************************************)

TypeCpu ==
    /\ env_status \in [ENVS -> Status]
    /\ curenv \in [CPU -> ENVS \cup {NULL}]
    /\ cpu_status \in [CPU -> {"UNUSED", "STARTED", "HALTED"}]
    /\ cr3 \in [CPU -> EnvId]
    /\ kernel_lock \in CPU \cup {NULL}
    /\ panicstr \in BOOLEAN
    /\ pc \in [CPU -> Location]

TypeEnv ==
    /\ env_gen \in [ENVS -> 0 .. MaxGen]
    /\ env_parent_id \in [ENVS -> EnvId]
    /\ env_ipc_recving \in [ENVS -> BOOLEAN]
    /\ env_free_list \in Seq(ENVS)
    /\ successors \in [ENVS -> 0 .. MaxGen]

\* A processor that has reported in, and is not halted, is marked as started.
StartedPcs == {"boot", "mp_spin", "mp_kernel", "wake_spin", "wake_kernel",
               "run", "user", "spin", "kernel"}

Started == \A c \in CPU : pc[c] \in StartedPcs => cpu_status[c] = "STARTED"

CpuInv == TypeCpu /\ KernelMutex /\ CpuConsistent /\ Started

BaseInv == CpuInv /\ TypeEnv

\* A handler runs on processor c: it holds the lock.
Handling(c) == c \in CPU /\ pc[c] \in {"boot", "mp_kernel", "kernel", "wake_kernel"}

USE DEF BootCpu

LEMMA ZeroIdType == ZeroId \in EnvId /\ boot_cr3 \in EnvId
  BY KernelAssumption DEF ZeroId, boot_cr3, EnvId, ENVS

LEMMA LocationFacts ==
    /\ InKernel \subseteq Location
    /\ "run" \in Location \ InKernel
    /\ "halted" \in Location \ InKernel
    /\ "monitor" \in InKernel
  BY DEF Location, InKernel, Spinning

\* The way out of the kernel through env_run().
LEMMA EnvRunBase ==
    ASSUME CpuInv, NEW c, Handling(c), NEW e \in ENVS,
           NEW st \in [ENVS -> Status], NEW cur \in ENVS \cup {NULL},
           NEW r \in EnvId, env_run(c, e, st, cur, r),
           panicstr' = panicstr
    PROVE  CpuInv'
  <1> USE DEF Handling
  <1>1. TypeCpu'
    BY KernelAssumption DEF CpuInv, TypeCpu, env_run, Status, Location
  <1>2. KernelMutex'
    <2>1. /\ kernel_lock = c
          /\ \A d \in CPU : pc[d] \in InKernel => d = c
      BY DEF CpuInv, KernelMutex, InKernel
    <2>2. \A d \in CPU : pc'[d] \notin InKernel
      BY <2>1 DEF CpuInv, TypeCpu, env_run, InKernel
    <2> QED  BY <2>2, KernelAssumption DEF KernelMutex, env_run
  <1>3. CpuConsistent'
    BY KernelAssumption DEF CpuInv, TypeCpu, CpuConsistent, Started, StartedPcs, env_run
  <1>4. Started'
    BY DEF CpuInv, TypeCpu, Started, StartedPcs, env_run
  <1> QED  BY <1>1, <1>2, <1>3, <1>4 DEF CpuInv

\* The way out through sched_halt().
LEMMA SchedHaltBase ==
    ASSUME CpuInv, NEW c, Handling(c),
           NEW st \in [ENVS -> Status], NEW cur \in ENVS \cup {NULL},
           NEW r \in EnvId, sched_halt(c, st, cur, r),
           panicstr' = panicstr
    PROVE  CpuInv'
  <1> USE DEF Handling
  <1>0. /\ kernel_lock = c
        /\ \A d \in CPU : pc[d] \in InKernel => d = c
    BY DEF CpuInv, KernelMutex, InKernel
  <1>1. TypeCpu'
    BY ZeroIdType, LocationFacts DEF CpuInv, TypeCpu, sched_halt
  <1>2. KernelMutex'
    BY <1>0, KernelAssumption, LocationFacts
    DEF CpuInv, TypeCpu, KernelMutex, sched_halt
  <1>3. CpuConsistent'
    BY KernelAssumption DEF CpuInv, TypeCpu, CpuConsistent, Started, StartedPcs, sched_halt
  <1>4. Started'
    BY DEF CpuInv, TypeCpu, Started, StartedPcs, sched_halt
  <1> QED  BY <1>1, <1>2, <1>3, <1>4 DEF CpuInv

LEMMA SchedYieldBase ==
    ASSUME CpuInv, NEW c, Handling(c),
           NEW st \in [ENVS -> Status], NEW cur \in ENVS \cup {NULL},
           NEW r \in EnvId, sched_yield(c, st, cur, r),
           panicstr' = panicstr
    PROVE  CpuInv'
  <1>1. CASE \E e \in ENVS : env_run(c, e, st, cur, r)
    BY <1>1, EnvRunBase
  <1>2. CASE sched_halt(c, st, cur, r)
    BY <1>2, SchedHaltBase
  <1> QED  BY <1>1, <1>2 DEF sched_yield

LEMMA TrapReturnBase ==
    ASSUME CpuInv, NEW c, Handling(c),
           NEW st \in [ENVS -> Status], trap_return(c, st),
           panicstr' = panicstr
    PROVE  CpuInv'
  <1>1. curenv[c] \in ENVS \cup {NULL} /\ cr3[c] \in EnvId
    BY DEF CpuInv, TypeCpu, Handling
  <1>2. CASE curenv[c] \in ENVS /\ env_run(c, curenv[c], st, curenv[c], cr3[c])
    BY <1>1, <1>2, EnvRunBase
  <1>3. CASE sched_yield(c, st, curenv[c], cr3[c])
    BY <1>1, <1>3, SchedYieldBase
  <1> QED  BY <1>1, <1>2, <1>3 DEF trap_return

\* An environment that envid2env() finds is one of envs[].
LEMMA Envid2envType ==
    ASSUME BaseInv, NEW c \in CPU, pc[c] = "kernel", NEW id \in EnvId,
           NEW checkperm \in BOOLEAN
    PROVE  /\ curenv[c] \in ENVS
           /\ envid2env(c, id, checkperm) \in ENVS \cup {NULL}
  BY DEF BaseInv, CpuInv, TypeCpu, CpuConsistent, EnvId, envid2env

LEMMA EnvFreeType ==
    ASSUME TypeEnv, NEW e \in ENVS, env_free(e)
    PROVE  TypeEnv'
  BY DEF TypeEnv, env_free

LEMMA EnvDestroyBase ==
    ASSUME BaseInv, NEW c, Handling(c), pc[c] = "kernel", NEW e \in ENVS,
           env_destroy(c, e)
    PROVE  BaseInv'
  <1>1. /\ [env_status EXCEPT ![e] = "ENV_FREE"] \in [ENVS -> Status]
        /\ [env_status EXCEPT ![e] = "ENV_DYING"] \in [ENVS -> Status]
    BY DEF BaseInv, CpuInv, TypeCpu, Status
  <1>2. TypeEnv'
    BY EnvFreeType DEF env_destroy, envVars, TypeEnv, BaseInv
  <1>3. CpuInv'
    <2>1. panicstr' = panicstr
      BY DEF env_destroy
    <2> QED
      BY <1>1, <2>1, TrapReturnBase, SchedYieldBase, ZeroIdType
      DEF env_destroy, BaseInv
  <1> QED  BY <1>2, <1>3 DEF BaseInv

LEMMA BaseStep == ASSUME BaseInv, [Next]_vars PROVE BaseInv'
  <1> USE DEF BaseInv, Handling
  <1>0. CASE UNCHANGED vars
    BY <1>0 DEF vars, cpuVars, envVars, CpuInv, TypeCpu, TypeEnv, KernelMutex,
                CpuConsistent, Started
  <1> SUFFICES ASSUME NEW c \in CPU, Processor(c) \/ TrapFromUser(c)
               PROVE  BaseInv'
    BY <1>0 DEF Next
  <1>t. curenv[c] \in ENVS \cup {NULL} /\ cr3[c] \in EnvId
    BY DEF CpuInv, TypeCpu
  <1>1. CASE boot_aps(c)
    BY <1>1 DEF boot_aps, envVars, CpuInv, TypeCpu, TypeEnv, KernelMutex,
                CpuConsistent, Started, StartedPcs, InKernel, Location
  <1>2. CASE mp_main(c)
    BY <1>2 DEF mp_main, envVars, CpuInv, TypeCpu, TypeEnv, KernelMutex,
                CpuConsistent, Started, StartedPcs, InKernel, Location, Spinning
  <1>3. CASE c = BootCpu /\ i386_init
    <2> DEFINE created == {env_free_list[i] : i \in 1 .. NBOOT}
               st == [e \in ENVS |-> IF e \in created THEN "ENV_RUNNABLE"
                                                      ELSE env_status[e]]
    <2>1. st \in [ENVS -> Status]
      BY DEF CpuInv, TypeCpu, Status
    <2>2. TypeEnv'
      <3>1. env_free_list' \in Seq(ENVS)
        BY <1>3, KernelAssumption DEF i386_init, TypeEnv
      <3>2. \A g \in 0 .. MaxGen : NextGen(g) \in 0 .. MaxGen
        BY KernelAssumption DEF NextGen
      <3> HIDE DEF created
      <3>3. env_gen' = [e \in ENVS |-> IF e \in created THEN NextGen(env_gen[e])
                                                        ELSE env_gen[e]]
        BY <1>3 DEF i386_init, created
      <3>4. env_gen' \in [ENVS -> 0 .. MaxGen]
        BY <3>2, <3>3 DEF TypeEnv
      <3> QED  BY <1>3, <3>1, <3>4 DEF i386_init, TypeEnv
    <2>3. CpuInv'
      <3>1. sched_yield(c, st, curenv[c], cr3[c]) /\ panicstr' = panicstr
        BY <1>3 DEF i386_init
      <3>2. Handling(c)
        BY <1>3 DEF i386_init
      <3> HIDE DEF st
      <3> QED  BY <1>t, <2>1, <3>1, <3>2, SchedYieldBase
    <2> QED  BY <2>2, <2>3
  <1>4. CASE trap(c)
    <2>1. TypeCpu' /\ TypeEnv'
      BY <1>4 DEF trap, envVars, CpuInv, TypeCpu, TypeEnv, Location, Spinning
    <2>2. KernelMutex'
      BY <1>4 DEF trap, CpuInv, TypeCpu, KernelMutex, InKernel
    <2>3. CpuConsistent'
      BY <1>4 DEF trap, CpuInv, TypeCpu, CpuConsistent
    <2>4. Started'
      BY <1>4 DEF trap, CpuInv, TypeCpu, Started, StartedPcs
    <2> QED  BY <2>1, <2>2, <2>3, <2>4 DEF CpuInv
  <1>5. CASE lock_kernel(c)
    BY <1>5, KernelAssumption
       DEF lock_kernel, WithLock, envVars, CpuInv, TypeCpu, TypeEnv, KernelMutex,
           CpuConsistent, Started, StartedPcs, InKernel, Location, Spinning
  <1>6. CASE lcr3_and_iret(c)
    BY <1>6 DEF lcr3_and_iret, envVars, CpuInv, TypeCpu, TypeEnv, KernelMutex,
                CpuConsistent, Started, StartedPcs, InKernel, Location, EnvId, IdOf
  <1>7. CASE enter_scheduler(c)
    BY <1>7, <1>t, SchedYieldBase DEF enter_scheduler, envVars, TypeEnv, CpuInv, TypeCpu
  <1>8. CASE device_irq_in_kernel(c)
    BY <1>8 DEF device_irq_in_kernel, panic, envVars, CpuInv, TypeCpu, TypeEnv,
                KernelMutex, CpuConsistent, Started, StartedPcs, InKernel, Location
  <1>9. CASE monitor(c)
    BY <1>0, <1>9 DEF monitor
  <1>10. CASE free_zombie(c)
    <2>1. curenv[c] \in ENVS
      BY <1>10, <1>t DEF free_zombie, CpuInv, CpuConsistent
    <2>2. TypeEnv'
      BY <1>10, <2>1, EnvFreeType DEF free_zombie
    <2>3. [env_status EXCEPT ![curenv[c]] = "ENV_FREE"] \in [ENVS -> Status]
      BY DEF CpuInv, TypeCpu, Status
    <2> QED
      BY <1>10, <2>2, <2>3, ZeroIdType, SchedYieldBase DEF free_zombie
  <1>11. CASE harmless_trap(c)
    BY <1>11, TrapReturnBase
       DEF harmless_trap, dispatching, envVars, TypeEnv, CpuInv, TypeCpu
  <1>12. CASE timer_or_sys_yield(c)
    BY <1>12, <1>t, SchedYieldBase
       DEF timer_or_sys_yield, dispatching, envVars, TypeEnv, CpuInv, TypeCpu
  <1>13. CASE fault(c)
    BY <1>13, <1>t, EnvDestroyBase
       DEF fault, dispatching, CpuInv, CpuConsistent
  <1>14. CASE sys_exofork(c)
    <2> DEFINE e == Head(env_free_list)
    <2>1. /\ e \in ENVS
          /\ Tail(env_free_list) \in Seq(ENVS)
          /\ curenv[c] \in ENVS
      BY <1>14, <1>t
         DEF sys_exofork, dispatching, TypeEnv, CpuInv, CpuConsistent
    <2>2. IdOf(curenv[c]) \in EnvId /\ NextGen(env_gen[e]) \in 0 .. MaxGen
      BY <2>1, KernelAssumption DEF IdOf, EnvId, TypeEnv, NextGen
    <2>f. Followed(e) \in [ENVS -> 0 .. MaxGen]
      <3>1. MaxGen \in Nat /\ successors \in [ENVS -> 0 .. MaxGen]
        BY KernelAssumption DEF TypeEnv
      <3> QED
        BY <3>1 DEF Followed
    <2>3. TypeEnv'
      BY <1>14, <2>1, <2>2, <2>f DEF sys_exofork, TypeEnv
    <2>4. [env_status EXCEPT ![e] = "ENV_NOT_RUNNABLE"] \in [ENVS -> Status]
      BY <2>1 DEF CpuInv, TypeCpu, Status
    <2>5. /\ trap_return(c, [env_status EXCEPT ![e] = "ENV_NOT_RUNNABLE"])
          /\ panicstr' = panicstr
          /\ Handling(c)
      BY <1>14 DEF sys_exofork, dispatching
    <2> QED  BY <2>3, <2>4, <2>5, TrapReturnBase
  <1>15. CASE sys_ipc_recv(c)
    <2>1. TypeEnv'
      BY <1>15 DEF sys_ipc_recv, TypeEnv
    <2>2. [env_status EXCEPT ![curenv[c]] = "ENV_NOT_RUNNABLE"] \in [ENVS -> Status]
      BY DEF CpuInv, TypeCpu, Status
    <2> QED
      BY <1>15, <2>1, <2>2, TrapReturnBase DEF sys_ipc_recv, dispatching
  <1>16. ASSUME NEW id \in EnvId, sys_env_destroy(c, id)
         PROVE  BaseInv'
    BY <1>16, Envid2envType, EnvDestroyBase DEF sys_env_destroy, dispatching
  <1>17. ASSUME NEW id \in EnvId, sys_ipc_try_send(c, id)
         PROVE  BaseInv'
    <2>1. TypeEnv'
      BY <1>17 DEF sys_ipc_try_send, TypeEnv
    <2>2. \A e \in ENVS : [env_status EXCEPT ![e] = "ENV_RUNNABLE"] \in [ENVS -> Status]
      BY DEF CpuInv, TypeCpu, Status
    <2> QED
      BY <1>17, <2>1, <2>2, Envid2envType, TrapReturnBase
         DEF sys_ipc_try_send, dispatching
  <1>18. ASSUME NEW id \in EnvId,
                NEW s \in {"ENV_RUNNABLE", "ENV_NOT_RUNNABLE"},
                sys_env_set_status(c, id, s)
         PROVE  BaseInv'
    <2>1. TypeEnv'
      BY <1>18 DEF sys_env_set_status, TypeEnv, envVars
    <2>2. \A e \in ENVS : [env_status EXCEPT ![e] = s] \in [ENVS -> Status]
      BY DEF CpuInv, TypeCpu, Status
    <2> QED
      BY <1>18, <2>1, <2>2, Envid2envType, TrapReturnBase
         DEF sys_env_set_status, dispatching
  <1> QED
    BY <1>1, <1>2, <1>3, <1>4, <1>5, <1>6, <1>7, <1>8, <1>9, <1>10, <1>11,
       <1>12, <1>13, <1>14, <1>15, <1>16, <1>17, <1>18
    DEF Processor, TrapFromUser

LEMMA BaseInit == Init => BaseInv
  <1> SUFFICES ASSUME Init PROVE BaseInv
    OBVIOUS
  <1>1. env_free_list \in Seq(ENVS)
    BY KernelAssumption DEF Init, ENVS
  <1>2. TypeEnv
    BY <1>1, KernelAssumption, ZeroIdType DEF Init, TypeEnv
  <1>3. TypeCpu
    <2>1. BootCpu \in CPU
      BY KernelAssumption DEF CPU
    <2>2. "off" \in Location /\ "boot" \in Location
      BY DEF Location, InKernel
    <2> QED
      BY <2>1, <2>2, ZeroIdType DEF Init, TypeCpu, Status
  <1>4. KernelMutex /\ CpuConsistent /\ Started
    BY KernelAssumption
       DEF Init, KernelMutex, CpuConsistent, Started, StartedPcs, CPU, InKernel
  <1> QED  BY <1>2, <1>3, <1>4 DEF BaseInv, CpuInv

(***************************************************************************)
(* Whatever programs do, on any number of processors: the variables have   *)
(* their types (an env_id stays in its range when generations wrap, cr3    *)
(* and curenv name real slots), the big kernel lock excludes, and trap()   *)
(* meets a processor in the state that its assertion and its lock protocol *)
(* expect.                                                                 *)
(***************************************************************************)
THEOREM BaseCorrect == Spec => []MachineConsistent
  <1>1. Init => BaseInv
    BY BaseInit
  <1>2. BaseInv /\ [Next]_vars => BaseInv'
    BY BaseStep
  <1>3. BaseInv => MachineConsistent
    BY DEF BaseInv, CpuInv, TypeCpu, TypeEnv, TypeOK, MachineConsistent
  <1> QED  BY <1>1, <1>2, <1>3, PTL DEF Spec

-----------------------------------------------------------------------------
(***************************************************************************)
(* Part 2: what holds when programs use children as the library does.      *)
(* RunningIffCurrent and RunsOnOneCpu are inductive only together with the *)
(* free list (a slot that env_alloc() hands out is nobody's current one)   *)
(* and with ReceiverBlocked (a sender only ever wakes an environment that  *)
(* is not running).  BootState carries them over i386_init().              *)
(***************************************************************************)

BootState ==
    pc[BootCpu] = "boot" =>
        /\ env_status = [e \in ENVS |-> "ENV_FREE"]
        /\ env_free_list = [i \in 1 .. NENV |-> i - 1]
        /\ env_ipc_recving = [e \in ENVS |-> FALSE]

NotYetScheduled ==
    \A c \in CPU :
        pc[c] \in {"off", "mp_main", "mp_spin", "mp_kernel", "boot"} =>
            curenv[c] = NULL

SchedInv == RunsOnOneCpu /\ RunningIffCurrent

EnvInv ==
    /\ BaseInv
    /\ SchedInv
    /\ FreeListExact
    /\ ReceiverBlocked
    /\ MonitorQuiescent
    /\ ApsWaitForBoot
    /\ BootState
    /\ NotYetScheduled

Busy == {"ENV_RUNNING", "ENV_DYING"}

\* What a handler on processor c must leave behind, in st and cur, for the
\* scheduler: the other processors' environments, and no others, are busy.
Handover(c, st, cur) ==
    /\ \A e \in ENVS \ {cur} :
          st[e] \in Busy <=> \E d \in CPU \ {c} : curenv[d] = e
    /\ cur # NULL => /\ st[cur] \in {"ENV_RUNNING", "ENV_RUNNABLE",
                                      "ENV_NOT_RUNNABLE"}
                     /\ \A d \in CPU \ {c} : curenv[d] # cur

\* While c is in the kernel, nobody is in the monitor.
LEMMA NoMonitor ==
    ASSUME KernelMutex, NEW c, Handling(c)
    PROVE  \A d \in CPU : pc[d] # "monitor"
  BY DEF KernelMutex, Handling, InKernel

LEMMA EnvRunSched ==
    ASSUME BaseInv, SchedInv, NEW c, Handling(c), NEW e \in ENVS,
           NEW st \in [ENVS -> Status], NEW cur \in ENVS \cup {NULL},
           NEW r \in EnvId, env_run(c, e, st, cur, r),
           Handover(c, st, cur),
           \/ st[e] = "ENV_RUNNABLE"
           \/ st[e] = "ENV_RUNNING" /\ e = cur
    PROVE  /\ SchedInv'
           /\ MonitorQuiescent'
           /\ \A f \in ENVS : \A s \in {"ENV_FREE", "ENV_NOT_RUNNABLE"} :
                 env_status'[f] = s <=> st[f] = s
  <1> USE DEF Handling
  <1>1. \A d \in CPU \ {c} : curenv[d] # e
    BY KernelAssumption DEF Handover, Busy
  <1>2. /\ curenv' = [curenv EXCEPT ![c] = e]
        /\ pc' = [pc EXCEPT ![c] = "run"]
        /\ c \in CPU
        /\ \A d \in CPU : pc'[d] # "monitor"
    BY NoMonitor DEF env_run, BaseInv, CpuInv, TypeCpu
  <1>3. RunsOnOneCpu'
    BY <1>1, <1>2 DEF RunsOnOneCpu, SchedInv, BaseInv, CpuInv, TypeCpu
  <1>4. \A f \in ENVS : env_status'[f] =
           IF f = e THEN "ENV_RUNNING"
           ELSE IF f = cur /\ st[f] = "ENV_RUNNING" THEN "ENV_RUNNABLE" ELSE st[f]
    BY KernelAssumption DEF env_run
  <1>5. RunningIffCurrent'
    <2> SUFFICES ASSUME NEW f \in ENVS
                 PROVE  env_status'[f] \in Busy <=> \E d \in CPU : curenv'[d] = f
      BY <1>2 DEF RunningIffCurrent, Busy
    <2>1. CASE f = e
      BY <1>2, <1>4, <2>1 DEF Busy, BaseInv, CpuInv, TypeCpu
    <2>2. CASE f # e /\ f = cur
      BY <1>2, <1>4, <2>2, KernelAssumption
         DEF Busy, Handover, BaseInv, CpuInv, TypeCpu
    <2>3. CASE f # e /\ f # cur
      <3>1. env_status'[f] \in Busy <=> \E d \in CPU \ {c} : curenv[d] = f
        BY <1>4, <2>3 DEF Handover
      <3>2. (\E d \in CPU \ {c} : curenv[d] = f) <=> \E d \in CPU : curenv'[d] = f
        BY <1>2, <2>3 DEF BaseInv, CpuInv, TypeCpu
      <3> QED  BY <3>1, <3>2
    <2> QED  BY <2>1, <2>2, <2>3
  <1>6. MonitorQuiescent'
    BY <1>2 DEF MonitorQuiescent
  <1>7. \A f \in ENVS : \A s \in {"ENV_FREE", "ENV_NOT_RUNNABLE"} :
           env_status'[f] = s <=> st[f] = s
    BY <1>4
  <1> QED  BY <1>3, <1>5, <1>6, <1>7 DEF SchedInv

LEMMA SchedHaltSched ==
    ASSUME BaseInv, SchedInv, NEW c, Handling(c),
           NEW st \in [ENVS -> Status], NEW cur \in ENVS \cup {NULL},
           NEW r \in EnvId, sched_halt(c, st, cur, r),
           Handover(c, st, cur),
           ~(cur # NULL /\ st[cur] = "ENV_RUNNING"),
           \A e \in ENVS : st[e] # "ENV_RUNNABLE"
    PROVE  /\ SchedInv'
           /\ MonitorQuiescent'
           /\ \A f \in ENVS : env_status'[f] = st[f]
  <1> USE DEF Handling
  <1>1. /\ env_status' = st
        /\ c \in CPU
        /\ \A d \in CPU : pc[d] # "monitor"
        /\ \A d \in CPU \ {c} : curenv'[d] = curenv[d] /\ pc'[d] = pc[d]
    BY NoMonitor DEF sched_halt, BaseInv, CpuInv, TypeCpu
  <1>2. \/ curenv'[c] = NULL /\ pc'[c] = "halted"
        \/ curenv'[c] = cur /\ pc'[c] = "monitor" /\ NothingToRun(st)
    BY DEF sched_halt, BaseInv, CpuInv, TypeCpu
  <1>3. RunsOnOneCpu'
    BY <1>1, <1>2 DEF RunsOnOneCpu, SchedInv, Handover
  <1>4. RunningIffCurrent'
    <2> SUFFICES ASSUME NEW f \in ENVS
                 PROVE  st[f] \in Busy
                           <=> \E d \in CPU : curenv'[d] = f /\ pc'[d] # "monitor"
      BY <1>1 DEF RunningIffCurrent, Busy
    <2>1. (\E d \in CPU : curenv'[d] = f /\ pc'[d] # "monitor")
             <=> \E d \in CPU \ {c} : curenv[d] = f
      BY <1>1, <1>2, KernelAssumption
    <2>2. CASE f = cur
      BY <2>1, <2>2, KernelAssumption DEF Handover, Busy
    <2>3. CASE f # cur
      BY <2>1, <2>3 DEF Handover
    <2> QED  BY <2>2, <2>3
  <1>5. MonitorQuiescent'
    <2> SUFFICES ASSUME pc'[c] = "monitor", NEW d \in CPU,
                        pc'[d] \in {"user", "run", "spin", "kernel"}
                 PROVE  FALSE
      BY <1>1, <1>2 DEF MonitorQuiescent, NothingToRun
    <2>1. d # c /\ NothingToRun(st)
      BY <1>2
    <2>2. curenv[d] \in ENVS
      BY <1>1, <2>1 DEF BaseInv, CpuInv, TypeCpu, CpuConsistent
    <2>3. curenv[d] # cur
      BY <2>1, <2>2, KernelAssumption DEF Handover
    <2>4. st[curenv[d]] \in Busy
      BY <2>1, <2>2, <2>3 DEF Handover
    <2> QED  BY <2>1, <2>2, <2>4 DEF NothingToRun, Busy
  <1> QED  BY <1>1, <1>3, <1>4, <1>5 DEF SchedInv

LEMMA SchedYieldSched ==
    ASSUME BaseInv, SchedInv, NEW c, Handling(c),
           NEW st \in [ENVS -> Status], NEW cur \in ENVS \cup {NULL},
           NEW r \in EnvId, sched_yield(c, st, cur, r),
           Handover(c, st, cur)
    PROVE  /\ SchedInv'
           /\ MonitorQuiescent'
           /\ \A f \in ENVS : \A s \in {"ENV_FREE", "ENV_NOT_RUNNABLE"} :
                 env_status'[f] = s <=> st[f] = s
  <1>1. CASE \E e \in ENVS : st[e] = "ENV_RUNNABLE" /\ env_run(c, e, st, cur, r)
    BY <1>1, EnvRunSched
  <1>2. CASE cur # NULL /\ st[cur] = "ENV_RUNNING" /\ env_run(c, cur, st, cur, r)
    BY <1>2, EnvRunSched
  <1>3. CASE /\ \A e \in ENVS : st[e] # "ENV_RUNNABLE"
             /\ ~(cur # NULL /\ st[cur] = "ENV_RUNNING")
             /\ sched_halt(c, st, cur, r)
    BY <1>3, SchedHaltSched
  <1> QED  BY <1>1, <1>2, <1>3 DEF sched_yield

LEMMA TrapReturnSched ==
    ASSUME BaseInv, SchedInv, NEW c, Handling(c),
           NEW st \in [ENVS -> Status], trap_return(c, st),
           Handover(c, st, curenv[c])
    PROVE  /\ SchedInv'
           /\ MonitorQuiescent'
           /\ \A f \in ENVS : \A s \in {"ENV_FREE", "ENV_NOT_RUNNABLE"} :
                 env_status'[f] = s <=> st[f] = s
  <1>1. curenv[c] \in ENVS \cup {NULL} /\ cr3[c] \in EnvId
    BY DEF BaseInv, CpuInv, TypeCpu, Handling
  <1>2. CASE curenv[c] # NULL /\ st[curenv[c]] = "ENV_RUNNING"
    BY <1>1, <1>2, EnvRunSched DEF trap_return
  <1>3. CASE ~(curenv[c] # NULL /\ st[curenv[c]] = "ENV_RUNNING")
    BY <1>1, <1>3, SchedYieldSched DEF trap_return
  <1> QED  BY <1>2, <1>3

\* The free list l holds exactly the slots that st calls free, once each.
ListExact(l, st) ==
    /\ \A i, j \in 1 .. Len(l) : l[i] = l[j] => i = j
    /\ \A e \in ENVS : st[e] = "ENV_FREE" <=> \E i \in 1 .. Len(l) : l[i] = e

\* Leaving the kernel touches no other processor.
LEMMA ExitLocal ==
    ASSUME BaseInv, NEW c, Handling(c), NEW st, NEW cur, NEW r,
           sched_yield(c, st, cur, r) \/ trap_return(c, st)
    PROVE  \E l \in {"run", "halted", "monitor"} :
              /\ pc' = [pc EXCEPT ![c] = l]
              /\ \A d \in CPU \ {c} : curenv'[d] = curenv[d]
  BY DEF BaseInv, CpuInv, TypeCpu, Handling, sched_yield, trap_return, env_run,
         sched_halt

LEMMA HandlerDone ==
    ASSUME EnvInv, BaseInv', NEW c, Handling(c),
           NEW st \in [ENVS -> Status], NEW cur \in ENVS \cup {NULL},
           NEW r \in EnvId,
           \/ sched_yield(c, st, cur, r)
           \/ trap_return(c, st) /\ cur = curenv[c],
           Handover(c, st, cur),
           ListExact(env_free_list', st),
           \A e \in ENVS : env_ipc_recving'[e] =>
                              st[e] \in {"ENV_NOT_RUNNABLE", "ENV_FREE"}
    PROVE  EnvInv'
  <1>1. /\ SchedInv'
        /\ MonitorQuiescent'
        /\ \A f \in ENVS : \A s \in {"ENV_FREE", "ENV_NOT_RUNNABLE"} :
              env_status'[f] = s <=> st[f] = s
    BY SchedYieldSched, TrapReturnSched DEF EnvInv
  <1>2. FreeListExact'
    BY <1>1 DEF FreeListExact, ListExact
  <1>3. ReceiverBlocked'
    BY <1>1 DEF ReceiverBlocked
  <1>4. PICK l \in {"run", "halted", "monitor"} :
              /\ pc' = [pc EXCEPT ![c] = l]
              /\ \A d \in CPU \ {c} : curenv'[d] = curenv[d]
    BY ExitLocal DEF EnvInv
  <1>5. pc'[BootCpu] # "boot"
    BY <1>4, KernelAssumption
       DEF EnvInv, BaseInv, CpuInv, TypeCpu, KernelMutex, Handling, InKernel, CPU
  <1>6. BootState' /\ ApsWaitForBoot'
    BY <1>5 DEF BootState, ApsWaitForBoot
  <1>7. NotYetScheduled'
    BY <1>4 DEF NotYetScheduled, EnvInv, BaseInv, CpuInv, TypeCpu, Handling
  <1> QED  BY <1>1, <1>2, <1>3, <1>6, <1>7 DEF EnvInv

\* What trap() finds when it has the lock.
LEMMA InTrap ==
    ASSUME EnvInv, NEW c \in CPU, pc[c] = "kernel"
    PROVE  /\ Handling(c)
           /\ curenv[c] \in ENVS
           /\ cr3[c] \in EnvId
           /\ env_status[curenv[c]] \in Busy
           /\ ~env_ipc_recving[curenv[c]]
           /\ \A d \in CPU \ {c} : curenv[d] # curenv[c]
           /\ \A e \in ENVS \ {curenv[c]} :
                 env_status[e] \in Busy <=> \E d \in CPU \ {c} : curenv[d] = e
           /\ env_status \in [ENVS -> Status]
           /\ ListExact(env_free_list, env_status)
  <1> USE DEF EnvInv, BaseInv, CpuInv, SchedInv
  <1>1. /\ Handling(c)
        /\ curenv[c] \in ENVS
        /\ cr3[c] \in EnvId
        /\ env_status \in [ENVS -> Status]
    BY DEF TypeCpu, CpuConsistent, Handling
  <1>2. \A d \in CPU : pc[d] # "monitor"
    BY <1>1, NoMonitor
  <1>3. env_status[curenv[c]] \in Busy
    BY <1>1 DEF RunningIffCurrent, Busy
  <1>4. ~env_ipc_recving[curenv[c]]
    BY <1>1, <1>3 DEF ReceiverBlocked, Busy
  <1>5. \A d \in CPU \ {c} : curenv[d] # curenv[c]
    BY <1>1, KernelAssumption DEF RunsOnOneCpu
  <1>6. ASSUME NEW e \in ENVS \ {curenv[c]}
        PROVE  env_status[e] \in Busy <=> \E d \in CPU \ {c} : curenv[d] = e
    <2>1. env_status[e] \in Busy <=> \E d \in CPU : curenv[d] = e
      BY <1>2 DEF RunningIffCurrent, Busy
    <2> QED  BY <2>1, <1>6
  <1>7. ListExact(env_free_list, env_status)
    BY DEF FreeListExact, ListExact
  <1> QED  BY <1>1, <1>3, <1>4, <1>5, <1>6, <1>7

\* env_free(): a slot in use joins the free list.
LEMMA ListPush ==
    ASSUME NEW l \in Seq(ENVS), NEW st \in [ENVS -> Status], ListExact(l, st),
           NEW e \in ENVS, st[e] # "ENV_FREE"
    PROVE  ListExact(<<e>> \o l, [st EXCEPT ![e] = "ENV_FREE"])
  <1> DEFINE m == <<e>> \o l
  <1>1. /\ Len(m) = Len(l) + 1
        /\ Len(l) \in Nat
        /\ m[1] = e
        /\ \A i \in 2 .. Len(m) : i - 1 \in 1 .. Len(l) /\ m[i] = l[i - 1]
    OBVIOUS
  <1>2. \A i \in 1 .. Len(l) : l[i] # e /\ m[i + 1] = l[i] /\ i + 1 \in 1 .. Len(m)
    BY <1>1 DEF ListExact
  <1> HIDE DEF m
  <1>3. ASSUME NEW i \in 1 .. Len(m), NEW j \in 1 .. Len(m), m[i] = m[j]
        PROVE  i = j
    <2>1. CASE i = 1 /\ j = 1
      BY <2>1
    <2>2. CASE i = 1 /\ j \in 2 .. Len(m)
      BY <1>1, <1>2, <1>3, <2>2
    <2>3. CASE j = 1 /\ i \in 2 .. Len(m)
      BY <1>1, <1>2, <1>3, <2>3
    <2>4. CASE i \in 2 .. Len(m) /\ j \in 2 .. Len(m)
      BY <1>1, <1>3, <2>4 DEF ListExact
    <2> QED  BY <1>1, <2>1, <2>2, <2>3, <2>4
  <1>4. ASSUME NEW f \in ENVS
        PROVE  [st EXCEPT ![e] = "ENV_FREE"][f] = "ENV_FREE"
                  <=> \E i \in 1 .. Len(m) : m[i] = f
    <2>1. CASE f = e
      BY <1>1, <2>1
    <2>2. CASE f # e
      <3>1. ASSUME NEW i \in 1 .. Len(m), m[i] = f
            PROVE  \E j \in 1 .. Len(l) : l[j] = f
        <4>1. i \in 2 .. Len(m)
          BY <1>1, <2>2, <3>1
        <4> QED  BY <1>1, <3>1, <4>1
      <3>2. ASSUME NEW i \in 1 .. Len(l), l[i] = f
            PROVE  \E j \in 1 .. Len(m) : m[j] = f
        BY <1>2, <3>2
      <3> QED  BY <2>2, <3>1, <3>2 DEF ListExact
    <2> QED  BY <2>1, <2>2
  <1> QED  BY <1>3, <1>4 DEF ListExact, m

\* env_alloc(): the slot at the head leaves the free list.
LEMMA ListPop ==
    ASSUME NEW l \in Seq(ENVS), l # <<>>, NEW st \in [ENVS -> Status],
           ListExact(l, st), NEW s \in Status, s # "ENV_FREE"
    PROVE  /\ Head(l) \in ENVS
           /\ st[Head(l)] = "ENV_FREE"
           /\ ListExact(Tail(l), [st EXCEPT ![Head(l)] = s])
  <1> DEFINE t == Tail(l)
             h == Head(l)
  <1>1. /\ Len(l) \in Nat \ {0}
        /\ Len(t) = Len(l) - 1
        /\ h = l[1]
        /\ h \in ENVS
        /\ \A i \in 1 .. Len(t) : i + 1 \in 2 .. Len(l) /\ t[i] = l[i + 1]
    OBVIOUS
  <1>2. st[h] = "ENV_FREE"
    BY <1>1 DEF ListExact
  <1>3. \A i \in 1 .. Len(t) : t[i] # h
    BY <1>1 DEF ListExact
  <1>4. \A i \in 2 .. Len(l) : i - 1 \in 1 .. Len(t) /\ t[i - 1] = l[i]
    BY <1>1
  <1> HIDE DEF t, h
  <1>5. \A i, j \in 1 .. Len(t) : t[i] = t[j] => i = j
    BY <1>1 DEF ListExact
  <1>6. ASSUME NEW f \in ENVS
        PROVE  [st EXCEPT ![h] = s][f] = "ENV_FREE" <=> \E i \in 1 .. Len(t) : t[i] = f
    <2>1. CASE f = h
      BY <1>1, <1>3, <2>1
    <2>2. CASE f # h
      <3>1. ASSUME NEW i \in 1 .. Len(t), t[i] = f
            PROVE  \E j \in 1 .. Len(l) : l[j] = f
        <4>1. i + 1 \in 1 .. Len(l) /\ l[i + 1] = f
          BY <1>1, <3>1
        <4> QED  BY <4>1
      <3>2. ASSUME NEW i \in 1 .. Len(l), l[i] = f
            PROVE  \E j \in 1 .. Len(t) : t[j] = f
        <4>1. i \in 2 .. Len(l)
          BY <1>1, <2>2, <3>2
        <4> QED  BY <1>4, <3>2, <4>1
      <3> QED  BY <2>2, <3>1, <3>2 DEF ListExact
    <2> QED  BY <2>1, <2>2
  <1> QED  BY <1>1, <1>2, <1>5, <1>6 DEF ListExact, t, h

\* env_destroy() of an environment that is neither free nor a zombie.
LEMMA EnvDestroyStep ==
    ASSUME EnvInv, BaseInv', NEW c \in CPU, pc[c] = "kernel",
           env_status[curenv[c]] # "ENV_DYING", NEW e \in ENVS,
           env_status[e] \notin {"ENV_FREE", "ENV_DYING"}, env_destroy(c, e)
    PROVE  EnvInv'
  <1> USE InTrap
  <1> DEFINE freed == [env_status EXCEPT ![e] = "ENV_FREE"]
             dying == [env_status EXCEPT ![e] = "ENV_DYING"]
  <1>1. freed \in [ENVS -> Status] /\ dying \in [ENVS -> Status]
    BY DEF Status
  <1>2. env_free_list \in Seq(ENVS)
    BY DEF EnvInv, BaseInv, TypeEnv
  <1>3. CASE env_status[e] = "ENV_RUNNING" /\ e # curenv[c]
    <2>1. trap_return(c, dying) /\ UNCHANGED envVars
      BY <1>3 DEF env_destroy
    <2>2. Handover(c, dying, curenv[c])
      BY <1>3 DEF Handover, Busy
    <2>3. ListExact(env_free_list', dying)
      BY <1>3, <2>1 DEF ListExact, envVars
    <2>4. \A f \in ENVS : env_ipc_recving'[f] =>
                              dying[f] \in {"ENV_NOT_RUNNABLE", "ENV_FREE"}
      BY <1>3, <2>1 DEF envVars, EnvInv, ReceiverBlocked
    <2> HIDE DEF dying
    <2> QED  BY <1>1, <2>1, <2>2, <2>3, <2>4, HandlerDone
  <1>4. CASE e = curenv[c]
    <2>1. sched_yield(c, freed, NULL, boot_cr3) /\ env_free(e)
      BY <1>4 DEF env_destroy
    <2>2. Handover(c, freed, NULL)
      BY <1>4, KernelAssumption DEF Handover, Busy
    <2>3. ListExact(env_free_list', freed)
      BY <1>2, <1>4, <2>1, ListPush DEF env_free
    <2>4. \A f \in ENVS : env_ipc_recving'[f] =>
                              freed[f] \in {"ENV_NOT_RUNNABLE", "ENV_FREE"}
      BY <2>1 DEF env_free, EnvInv, ReceiverBlocked
    <2> HIDE DEF freed
    <2> QED  BY <1>1, <2>1, <2>2, <2>3, <2>4, HandlerDone, ZeroIdType
  <1>5. CASE env_status[e] # "ENV_RUNNING" /\ e # curenv[c]
    <2>1. trap_return(c, freed) /\ env_free(e)
      BY <1>5 DEF env_destroy
    <2>2. Handover(c, freed, curenv[c])
      BY <1>5 DEF Handover, Busy
    <2>3. ListExact(env_free_list', freed)
      BY <1>2, <1>5, <2>1, ListPush DEF env_free
    <2>4. \A f \in ENVS : env_ipc_recving'[f] =>
                              freed[f] \in {"ENV_NOT_RUNNABLE", "ENV_FREE"}
      BY <2>1 DEF env_free, EnvInv, ReceiverBlocked
    <2> HIDE DEF freed
    <2> QED  BY <1>1, <2>1, <2>2, <2>3, <2>4, HandlerDone
  <1> QED  BY <1>3, <1>4, <1>5

\* i386_init(): the first environments come off the head of the list.
LEMMA BootCreates ==
    ASSUME EnvInv, BaseInv', i386_init
    PROVE  EnvInv'
  <1> DEFINE created == {env_free_list[i] : i \in 1 .. NBOOT}
             st == [e \in ENVS |-> IF e \in created THEN "ENV_RUNNABLE"
                                                    ELSE env_status[e]]
  <1>1. /\ BootCpu \in CPU
        /\ Handling(BootCpu)
        /\ pc[BootCpu] = "boot"
        /\ cr3[BootCpu] \in EnvId
        /\ curenv[BootCpu] = NULL
    <2>1. BootCpu \in CPU
      BY KernelAssumption DEF CPU
    <2>2. pc[BootCpu] = "boot"
      BY DEF i386_init
    <2>3. cr3[BootCpu] \in EnvId
      BY <2>1 DEF EnvInv, BaseInv, CpuInv, TypeCpu
    <2>4. curenv[BootCpu] = NULL
      BY <2>1, <2>2 DEF EnvInv, NotYetScheduled
    <2> QED  BY <2>1, <2>2, <2>3, <2>4 DEF Handling
  <1>2. /\ env_status = [e \in ENVS |-> "ENV_FREE"]
        /\ env_free_list = [i \in 1 .. NENV |-> i - 1]
        /\ env_ipc_recving = [e \in ENVS |-> FALSE]
    BY <1>1 DEF EnvInv, BootState
  <1>3. \A e \in ENVS : st[e] = IF e < NBOOT THEN "ENV_RUNNABLE" ELSE "ENV_FREE"
    <2>1. \A e \in ENVS : e \in created <=> e < NBOOT
      <3>1. \A i \in 1 .. NBOOT : env_free_list[i] = i - 1
        BY <1>2, KernelAssumption
      <3>2. ASSUME NEW e \in ENVS, e < NBOOT
            PROVE  e \in created
        <4>1. e + 1 \in 1 .. NBOOT /\ env_free_list[e + 1] = e
          BY <3>1, <3>2, KernelAssumption DEF ENVS
        <4> QED  BY <4>1
      <3>3. ASSUME NEW e \in ENVS, e \in created
            PROVE  e < NBOOT
        <4>1. PICK i \in 1 .. NBOOT : e = env_free_list[i]
          BY <3>3
        <4> QED  BY <3>1, <4>1, KernelAssumption
      <3> QED  BY <3>2, <3>3
    <2> QED  BY <1>2, <2>1
  <1>4. st \in [ENVS -> Status]
    BY <1>2 DEF Status
  <1>5. /\ sched_yield(BootCpu, st, NULL, cr3[BootCpu])
        /\ env_ipc_recving' = env_ipc_recving
        /\ env_free_list' = SubSeq(env_free_list, NBOOT + 1, Len(env_free_list))
    BY <1>1 DEF i386_init
  <1> HIDE DEF st
  <1>6. Handover(BootCpu, st, NULL)
    <2>1. \A d \in CPU : curenv[d] = NULL
      BY <1>1 DEF EnvInv, ApsWaitForBoot, NotYetScheduled
    <2> QED  BY <1>3, <2>1, KernelAssumption DEF Handover, Busy
  <1>7. ListExact(env_free_list', st)
    <2>1. /\ Len(env_free_list) = NENV
          /\ env_free_list \in Seq(ENVS)
      BY <1>2, KernelAssumption DEF EnvInv, BaseInv, TypeEnv
    <2>2. /\ Len(env_free_list') = NENV - NBOOT
          /\ \A i \in 1 .. NENV - NBOOT : env_free_list'[i] = NBOOT + i - 1
      BY <1>2, <1>5, <2>1, KernelAssumption
    <2>3. \A i, j \in 1 .. NENV - NBOOT : env_free_list'[i] = env_free_list'[j] => i = j
      BY <2>2, KernelAssumption
    <2>4. ASSUME NEW e \in ENVS
          PROVE  st[e] = "ENV_FREE" <=> \E i \in 1 .. NENV - NBOOT : env_free_list'[i] = e
      <3>1. CASE e < NBOOT
        BY <1>3, <2>2, <3>1, KernelAssumption DEF ENVS
      <3>2. CASE ~(e < NBOOT)
        <4>1. e - NBOOT + 1 \in 1 .. NENV - NBOOT
          BY <3>2, KernelAssumption DEF ENVS
        <4>2. env_free_list'[e - NBOOT + 1] = e
          BY <2>2, <4>1, KernelAssumption DEF ENVS
        <4> QED  BY <1>3, <3>2, <4>1, <4>2
      <3> QED  BY <3>1, <3>2
    <2> QED  BY <2>2, <2>3, <2>4 DEF ListExact
  <1>8. \A e \in ENVS : ~env_ipc_recving'[e]
    BY <1>2, <1>5
  <1> QED  BY <1>1, <1>4, <1>5, <1>6, <1>7, <1>8, HandlerDone

\* A step that changes neither the environments nor anybody's curenv.
LEMMA ProcessorMoves ==
    ASSUME EnvInv, BaseInv', NEW c \in CPU,
           UNCHANGED <<env_status, envVars, curenv>>,
           \A d \in CPU \ {c} : pc'[d] = pc[d],
           pc'[c] \notin {"monitor", "boot", "off"}, pc[c] # "monitor",
           pc'[c] \in {"mp_main", "mp_spin", "mp_kernel"} =>
               pc[c] \in {"off", "mp_main", "mp_spin"},
           pc'[c] \in {"user", "run", "spin", "kernel"} =>
               pc[c] \in {"user", "run", "spin", "kernel"},
           pc[BootCpu] = "boot" =>
               c # BootCpu /\ pc'[c] \in {"mp_main", "mp_spin"}
    PROVE  EnvInv'
  <1> USE DEF EnvInv, BaseInv, CpuInv, TypeCpu
  <1>1. SchedInv'
    BY DEF SchedInv, RunsOnOneCpu, RunningIffCurrent
  <1>2. FreeListExact' /\ ReceiverBlocked'
    BY DEF FreeListExact, ReceiverBlocked, envVars
  <1>3. MonitorQuiescent'
    BY DEF MonitorQuiescent, NothingToRun
  <1>4. ApsWaitForBoot'
    BY KernelAssumption DEF ApsWaitForBoot, CPU
  <1>5. BootState'
    BY KernelAssumption DEF BootState, envVars, CPU
  <1>6. NotYetScheduled'
    BY DEF NotYetScheduled
  <1> QED  BY <1>1, <1>2, <1>3, <1>4, <1>5, <1>6

LEMMA EnvStep == ASSUME Disciplined, ~KillsZombies, EnvInv, [Next]_vars PROVE EnvInv'
  <1>b. BaseInv'
    BY BaseStep DEF EnvInv
  <1>0. CASE UNCHANGED vars
    <2> USE <1>0 DEF vars, cpuVars, envVars
    <2>1. SchedInv' /\ FreeListExact' /\ ReceiverBlocked'
      BY DEF EnvInv, SchedInv, RunsOnOneCpu, RunningIffCurrent, FreeListExact,
             ReceiverBlocked
    <2>2. MonitorQuiescent' /\ ApsWaitForBoot' /\ BootState' /\ NotYetScheduled'
      BY DEF EnvInv, MonitorQuiescent, NothingToRun, ApsWaitForBoot, BootState,
             NotYetScheduled
    <2> QED  BY <1>b, <2>1, <2>2 DEF EnvInv
  <1> SUFFICES ASSUME NEW c \in CPU, Processor(c) \/ TrapFromUser(c)
               PROVE  EnvInv'
    BY <1>0 DEF Next
  <1>p. pc \in [CPU -> Location] /\ BootCpu \in CPU
    BY KernelAssumption DEF EnvInv, BaseInv, CpuInv, TypeCpu, CPU
  <1>1. CASE boot_aps(c)
    BY <1>1, <1>b, <1>p, ProcessorMoves DEF boot_aps
  <1>2. CASE mp_main(c)
    BY <1>2, <1>b, <1>p, ProcessorMoves DEF mp_main
  <1>3. CASE c = BootCpu /\ i386_init
    BY <1>3, <1>b, BootCreates
  <1>4. CASE trap(c)
    <2>1. pc[BootCpu] # "boot"
      BY <1>4 DEF trap, EnvInv, ApsWaitForBoot
    <2> QED  BY <1>4, <1>b, <1>p, <2>1, ProcessorMoves DEF trap
  <1>5. CASE lock_kernel(c)
    <2>1. pc[BootCpu] # "boot"
      BY <1>5, KernelAssumption
         DEF lock_kernel, EnvInv, BaseInv, CpuInv, KernelMutex, InKernel, CPU
    <2> QED  BY <1>5, <1>b, <1>p, <2>1, ProcessorMoves DEF lock_kernel, WithLock, Spinning
  <1>6. CASE lcr3_and_iret(c)
    <2>1. pc[BootCpu] # "boot"
      BY <1>6 DEF lcr3_and_iret, EnvInv, ApsWaitForBoot
    <2> QED  BY <1>6, <1>b, <1>p, <2>1, ProcessorMoves DEF lcr3_and_iret
  <1>7. CASE enter_scheduler(c)
    <2>1. /\ Handling(c)
          /\ curenv[c] = NULL
          /\ cr3[c] \in EnvId
          /\ env_status \in [ENVS -> Status]
      BY <1>7 DEF enter_scheduler, Handling, EnvInv, NotYetScheduled, BaseInv,
                  CpuInv, TypeCpu, CpuConsistent
    <2>2. sched_yield(c, env_status, NULL, cr3[c]) /\ UNCHANGED envVars
      BY <1>7, <2>1 DEF enter_scheduler
    <2>3. Handover(c, env_status, NULL)
      <3>1. \A d \in CPU : pc[d] # "monitor"
        BY <2>1, NoMonitor DEF EnvInv, BaseInv, CpuInv
      <3> SUFFICES ASSUME NEW e \in ENVS
                   PROVE  env_status[e] \in Busy <=> \E d \in CPU \ {c} : curenv[d] = e
        BY DEF Handover
      <3>2. env_status[e] \in Busy <=> \E d \in CPU : curenv[d] = e
        BY <3>1 DEF EnvInv, SchedInv, RunningIffCurrent, Busy
      <3> QED  BY <2>1, <3>2, KernelAssumption
    <2>4. ListExact(env_free_list', env_status)
      BY <2>2 DEF envVars, EnvInv, FreeListExact, ListExact
    <2> QED
      BY <1>b, <2>1, <2>2, <2>3, <2>4, HandlerDone
      DEF envVars, EnvInv, ReceiverBlocked
  <1>8. CASE device_irq_in_kernel(c)
    <2>1. pc[BootCpu] # "boot"
      BY <1>8 DEF device_irq_in_kernel, EnvInv, ApsWaitForBoot
    <2> QED  BY <1>8, <1>b, <1>p, <2>1, ProcessorMoves DEF device_irq_in_kernel, panic
  <1>9. CASE monitor(c)
    BY <1>0, <1>9 DEF monitor
  <1>10. CASE free_zombie(c)
    <2> DEFINE st == [env_status EXCEPT ![curenv[c]] = "ENV_FREE"]
    <2>1. pc[c] = "kernel" /\ env_status[curenv[c]] = "ENV_DYING"
      BY <1>10 DEF free_zombie
    <2>2. st \in [ENVS -> Status] /\ env_free_list \in Seq(ENVS)
      BY <2>1, InTrap DEF Status, EnvInv, BaseInv, TypeEnv
    <2>3. sched_yield(c, st, NULL, boot_cr3) /\ env_free(curenv[c])
      BY <1>10 DEF free_zombie
    <2>4. Handover(c, st, NULL)
      BY <2>1, InTrap, KernelAssumption DEF Handover, Busy
    <2>5. ListExact(env_free_list', st)
      BY <2>1, <2>2, <2>3, InTrap, ListPush DEF env_free
    <2>6. \A f \in ENVS : env_ipc_recving'[f] =>
                              st[f] \in {"ENV_NOT_RUNNABLE", "ENV_FREE"}
      BY <2>1, <2>3, InTrap DEF env_free, EnvInv, ReceiverBlocked
    <2> HIDE DEF st
    <2> QED
      BY <1>b, <2>1, <2>2, <2>3, <2>4, <2>5, <2>6, InTrap, HandlerDone, ZeroIdType
  <1>d. ASSUME dispatching(c)
        PROVE  /\ pc[c] = "kernel"
               /\ Handling(c)
               /\ curenv[c] \in ENVS
               /\ curenv[c] # NULL
               /\ cr3[c] \in EnvId
               /\ env_status[curenv[c]] = "ENV_RUNNING"
               /\ env_status \in [ENVS -> Status]
               /\ Handover(c, env_status, curenv[c])
               /\ ListExact(env_free_list, env_status)
               /\ ~env_ipc_recving[curenv[c]]
    BY <1>d, InTrap, KernelAssumption DEF dispatching, Busy, Handover
  <1>11. CASE harmless_trap(c)
    BY <1>11, <1>b, <1>d, HandlerDone
       DEF harmless_trap, envVars, EnvInv, ReceiverBlocked
  <1>12. CASE timer_or_sys_yield(c)
    BY <1>12, <1>b, <1>d, HandlerDone
       DEF timer_or_sys_yield, envVars, EnvInv, ReceiverBlocked
  <1>13. CASE fault(c)
    BY <1>13, <1>b, <1>d, EnvDestroyStep DEF fault
  <1>14. CASE sys_exofork(c)
    <2> DEFINE e == Head(env_free_list)
               st == [env_status EXCEPT ![e] = "ENV_NOT_RUNNABLE"]
    <2>1. /\ dispatching(c)
          /\ env_free_list # <<>>
          /\ env_free_list' = Tail(env_free_list)
          /\ env_ipc_recving' = [env_ipc_recving EXCEPT ![e] = FALSE]
          /\ trap_return(c, st)
      BY <1>14 DEF sys_exofork
    <2>2. env_free_list \in Seq(ENVS) /\ env_ipc_recving \in [ENVS -> BOOLEAN]
      BY DEF EnvInv, BaseInv, TypeEnv
    <2>3. /\ e \in ENVS
          /\ env_status[e] = "ENV_FREE"
          /\ ListExact(env_free_list', st)
      BY <1>d, <2>1, <2>2, ListPop DEF Status
    <2>4. st \in [ENVS -> Status]
      BY <1>d, <2>1 DEF Status
    <2> HIDE DEF e
    <2>5. Handover(c, st, curenv[c])
      BY <1>d, <2>1, <2>3 DEF Handover, Busy
    <2>6. \A f \in ENVS : env_ipc_recving'[f] =>
                              st[f] \in {"ENV_NOT_RUNNABLE", "ENV_FREE"}
      BY <1>d, <2>1, <2>2, <2>3 DEF EnvInv, ReceiverBlocked
    <2> HIDE DEF st
    <2> QED
      BY <1>b, <1>d, <2>1, <2>3, <2>4, <2>5, <2>6, HandlerDone
  <1>15. CASE sys_ipc_recv(c)
    <2> DEFINE st == [env_status EXCEPT ![curenv[c]] = "ENV_NOT_RUNNABLE"]
    <2>1. /\ dispatching(c)
          /\ env_free_list' = env_free_list
          /\ env_ipc_recving' = [env_ipc_recving EXCEPT ![curenv[c]] = TRUE]
          /\ trap_return(c, st)
      BY <1>15 DEF sys_ipc_recv
    <2>2. env_ipc_recving \in [ENVS -> BOOLEAN]
      BY DEF EnvInv, BaseInv, TypeEnv
    <2>3. st \in [ENVS -> Status]
      BY <1>d, <2>1 DEF Status
    <2>4. Handover(c, st, curenv[c])
      BY <1>d, <2>1 DEF Handover, Busy
    <2>5. ListExact(env_free_list', st)
      BY <1>d, <2>1 DEF ListExact
    <2>6. \A f \in ENVS : env_ipc_recving'[f] =>
                              st[f] \in {"ENV_NOT_RUNNABLE", "ENV_FREE"}
      BY <1>d, <2>1, <2>2 DEF EnvInv, ReceiverBlocked
    <2> HIDE DEF st
    <2> QED
      BY <1>b, <1>d, <2>1, <2>3, <2>4, <2>5, <2>6, HandlerDone
  <1>16. ASSUME NEW id \in EnvId, sys_env_destroy(c, id)
         PROVE  EnvInv'
    <2> DEFINE e == envid2env(c, id, TRUE)
    <2>1. /\ dispatching(c)
          /\ e # NULL
          /\ env_status[e] # "ENV_DYING"
          /\ env_destroy(c, e)
      BY <1>16 DEF sys_env_destroy
    <2>2. e \in ENVS /\ env_status[e] # "ENV_FREE"
      BY <1>d, <2>1, Envid2envType DEF EnvInv, envid2env
    <2> HIDE DEF e
    <2> QED  BY <1>b, <1>d, <2>1, <2>2, EnvDestroyStep
  <1>17. ASSUME NEW id \in EnvId, sys_ipc_try_send(c, id)
         PROVE  EnvInv'
    <2> DEFINE e == envid2env(c, id, FALSE)
               st == [env_status EXCEPT ![e] = "ENV_RUNNABLE"]
    <2>1. /\ dispatching(c)
          /\ e # NULL
          /\ env_ipc_recving[e]
          /\ env_free_list' = env_free_list
          /\ env_ipc_recving' = [env_ipc_recving EXCEPT ![e] = FALSE]
          /\ trap_return(c, st)
      BY <1>17 DEF sys_ipc_try_send
    <2>2. e \in ENVS /\ env_status[e] # "ENV_FREE"
      BY <1>d, <2>1, Envid2envType DEF EnvInv, envid2env
    <2> HIDE DEF e
    <2>3. env_status[e] = "ENV_NOT_RUNNABLE" /\ e # curenv[c]
      BY <1>d, <2>1, <2>2 DEF EnvInv, ReceiverBlocked
    <2>4. env_ipc_recving \in [ENVS -> BOOLEAN]
      BY DEF EnvInv, BaseInv, TypeEnv
    <2>5. st \in [ENVS -> Status]
      BY <1>d, <2>1 DEF Status
    <2>6. Handover(c, st, curenv[c])
      BY <1>d, <2>1, <2>3 DEF Handover, Busy
    <2>7. ListExact(env_free_list', st)
      BY <1>d, <2>1, <2>3 DEF ListExact
    <2>8. \A f \in ENVS : env_ipc_recving'[f] =>
                              st[f] \in {"ENV_NOT_RUNNABLE", "ENV_FREE"}
      BY <1>d, <2>1, <2>4 DEF EnvInv, ReceiverBlocked
    <2> HIDE DEF st
    <2> QED
      BY <1>b, <1>d, <2>1, <2>5, <2>6, <2>7, <2>8, HandlerDone
  <1>18. ASSUME NEW id \in EnvId,
                NEW s \in {"ENV_RUNNABLE", "ENV_NOT_RUNNABLE"},
                sys_env_set_status(c, id, s)
         PROVE  EnvInv'
    <2> DEFINE e == envid2env(c, id, TRUE)
               st == [env_status EXCEPT ![e] = s]
    <2>1. /\ dispatching(c)
          /\ e # NULL
          /\ s = "ENV_RUNNABLE"
          /\ env_status[e] = "ENV_NOT_RUNNABLE"
          /\ ~env_ipc_recving[e]
          /\ UNCHANGED envVars
          /\ trap_return(c, st)
      BY <1>18 DEF sys_env_set_status
    <2>2. e \in ENVS
      BY <1>d, <2>1, Envid2envType DEF EnvInv
    <2> HIDE DEF e
    <2>3. st \in [ENVS -> Status]
      BY <1>d, <2>1 DEF Status
    <2>4. Handover(c, st, curenv[c])
      BY <1>d, <2>1 DEF Handover, Busy
    <2>5. ListExact(env_free_list', st)
      BY <1>d, <2>1 DEF ListExact, envVars
    <2>6. \A f \in ENVS : env_ipc_recving'[f] =>
                              st[f] \in {"ENV_NOT_RUNNABLE", "ENV_FREE"}
      BY <1>d, <2>1 DEF EnvInv, ReceiverBlocked, envVars
    <2> HIDE DEF st
    <2> QED
      BY <1>b, <1>d, <2>1, <2>3, <2>4, <2>5, <2>6, HandlerDone
  <1> QED
    BY <1>1, <1>2, <1>3, <1>4, <1>5, <1>6, <1>7, <1>8, <1>9, <1>10, <1>11,
       <1>12, <1>13, <1>14, <1>15, <1>16, <1>17, <1>18
    DEF Processor, TrapFromUser

LEMMA EnvInit == Init => EnvInv
  <1> SUFFICES ASSUME Init PROVE EnvInv
    OBVIOUS
  <1> USE DEF Init
  <1>1. BaseInv
    BY BaseInit
  <1>2. SchedInv
    BY KernelAssumption DEF SchedInv, RunsOnOneCpu, RunningIffCurrent
  <1>3. FreeListExact
    <2>1. env_free_list \in Seq(ENVS) /\ Len(env_free_list) = NENV
      BY <1>1, KernelAssumption DEF BaseInv, TypeEnv
    <2>2. ASSUME NEW e \in ENVS
          PROVE  \E i \in 1 .. NENV : env_free_list[i] = e
      <3>1. e + 1 \in 1 .. NENV /\ env_free_list[e + 1] = e
        BY KernelAssumption DEF ENVS
      <3> QED  BY <3>1
    <2> QED  BY <2>1, <2>2, KernelAssumption DEF FreeListExact
  <1>4. ReceiverBlocked /\ MonitorQuiescent /\ ApsWaitForBoot
    BY DEF ReceiverBlocked, MonitorQuiescent, ApsWaitForBoot
  <1>5. BootState /\ NotYetScheduled
    BY DEF BootState, NotYetScheduled
  <1> QED  BY <1>1, <1>2, <1>3, <1>4, <1>5 DEF EnvInv

(***************************************************************************)
(* With programs that start a child once and destroy it once, on any       *)
(* number of processors: no environment runs twice, RUNNING and DYING mean *)
(* what they say, the free list holds exactly the free slots, a receiver   *)
(* stays blocked, a processor that stops for lack of work is right, and    *)
(* the APs wait for the first environments.                                *)
(***************************************************************************)
THEOREM EnvCorrect ==
    ASSUME Disciplined, ~KillsZombies
    PROVE  Spec => [](EnvsConsistent /\ FreeListExact)
  <1>1. Init => EnvInv
    BY EnvInit
  <1>2. EnvInv /\ [Next]_vars => EnvInv'
    BY EnvStep
  <1>3. EnvInv => EnvsConsistent /\ FreeListExact
    BY DEF EnvInv, SchedInv, EnvsConsistent
  <1> QED  BY <1>1, <1>2, <1>3, PTL DEF Spec

(***************************************************************************)
(* env_alloc() and env_free() keep the list of free environments exact:    *)
(* every free one is on it once and no other is, so that no slot of envs[] *)
(* is handed out twice or lost, however many processors and environments   *)
(* there are.  The same invariant as above is needed: an environment is    *)
(* freed only by one that ends itself or its child.                        *)
(***************************************************************************)
THEOREM FreeListCorrect ==
    ASSUME Disciplined, ~KillsZombies
    PROVE  Spec => []FreeListExact
  <1>1. Init => EnvInv
    BY EnvInit
  <1>2. EnvInv /\ [Next]_vars => EnvInv'
    BY EnvStep
  <1>3. EnvInv => FreeListExact
    BY DEF EnvInv, SchedInv
  <1> QED  BY <1>1, <1>2, <1>3, PTL DEF Spec

-----------------------------------------------------------------------------
(***************************************************************************)
(* Part 3: page tables.                                                    *)
(***************************************************************************)

\* A processor that came out of env_run() has the page tables of its current
\* environment, in its present life.
OwnPageTables ==
    \A c \in CPU : pc[c] \in {"user", "spin", "kernel"} => cr3[c] = IdOf(curenv[c])

\* Leaving the kernel leaves the page tables of other processors alone.
LEMMA ExitCr3 ==
    ASSUME BaseInv, NEW c, Handling(c), NEW st, NEW cur, NEW r,
           sched_yield(c, st, cur, r) \/ trap_return(c, st)
    PROVE  /\ pc'[c] \in {"run", "halted", "monitor"}
           /\ \A d \in CPU \ {c} : /\ pc'[d] = pc[d]
                                   /\ curenv'[d] = curenv[d]
                                   /\ cr3'[d] = cr3[d]
  BY DEF BaseInv, CpuInv, TypeCpu, Handling, sched_yield, trap_return, env_run,
         sched_halt

\* Every trap handler ends in the scheduler or in a return to its environment.
LEMMA HandlerLeaves ==
    ASSUME BaseInv, NEW c \in CPU, TrapFromUser(c)
    PROVE  /\ pc[c] = "kernel"
           /\ curenv[c] \in ENVS
           /\ \E st, cur, r : sched_yield(c, st, cur, r) \/ trap_return(c, st)
  <1> DEFINE Leaves == \E st, cur, r : sched_yield(c, st, cur, r) \/ trap_return(c, st)
  <1>0. ASSUME NEW st, NEW cur, NEW r, sched_yield(c, st, cur, r) \/ trap_return(c, st)
        PROVE  Leaves
    BY <1>0
  <1> HIDE DEF Leaves
  <1>1. pc[c] = "kernel"
    BY DEF TrapFromUser, free_zombie, harmless_trap, timer_or_sys_yield, fault,
           sys_exofork, sys_ipc_recv, sys_env_destroy, sys_ipc_try_send,
           sys_env_set_status, dispatching
  <1>2. curenv[c] \in ENVS
    BY <1>1 DEF BaseInv, CpuInv, TypeCpu, CpuConsistent
  <1> SUFFICES Leaves
    BY <1>1, <1>2 DEF Leaves
  <1>3. CASE free_zombie(c) \/ harmless_trap(c) \/ timer_or_sys_yield(c)
    BY <1>0, <1>3 DEF free_zombie, harmless_trap, timer_or_sys_yield
  <1>4. ASSUME NEW e, env_destroy(c, e)
        PROVE  Leaves
    BY <1>0, <1>4 DEF env_destroy
  <1>5. CASE fault(c)
    BY <1>4, <1>5 DEF fault
  <1>6. CASE sys_exofork(c) \/ sys_ipc_recv(c)
    BY <1>0, <1>6 DEF sys_exofork, sys_ipc_recv
  <1>7. ASSUME NEW id \in EnvId,
               \/ sys_env_destroy(c, id)
               \/ sys_ipc_try_send(c, id)
               \/ \E s \in {"ENV_RUNNABLE", "ENV_NOT_RUNNABLE"} :
                     sys_env_set_status(c, id, s)
        PROVE  Leaves
    BY <1>0, <1>4, <1>7 DEF sys_env_destroy, sys_ipc_try_send, sys_env_set_status
  <1> QED
    BY <1>3, <1>5, <1>6, <1>7 DEF TrapFromUser

\* The slots whose env_id a trap handler changes are free: nobody's curenv.
LEMMA HandlerGen ==
    ASSUME EnvInv, NEW c \in CPU, TrapFromUser(c), NEW e \in ENVS,
           env_status[e] # "ENV_FREE"
    PROVE  env_gen'[e] = env_gen[e]
  <1>1. CASE sys_exofork(c)
    <2>1. env_status[Head(env_free_list)] = "ENV_FREE"
      BY <1>1, InTrap, ListPop
         DEF sys_exofork, dispatching, EnvInv, BaseInv, TypeEnv, Status
    <2> QED  BY <1>1, <2>1 DEF sys_exofork, EnvInv, BaseInv, TypeEnv
  <1>2. CASE ~sys_exofork(c)
    BY <1>2
    DEF TrapFromUser, free_zombie, harmless_trap, timer_or_sys_yield, fault,
        sys_ipc_recv, sys_env_destroy, sys_ipc_try_send, sys_env_set_status,
        env_destroy, env_free, envVars
  <1> QED  BY <1>1, <1>2

LEMMA OwnPageTablesStep ==
    ASSUME EnvInv, OwnPageTables, [Next]_vars
    PROVE  OwnPageTables'
  <1> USE DEF OwnPageTables, IdOf
  <1>0. CASE UNCHANGED vars
    BY <1>0 DEF vars, envVars, cpuVars
  <1> SUFFICES ASSUME NEW c \in CPU, Processor(c) \/ TrapFromUser(c)
               PROVE  OwnPageTables'
    BY <1>0 DEF Next
  <1>t. /\ pc \in [CPU -> Location] /\ cr3 \in [CPU -> EnvId]
        /\ curenv \in [CPU -> ENVS \cup {NULL}]
    BY DEF EnvInv, BaseInv, CpuInv, TypeCpu
  <1>1. ASSUME Handling(c), NEW st, NEW cur, NEW r,
               sched_yield(c, st, cur, r) \/ trap_return(c, st),
               \A d \in CPU \ {c} : pc[d] \in {"user", "spin", "kernel"} =>
                   env_gen'[curenv[d]] = env_gen[curenv[d]]
        PROVE  OwnPageTables'
    BY <1>1, ExitCr3 DEF EnvInv
  <1>2. CASE lcr3_and_iret(c)
    BY <1>2, <1>t DEF lcr3_and_iret, envVars
  <1>3. CASE enter_scheduler(c)
    BY <1>1, <1>3 DEF enter_scheduler, envVars, Handling
  <1>4. CASE c = BootCpu /\ i386_init
    <2>1. Handling(c)
      BY <1>4 DEF i386_init, Handling
    <2>2. \A d \in CPU \ {c} : pc[d] \notin {"user", "spin", "kernel"}
      BY <1>4 DEF i386_init, EnvInv, ApsWaitForBoot
    <2> QED  BY <1>1, <1>4, <2>1, <2>2 DEF i386_init
  <1>5. CASE TrapFromUser(c)
    <2>1. Handling(c)
      BY <1>5, HandlerLeaves DEF Handling, EnvInv
    <2>2. ASSUME NEW d \in CPU \ {c}, pc[d] \in {"user", "spin", "kernel"}
          PROVE  env_gen'[curenv[d]] = env_gen[curenv[d]]
      <3>1. curenv[d] \in ENVS
        BY <1>t, <2>2 DEF EnvInv, BaseInv, CpuInv, CpuConsistent
      <3>2. env_status[curenv[d]] # "ENV_FREE"
        BY <2>2, <3>1 DEF EnvInv, SchedInv, RunningIffCurrent
      <3> QED  BY <1>5, <3>1, <3>2, HandlerGen
    <2> QED  BY <1>1, <1>5, <2>1, <2>2, HandlerLeaves DEF EnvInv
  <1>6. CASE trap(c) \/ lock_kernel(c)
    BY <1>6, <1>t DEF trap, lock_kernel, WithLock, Spinning, envVars
  <1>7. CASE boot_aps(c) \/ mp_main(c) \/ device_irq_in_kernel(c)
    BY <1>7, <1>t DEF boot_aps, mp_main, device_irq_in_kernel, panic, envVars
  <1>8. CASE monitor(c)
    BY <1>0, <1>8 DEF monitor
  <1> QED
    BY <1>2, <1>3, <1>4, <1>5, <1>6, <1>7, <1>8 DEF Processor

(***************************************************************************)
(* With disciplined programs a processor in user mode, or in the kernel on *)
(* behalf of its environment, has the page tables of that environment and  *)
(* nobody has freed them.                                                  *)
(***************************************************************************)
THEOREM PageTablesCorrect ==
    ASSUME Disciplined, ~KillsZombies
    PROVE  Spec => []UserPageTables
  <1>1. Init => EnvInv /\ OwnPageTables
    BY EnvInit DEF Init, OwnPageTables
  <1>2. EnvInv /\ OwnPageTables /\ [Next]_vars => EnvInv' /\ OwnPageTables'
    BY EnvStep, OwnPageTablesStep
  <1>3. EnvInv /\ OwnPageTables => UserPageTables
    <2> SUFFICES ASSUME EnvInv, OwnPageTables, NEW c \in CPU,
                        pc[c] \in {"user", "spin", "kernel"}
                 PROVE  PageTablesLive(cr3[c]) /\ cr3[c] = IdOf(curenv[c])
      BY DEF UserPageTables
    <2>1. curenv[c] \in ENVS
      BY DEF EnvInv, BaseInv, CpuInv, TypeCpu, CpuConsistent
    <2>2. env_status[curenv[c]] # "ENV_FREE"
      BY <2>1 DEF EnvInv, SchedInv, RunningIffCurrent
    <2>3. cr3[c] = IdOf(curenv[c])
      BY DEF OwnPageTables
    <2> QED  BY <2>2, <2>3 DEF PageTablesLive, IdOf
  <1> QED  BY <1>1, <1>2, <1>3, PTL DEF Spec

-----------------------------------------------------------------------------
(***************************************************************************)
(* Part 3: what an env_id is worth, whatever programs do.  The generation  *)
(* of a slot runs ahead of the one in a child's env_parent_id by one for   *)
(* each environment that has the slot after the parent, and starts again   *)
(* at 1: it is the same again only after MaxGen of them.                   *)
(***************************************************************************)

\* The generation k allocations after g.
Later(g, k) == IF g + k <= MaxGen THEN g + k ELSE g + k - MaxGen

\* A slot that somebody has had since boot has a generation.
Numbered ==
    /\ \A e \in ENVS : env_status[e] # "ENV_FREE" => env_gen[e] # 0
    /\ \A c \in CPU : curenv[c] # NULL => env_gen[curenv[c]] # 0

Parents ==
    \A e \in ENVS :
        LET p == env_parent_id[e]
        IN  p # ZeroId /\ p[1] # e /\ successors[e] < MaxGen
                => env_gen[p[1]] = Later(p[2], successors[e])

NoParents == pc[BootCpu] = "boot" => \A e \in ENVS : env_parent_id[e] = ZeroId

CreatorInv == Numbered /\ Parents /\ NoParents

\* What is left of the statuses st when a handler on c has left the kernel.
Left(c, st) ==
    /\ \A e \in ENVS : env_status'[e] # "ENV_FREE" => st[e] # "ENV_FREE"
    /\ \A e \in ENVS : env_status'[e] \in {"ENV_FREE", "ENV_DYING"} => env_status'[e] = st[e]
    /\ \A d \in CPU : \/ curenv'[d] \in {NULL, curenv[d]}
                      \/ curenv'[d] \in ENVS /\ st[curenv'[d]] # "ENV_FREE"
    /\ pc'[BootCpu] # "boot"

\* From a handler no other processor is in i386_init().
LEMMA BootIsOver ==
    ASSUME CpuInv, NEW c, Handling(c), NEW x \in {"run", "monitor", "halted"},
           pc' = [pc EXCEPT ![c] = x]
    PROVE  pc'[BootCpu] # "boot"
  BY KernelAssumption DEF CpuInv, TypeCpu, KernelMutex, Handling, InKernel, CPU

LEMMA RunLeft ==
    ASSUME CpuInv, NEW c, Handling(c), NEW st \in [ENVS -> Status], NEW cur \in ENVS \cup {NULL},
           NEW e \in ENVS, NEW r, st[e] # "ENV_FREE", env_run(c, e, st, cur, r)
    PROVE  Left(c, st)
  <1>1. pc'[BootCpu] # "boot"
    BY BootIsOver DEF env_run
  <1>2. curenv' = [curenv EXCEPT ![c] = e]
    BY DEF env_run
  <1>3. \A d \in CPU : curenv'[d] = curenv[d] \/ curenv'[d] = e
    BY <1>2 DEF CpuInv, TypeCpu
  <1>4. \A d \in ENVS : env_status'[d] = st[d] \/ (st[d] # "ENV_FREE" /\ env_status'[d] \in {"ENV_RUNNABLE", "ENV_RUNNING"})
    BY DEF env_run
  <1> QED
    BY <1>1, <1>3, <1>4 DEF Left

LEMMA HaltLeft ==
    ASSUME CpuInv, NEW c, Handling(c), NEW st \in [ENVS -> Status], NEW cur \in {NULL, curenv[c]}, NEW r,
           sched_halt(c, st, cur, r)
    PROVE  Left(c, st)
  <1>1. pc'[BootCpu] # "boot"
    BY BootIsOver DEF sched_halt
  <1>2. \A d \in CPU : curenv'[d] \in {NULL, curenv[d]}
    BY DEF sched_halt, CpuInv, TypeCpu
  <1>3. env_status' = st
    BY DEF sched_halt
  <1> QED
    BY <1>1, <1>2, <1>3 DEF Left

LEMMA YieldLeft ==
    ASSUME CpuInv, NEW c, Handling(c), NEW st \in [ENVS -> Status], NEW cur \in {NULL, curenv[c]}, NEW r,
           sched_yield(c, st, cur, r)
    PROVE  Left(c, st)
  <1>0. cur \in ENVS \cup {NULL}
    BY DEF CpuInv, TypeCpu, Handling
  <1>1. CASE \E e \in ENVS : st[e] # "ENV_FREE" /\ env_run(c, e, st, cur, r)
    BY <1>0, <1>1, RunLeft
  <1>2. CASE sched_halt(c, st, cur, r)
    BY <1>2, HaltLeft
  <1> QED
    BY <1>0, <1>1, <1>2 DEF sched_yield

LEMMA ReturnLeft ==
    ASSUME CpuInv, NEW c, Handling(c), NEW st \in [ENVS -> Status], trap_return(c, st)
    PROVE  Left(c, st)
  <1>0. curenv[c] \in ENVS \cup {NULL}
    BY DEF CpuInv, TypeCpu, Handling
  <1>1. CASE curenv[c] # NULL /\ st[curenv[c]] = "ENV_RUNNING"
    BY <1>0, <1>1, RunLeft DEF trap_return
  <1>2. CASE ~(curenv[c] # NULL /\ st[curenv[c]] = "ENV_RUNNING")
    BY <1>2, YieldLeft DEF trap_return
  <1> QED
    BY <1>1, <1>2

\* A handler that allocates nothing.
LEMMA CreatorKept ==
    ASSUME CpuInv, CreatorInv, NEW c, NEW st, Left(c, st),
           UNCHANGED <<env_gen, env_parent_id, successors>>,
           \A e \in ENVS : st[e] # "ENV_FREE" => env_gen[e] # 0
    PROVE  CreatorInv'
  <1>1. Numbered'
    BY DEF CreatorInv, Numbered, Left
  <1>2. Parents'
    BY DEF CreatorInv, Parents
  <1>3. NoParents'
    BY DEF NoParents, Left
  <1> QED
    BY <1>1, <1>2, <1>3 DEF CreatorInv

\* Who is killed by a handler that leaves st.
LEMMA KilledWere ==
    ASSUME NEW c, NEW st, Left(c, st),
           \A e \in ENVS : st[e] \in {"ENV_FREE", "ENV_DYING"} => env_status[e] \in {"ENV_FREE", "ENV_DYING"}
    PROVE  KillsOwn
  BY DEF Left, KillsOwn

\* The children of a slot's occupants, when the slot is given away.
LEMMA LaterNext ==
    ASSUME NEW g \in 0 .. MaxGen, NEW k \in 0 .. MaxGen, k + 1 < MaxGen
    PROVE  NextGen(Later(g, k)) = Later(g, k + 1)
  BY KernelAssumption DEF NextGen, Later

LEMMA GenNotZero ==
    ASSUME NEW g \in 0 .. MaxGen
    PROVE  NextGen(g) # 0
  BY KernelAssumption DEF NextGen

LEMMA ExoforkCreator ==
    ASSUME BaseInv, CreatorInv, NEW c \in CPU, sys_exofork(c)
    PROVE  CreatorInv' /\ KillsOwn
  <1> DEFINE x == Head(env_free_list)
             st == [env_status EXCEPT ![x] = "ENV_NOT_RUNNABLE"]
  <1>1. x \in ENVS /\ curenv[c] \in ENVS /\ Handling(c)
    BY DEF sys_exofork, dispatching, BaseInv, TypeEnv, CpuInv, TypeCpu, CpuConsistent, Handling
  <1>2. /\ env_gen' = [env_gen EXCEPT ![x] = NextGen(env_gen[x])]
        /\ env_parent_id' = [env_parent_id EXCEPT ![x] = IdOf(curenv[c])]
        /\ successors' = Followed(x)
        /\ trap_return(c, st)
    BY DEF sys_exofork
  <1>t. /\ env_gen \in [ENVS -> 0 .. MaxGen] /\ successors \in [ENVS -> 0 .. MaxGen]
        /\ env_parent_id \in [ENVS -> EnvId] /\ env_status \in [ENVS -> Status] /\ MaxGen \in Nat \ {0}
    BY KernelAssumption DEF BaseInv, TypeEnv, CpuInv, TypeCpu
  <1> HIDE DEF x
  <1>3. st \in [ENVS -> Status] /\ \A e \in ENVS : st[e] = IF e = x THEN "ENV_NOT_RUNNABLE" ELSE env_status[e]
    BY <1>1, <1>t DEF Status
  <1> HIDE DEF st
  <1>4. Left(c, st)
    BY <1>1, <1>2, <1>3, ReturnLeft DEF BaseInv
  <1>5. \A e \in ENVS : env_gen'[e] = IF e = x THEN NextGen(env_gen[x]) ELSE env_gen[e]
    BY <1>1, <1>2, <1>t
  <1>6. Numbered'
    <2>1. NextGen(env_gen[x]) # 0
      BY <1>1, <1>t, GenNotZero
    <2>2. \A e \in ENVS : env_gen[e] # 0 => env_gen'[e] # 0
      BY <1>5, <2>1
    <2>3. \A e \in ENVS : st[e] # "ENV_FREE" => env_gen'[e] # 0
      BY <1>3, <1>5, <2>1, <2>2 DEF CreatorInv, Numbered
    <2>4. \A d \in CPU : curenv[d] \in ENVS \cup {NULL}
      BY DEF BaseInv, CpuInv, TypeCpu
    <2> QED
      BY <1>4, <2>2, <2>3, <2>4 DEF CreatorInv, Numbered, Left
  <1>7. Parents'
    <2> SUFFICES ASSUME NEW e \in ENVS, env_parent_id'[e] # ZeroId, env_parent_id'[e][1] # e, successors'[e] < MaxGen
                 PROVE  env_gen'[env_parent_id'[e][1]] = Later(env_parent_id'[e][2], successors'[e])
      BY DEF Parents
    <2>1. CASE e = x
      <3>1. env_parent_id'[e] = <<curenv[c], env_gen[curenv[c]]>> /\ successors'[e] = 0
        BY <1>1, <1>2, <1>t, <2>1 DEF IdOf, Followed
      <3>2. env_gen'[curenv[c]] = env_gen[curenv[c]]
        BY <1>1, <1>5, <2>1, <3>1
      <3>3. env_gen[curenv[c]] \in 0 .. MaxGen
        BY <1>1, <1>t
      <3> QED
        BY <1>t, <3>1, <3>2, <3>3 DEF Later
    <2>2. CASE e # x
      <3> DEFINE p == env_parent_id[e][1]
                 g == env_parent_id[e][2]
                 k == successors[e]
      <3>1. env_parent_id'[e] = env_parent_id[e] /\ p \in ENVS /\ g \in 0 .. MaxGen /\ k \in 0 .. MaxGen
        BY <1>1, <1>2, <1>t, <2>2 DEF EnvId
      <3>2. successors'[e] = IF p = x /\ k < MaxGen THEN k + 1 ELSE k
        BY <1>2, <2>2, <3>1 DEF Followed
      <3>3. k < MaxGen
        BY <1>t, <3>1, <3>2
      <3>4. env_gen[p] = Later(g, k)
        BY <3>1, <3>3 DEF CreatorInv, Parents
      <3> HIDE DEF p, g, k
      <3>5. CASE p = x
        <4>1. successors'[e] = k + 1 /\ k + 1 < MaxGen
          BY <3>2, <3>3, <3>5
        <4>2. env_gen'[p] = NextGen(Later(g, k))
          BY <1>1, <1>5, <3>4, <3>5
        <4> QED
          BY <3>1, <4>1, <4>2, LaterNext DEF p, g
      <3>6. CASE p # x
        BY <1>5, <3>1, <3>2, <3>4, <3>6 DEF p, g
      <3> QED
        BY <3>5, <3>6
    <2> QED
      BY <2>1, <2>2
  <1>8. CreatorInv'
    BY <1>4, <1>6, <1>7 DEF CreatorInv, NoParents, Left
  <1>9. KillsOwn
    BY <1>3, <1>4, KilledWere
  <1> QED
    BY <1>8, <1>9

LEMMA BootCreator ==
    ASSUME BaseInv, CreatorInv, i386_init
    PROVE  CreatorInv' /\ KillsOwn
  <1> DEFINE created == {env_free_list[i] : i \in 1 .. NBOOT}
             st == [e \in ENVS |-> IF e \in created THEN "ENV_RUNNABLE" ELSE env_status[e]]
  <1>1. BootCpu \in CPU /\ Handling(BootCpu) /\ pc[BootCpu] = "boot"
    BY KernelAssumption DEF i386_init, Handling, CPU
  <1>2. sched_yield(BootCpu, st, curenv[BootCpu], cr3[BootCpu])
    BY DEF i386_init
  <1>t. env_gen \in [ENVS -> 0 .. MaxGen] /\ env_status \in [ENVS -> Status]
    BY DEF BaseInv, TypeEnv, CpuInv, TypeCpu
  <1>3. /\ \A e \in ENVS : env_gen'[e] = IF e \in created THEN NextGen(env_gen[e]) ELSE env_gen[e]
        /\ UNCHANGED <<env_parent_id, successors>>
    BY DEF i386_init
  <1> HIDE DEF created
  <1>4. st \in [ENVS -> Status] /\ \A e \in ENVS : st[e] = IF e \in created THEN "ENV_RUNNABLE" ELSE env_status[e]
    BY <1>t DEF Status
  <1> HIDE DEF st
  <1>5. Left(BootCpu, st)
    BY <1>1, <1>2, <1>4, YieldLeft DEF BaseInv
  <1>6. Numbered'
    <2>1. \A e \in ENVS : env_gen[e] # 0 => env_gen'[e] # 0
      BY <1>3, <1>t, GenNotZero
    <2>2. \A e \in ENVS : st[e] # "ENV_FREE" => env_gen'[e] # 0
      BY <1>3, <1>4, <1>t, <2>1, GenNotZero DEF CreatorInv, Numbered
    <2>3. \A c \in CPU : curenv[c] \in ENVS \cup {NULL}
      BY DEF BaseInv, CpuInv, TypeCpu
    <2> QED
      BY <1>5, <2>1, <2>2, <2>3 DEF CreatorInv, Numbered, Left
  <1>7. Parents' /\ NoParents'
    BY <1>1, <1>3, <1>5 DEF CreatorInv, NoParents, Parents, Left
  <1>8. KillsOwn
    BY <1>4, <1>5, KilledWere
  <1> QED
    BY <1>6, <1>7, <1>8 DEF CreatorInv

\* env_destroy() of the caller, or of a child of this very caller.
LEMMA DestroyCreator ==
    ASSUME BaseInv, CreatorInv, NEW c \in CPU, pc[c] = "kernel", NEW x \in ENVS, env_destroy(c, x),
           \/ x = curenv[c]
           \/ env_parent_id[x] = IdOf(curenv[c])
    PROVE  CreatorInv' /\ KillsOwn
  <1> DEFINE freed == [env_status EXCEPT ![x] = "ENV_FREE"]
             dying == [env_status EXCEPT ![x] = "ENV_DYING"]
  <1>t. /\ env_gen \in [ENVS -> 0 .. MaxGen] /\ successors \in [ENVS -> 0 .. MaxGen]
        /\ env_status \in [ENVS -> Status] /\ MaxGen \in Nat \ {0}
        /\ kernel_lock = c /\ curenv[c] \in ENVS /\ curenv[c] # NULL /\ Handling(c)
    BY KernelAssumption
    DEF BaseInv, TypeEnv, CpuInv, TypeCpu, CpuConsistent, KernelMutex, InKernel, Handling
  <1>1. /\ freed \in [ENVS -> Status] /\ dying \in [ENVS -> Status]
        /\ \A e \in ENVS \ {x} : freed[e] = env_status[e] /\ dying[e] = env_status[e]
        /\ freed[x] = "ENV_FREE"
    BY <1>t DEF Status
  <1>2. UNCHANGED <<env_gen, env_parent_id, successors>>
    BY DEF env_destroy, env_free, envVars
  <1>3. Left(c, freed) \/ (Left(c, dying) /\ env_status[x] = "ENV_RUNNING")
    <2> HIDE DEF freed, dying
    <2>1. CASE trap_return(c, dying) /\ env_status[x] = "ENV_RUNNING"
      BY <1>t, <1>1, <2>1, ReturnLeft DEF BaseInv
    <2>2. CASE trap_return(c, freed) \/ sched_yield(c, freed, NULL, boot_cr3)
      BY <1>t, <1>1, <2>2, ReturnLeft, YieldLeft DEF BaseInv
    <2> QED
      BY <2>1, <2>2 DEF env_destroy, freed, dying
  <1> HIDE DEF freed, dying
  <1>4. CreatorInv'
    <2>1. \A e \in ENVS : freed[e] # "ENV_FREE" => env_gen[e] # 0
      BY <1>1 DEF CreatorInv, Numbered
    <2>2. env_status[x] = "ENV_RUNNING" => \A e \in ENVS : dying[e] # "ENV_FREE" => env_gen[e] # 0
      BY <1>1 DEF CreatorInv, Numbered
    <2> QED
      BY <1>2, <1>3, <2>1, <2>2, CreatorKept DEF BaseInv
  <1>5. \/ x = curenv[c]
        \/ /\ env_parent_id[x] # ZeroId /\ env_parent_id[x][1] = curenv[c]
           /\ successors[x] \in {0, MaxGen}
    <2> SUFFICES ASSUME x # curenv[c]
                 PROVE  /\ env_parent_id[x] # ZeroId /\ env_parent_id[x][1] = curenv[c]
                        /\ successors[x] \in {0, MaxGen}
      OBVIOUS
    <2> DEFINE g == env_gen[curenv[c]]
               k == successors[x]
    <2>1. env_parent_id[x] = <<curenv[c], g>>
      BY DEF IdOf
    <2>2. g \in 0 .. MaxGen /\ g # 0 /\ k \in 0 .. MaxGen
      BY <1>t DEF CreatorInv, Numbered
    <2>3. env_parent_id[x] # ZeroId
      BY <2>1, <2>2 DEF ZeroId
    <2>4. k < MaxGen => g = Later(g, k)
      BY <2>1, <2>3 DEF CreatorInv, Parents
    <2> HIDE DEF g, k
    <2>5. k \in {0, MaxGen}
      BY <1>t, <2>2, <2>4 DEF Later
    <2> QED
      BY <2>1, <2>3, <2>5 DEF k
  <1>6. \A e \in ENVS \ {x} : env_status'[e] \in {"ENV_FREE", "ENV_DYING"} => env_status[e] \in {"ENV_FREE", "ENV_DYING"}
    BY <1>1, <1>3 DEF Left
  <1> QED
    BY <1>t, <1>4, <1>5, <1>6 DEF KillsOwn

LEMMA CreatorStep ==
    ASSUME BaseInv, CreatorInv, [Next]_vars
    PROVE  CreatorInv' /\ [KillsOwn]_vars
  <1> USE DEF Handling
  <1>0. CASE UNCHANGED vars
    BY <1>0 DEF vars, envVars, cpuVars, CreatorInv, Numbered, Parents, NoParents
  <1> SUFFICES ASSUME NEW c \in CPU, Processor(c) \/ TrapFromUser(c)
               PROVE  CreatorInv' /\ KillsOwn
    BY <1>0 DEF Next
  <1>t. /\ env_status \in [ENVS -> Status] /\ curenv[c] \in ENVS \cup {NULL} /\ CpuInv
        /\ pc[c] = "kernel" => curenv[c] \in ENVS
        /\ \A e \in ENVS : env_status[e] # "ENV_FREE" => env_gen[e] # 0
        /\ curenv[c] # NULL => env_gen[curenv[c]] # 0
    BY DEF BaseInv, CpuInv, TypeCpu, CpuConsistent, CreatorInv, Numbered
  <1>1. CASE boot_aps(c) \/ mp_main(c) \/ trap(c) \/ lock_kernel(c) \/ lcr3_and_iret(c) \/ device_irq_in_kernel(c)
    <2>1. UNCHANGED <<env_status, env_gen, env_parent_id, successors, curenv>>
      BY <1>1 DEF boot_aps, mp_main, trap, lock_kernel, WithLock, lcr3_and_iret, device_irq_in_kernel, panic, envVars
    <2>2. pc'[BootCpu] = "boot" => pc[BootCpu] = "boot"
      <3>1. \E x \in Location \ {"boot"} : pc' = [pc EXCEPT ![c] = x]
        BY <1>1 DEF boot_aps, mp_main, trap, lock_kernel, WithLock, lcr3_and_iret, device_irq_in_kernel, panic,
                    Location, Spinning, InKernel
      <3> QED
        BY <3>1, KernelAssumption DEF CpuInv, TypeCpu, BaseInv, CPU
    <2> QED
      BY <2>1, <2>2 DEF CreatorInv, Numbered, Parents, NoParents, KillsOwn
  <1>2. CASE c = BootCpu /\ i386_init
    BY <1>2, BootCreator
  <1>3. ASSUME NEW st \in [ENVS -> Status], Left(c, st), UNCHANGED <<env_gen, env_parent_id, successors>>,
               \A e \in ENVS : st[e] # "ENV_FREE" => env_gen[e] # 0,
               \A e \in ENVS : st[e] \in {"ENV_FREE", "ENV_DYING"} => env_status[e] \in {"ENV_FREE", "ENV_DYING"}
        PROVE  CreatorInv' /\ KillsOwn
    BY <1>3, <1>t, CreatorKept, KilledWere
  <1>4. CASE enter_scheduler(c) \/ timer_or_sys_yield(c) \/ harmless_trap(c)
    <2>1. UNCHANGED <<env_gen, env_parent_id, successors>>
      BY <1>4 DEF enter_scheduler, timer_or_sys_yield, harmless_trap, envVars
    <2>2. Left(c, env_status)
      BY <1>4, <1>t, YieldLeft, ReturnLeft DEF enter_scheduler, timer_or_sys_yield, harmless_trap, dispatching
    <2> QED
      BY <1>3, <1>t, <2>1, <2>2
  <1>5. CASE monitor(c)
    <2>1. env_status' = env_status /\ CreatorInv'
      BY <1>0, <1>5 DEF monitor, vars
    <2> QED
      BY <2>1 DEF KillsOwn
  <1>6. CASE free_zombie(c)
    <2> DEFINE st == [env_status EXCEPT ![curenv[c]] = "ENV_FREE"]
    <2>1. curenv[c] \in ENVS /\ env_status[curenv[c]] = "ENV_DYING" /\ pc[c] = "kernel"
      BY <1>6, <1>t DEF free_zombie
    <2>2. UNCHANGED <<env_gen, env_parent_id, successors>>
      BY <1>6 DEF free_zombie, env_free
    <2>3. st \in [ENVS -> Status] /\ \A e \in ENVS : st[e] = IF e = curenv[c] THEN "ENV_FREE" ELSE env_status[e]
      BY <1>t, <2>1 DEF Status
    <2>4. sched_yield(c, st, NULL, boot_cr3)
      BY <1>6 DEF free_zombie
    <2> HIDE DEF st
    <2>5. Left(c, st)
      BY <1>t, <2>1, <2>3, <2>4, YieldLeft
    <2> QED
      BY <1>3, <1>t, <2>1, <2>2, <2>3, <2>5
  <1>7. CASE fault(c)
    BY <1>7, <1>t, DestroyCreator DEF fault, dispatching
  <1>8. CASE sys_exofork(c)
    BY <1>8, ExoforkCreator
  <1>9. ASSUME NEW x \in ENVS, NEW s \in {"ENV_RUNNABLE", "ENV_NOT_RUNNABLE"}, pc[c] = "kernel",
               trap_return(c, [env_status EXCEPT ![x] = s]), env_gen[x] # 0,
               UNCHANGED <<env_gen, env_parent_id, successors>>
        PROVE  CreatorInv' /\ KillsOwn
    <2> DEFINE st == [env_status EXCEPT ![x] = s]
    <2>1. st \in [ENVS -> Status] /\ \A e \in ENVS : st[e] = IF e = x THEN s ELSE env_status[e]
      BY <1>t DEF Status
    <2>2. Left(c, st)
      BY <1>9, <1>t, <2>1, ReturnLeft
    <2> HIDE DEF st
    <2> QED
      BY <1>3, <1>9, <1>t, <2>1, <2>2
  <1>10. CASE sys_ipc_recv(c)
    BY <1>9, <1>10, <1>t, KernelAssumption DEF sys_ipc_recv, dispatching
  <1>f. ASSUME NEW id \in EnvId, NEW perm \in BOOLEAN, pc[c] = "kernel", envid2env(c, id, perm) # NULL
        PROVE  /\ envid2env(c, id, perm) \in ENVS
               /\ env_gen[envid2env(c, id, perm)] # 0
               /\ perm => \/ envid2env(c, id, perm) = curenv[c]
                          \/ env_parent_id[envid2env(c, id, perm)] = IdOf(curenv[c])
    BY <1>f, <1>t, KernelAssumption DEF envid2env, EnvId
  <1>11. ASSUME NEW id \in EnvId, sys_env_destroy(c, id)
         PROVE  CreatorInv' /\ KillsOwn
    BY <1>f, <1>11, DestroyCreator DEF sys_env_destroy, dispatching
  <1>12. ASSUME NEW id \in EnvId, sys_ipc_try_send(c, id)
         PROVE  CreatorInv' /\ KillsOwn
    <2>1. pc[c] = "kernel" /\ envid2env(c, id, FALSE) # NULL /\ UNCHANGED <<env_gen, env_parent_id, successors>>
          /\ trap_return(c, [env_status EXCEPT ![envid2env(c, id, FALSE)] = "ENV_RUNNABLE"])
      BY <1>12 DEF sys_ipc_try_send, dispatching
    <2> QED
      BY <1>9, <1>f, <2>1
  <1>13. ASSUME NEW id \in EnvId, NEW s \in {"ENV_RUNNABLE", "ENV_NOT_RUNNABLE"}, sys_env_set_status(c, id, s)
         PROVE  CreatorInv' /\ KillsOwn
    <2>1. pc[c] = "kernel" /\ envid2env(c, id, TRUE) # NULL /\ UNCHANGED <<env_gen, env_parent_id, successors>>
          /\ trap_return(c, [env_status EXCEPT ![envid2env(c, id, TRUE)] = s])
      BY <1>13 DEF sys_env_set_status, dispatching, envVars
    <2> QED
      BY <1>9, <1>f, <2>1
  <1> QED
    BY <1>1, <1>2, <1>4, <1>5, <1>6, <1>7, <1>8, <1>10, <1>11, <1>12, <1>13
    DEF Processor, TrapFromUser

(***************************************************************************)
(* Whatever programs do, and however often slots are used again: an        *)
(* environment is killed by itself or by the environment that created it,  *)
(* or by the occupant of that one's slot MaxGen environments later.        *)
(***************************************************************************)
THEOREM CreatorKills == Spec => KilledByCreator
  <1>1. Init => BaseInv /\ CreatorInv
    BY BaseInit, KernelAssumption DEF Init, CreatorInv, Numbered, Parents, NoParents
  <1>2. BaseInv /\ CreatorInv /\ [Next]_vars => BaseInv' /\ CreatorInv' /\ [KillsOwn]_vars
    BY BaseStep, CreatorStep
  <1> QED
    BY <1>1, <1>2, PTL DEF Spec, KilledByCreator
=============================================================================
