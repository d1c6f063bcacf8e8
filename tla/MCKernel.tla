------------------------------ MODULE MCKernel ------------------------------
\* Kernel for TLC: the configurations give all constants.
EXTENDS Kernel, FiniteSets

\* The parent, the waiting flag and the history of a free slot are what its last
\* occupant left: envid2env() refuses the slot before it looks at the parent, and
\* env_alloc() overwrites them before the slot is anything but free.
InUse(e) == env_status[e] # "ENV_FREE"

EnvsInUse ==
    <<env_status, env_gen, env_free_list,
      [e \in ENVS |-> IF InUse(e) THEN env_parent_id[e] ELSE ZeroId],
      [e \in ENVS |-> InUse(e) /\ env_ipc_recving[e]],
      [e \in ENVS |-> IF InUse(e) THEN successors[e] ELSE 0]>>

\* After boot the code treats all processors alike, but for the device
\* interrupts that go to BootCpu: how many are in each state is enough.
Local(c) == <<curenv[c], cpu_status[c], cr3[c], pc[c], kernel_lock = c>>

Processors ==
    {<<Local(c), Cardinality({d \in CPU : Local(d) = Local(c)})>> : c \in CPU}

\* A view for runs without "device".
Essence ==
    <<EnvsInUse, panicstr,
      IF pc[BootCpu] = "boot" THEN <<cpuVars>> ELSE <<Processors>>>>
=============================================================================
