# TLA+ models of the JOS kernel and library

This directory is a verification project for the JOS tree in `src/`: a 64-bit
exokernel-style teaching kernel with a user-space library, pipes and a file
server. It has TLA+ modules that model the parts where concurrency, reference
counting, ordering, crashes and rounding make mistakes easy, TLC configurations
that check them on small instances, and TLAPS proofs that hold for every number of processors,
environments, clients, files and pages. `PROJECT.json` holds the exact list of runs, the lines every
definition stands for, the mistakes that each property is known to catch, and
the hazards the properties are for.

To repeat anything: `tlc -workers 2 -config kernel_smp.cfg MCKernel`,
`tlapm KernelProofs.tla`.

## 1. The system

| component | state | operations | talks to |
|---|---|---|---|
| environments (`kern/env.c`) | `envs[]`: status, id, parent, IPC flag, page tables; free list; `curenv` per processor | `env_init`, `env_alloc`, `envid2env`, `env_free`, `env_destroy`, `env_run` | scheduler, page tables |
| scheduler (`kern/sched.c`) | none of its own | `sched_yield`, `sched_halt` | `env_run`, the monitor, the lock |
| traps (`kern/trap.c`) | `cpu_status`, saved registers | `trap`, `trap_dispatch`, `page_fault_handler` | system calls, scheduler, the lock |
| system calls (`kern/syscall.c`) | none | environment, memory and IPC calls | environments, page tables |
| big kernel lock (`kern/spinlock.c`) | `locked`, `cpu` | `spin_lock`, `spin_unlock` | every kernel entry and exit |
| memory (`kern/pmap.c`) | `pages[]` (counts, free list), four-level page tables | `page_alloc/free/decref`, the three walks, `page_insert/lookup/remove`, `user_mem_check` | environments, system calls |
| boot and processors (`kern/init.c`, `mpconfig.c`, `lapic.c`) | `cpus[]` | `i386_init`, `boot_aps`, `mp_main` | the lock, scheduler |
| pipes (`lib/pipe.c`) | one shared page with positions and buffer, and the *reference counts* of pages | `pipe`, `devpipe_read/write/close`, `_pipeisclosed` | descriptors, `pageref`, `env_runs` |
| descriptors (`lib/fd.c`) | mapped descriptor pages | `fd_alloc`, `close`, `dup`, `read`, `write` | pipes, files, the memory calls |
| fork (`lib/fork.c`, `lib/pgfault.c`) | page table flags `PTE_COW`, `PTE_SHARE` | `fork`, `duppage`, `pgfault` | memory calls, page fault upcall |
| IPC library (`lib/ipc.c`) | none | `ipc_send`, `ipc_recv` | IPC system calls |
| file server (`fs/serv.c`, `lib/file.c`) | open file table, shared descriptor pages | `serve_*`, `fsipc` | IPC, file system |
| file system (`fs/fs.c`, `fs/bc.c`, `fs/ide.c`) | bitmap, files, cached blocks, the disk | allocate, walk, read, write, truncate, flush | disk |
| loaders (`boot/main.c`, `load_icode`, `lib/spawn.c`) | the image, the pages it goes to, the new stack | `readseg`, `load_icode`, `map_segment`, `init_stack` | disk, memory calls, file descriptors |
| memory detection and mapping (`kern/pmap.c`, `boot/boot.S`) | memory map, `pages[]`, kernel mappings | `multiboot_read`, `boot_alloc`, `page_init`, `x64_vm_init`, self-checks | processors, environments |
| console (`kern/console.c`, `lib/console.c`, `lib/readline.c`) | shift state, input ring, screen | `kbd_proc_data`, `cons_getc`, `cga_putc`, `readline` | system calls, monitor |
| C library (`lib/string.c`, `lib/printfmt.c`, `lib/args.c`) | none | `memmove`, `vsnprintf`, `strtol`, `argnext` | everything |
| monitor, debug information, shell | text | | |

What is hard in it:

* **Interleaving.** Several processors enter the kernel by traps; one lock
  guards it, but `env_run()` goes on *after* it has released that lock, and
  `trap()` reads `cpu_status` *before* it has it. An environment can be
  destroyed while it runs elsewhere.
* **Counts.** A page is freed by its reference count. Walks allocate tables on
  the way and may fail half way. `_pipeisclosed()` infers from two counts, read
  one after the other, whether anybody still has the other end open.
* **Waiting.** `sched_yield()` must not starve, a reader must notice that the
  writers are gone, `ipc_send()` retries until the receiver is there.
* **Limits.** 16-bit `pp_ref`, environment ids that come round again, indices
  at the ends of page tables, a full free list.
* **Order of writes to the disk** and what a crash leaves: every block is
  cached, and only some changes are flushed by the operation that makes them.
* **Shared pages as protocol.** The file server learns only from `pp_ref` that a
  client is gone; clients and server move the same `fd_offset`; a client may be
  destroyed between its request and the answer.
* **Copy-on-write by the program itself.** `fork()` marks the stack it runs on,
  faults on it, and handles the fault while it is still copying.
* **Rounding.** Three loaders and the memory detection round to sectors, pages
  and tables, and share one hand-written handshake between processors.

What makes each part correct is stated as properties below; the hazards, with
their lines, are in `PROJECT.json`.

## 2. Modules

| module | models | checked by | proofs |
|---|---|---|---|
| `Kernel` | environments, scheduler, trap entry, boot of the processors, environment and IPC calls, under the lock | `kernel_smp`, `kernel_fair` | `KernelProofs` |
| `Spinlock`, `KernelLock` | the lock one memory access at a time; what it promises | `spinlock` | `SpinlockProofs` |
| `Pmap` | physical pages, page tables, address spaces, memory calls | `pmap_low` | `PmapProofs` |
| `Pipe`, `Stream` | pipes with descriptors, fork and reference counts; what they promise | `pipe_up` | `PipeProofs` |
| `Fork` | copy-on-write fork and page faults handled by programs | `fork`, `fork_nested` | `ForkProofs` |
| `FsDisk` | block cache, bitmap, files, directories, and crashes | `fsdisk` | |
| `FsServer` | the file server, the IPC library and file descriptors | `fsserver` | `FsServerProofs` |
| `Console` | keyboard, input ring, screen, `readline()` | `console` | `ConsoleProofs` |
| `Loader`, `Boot`, `Startup` | the three loaders; memory detection, kernel mappings and processor start; both composed | `startup` | `StartupProofs` |
| `Text` | `memmove`, formatted numbers, `strtol`, command line arguments | `text` | |

`Kernel` uses the lock as the abstract `KernelLock`: a step takes it when it is
free. `Spinlock` is shown, by TLC and by proof, to implement `KernelLock`, which
is what licenses that. `Kernel` and `Pmap` split the system calls between them: one has
what happens to the environment table and the processors, the other what
happens to memory (`env_free` has a half in each). `Pipe` stands on both: it
assumes that every runnable environment gets its turn (`NoStarvation` of
`Kernel`) and that `pp_ref` counts mappings (`RefExact` of `Pmap`). `Fork` and
`FsServer` assume the same. `FsServer` and `FsDisk` split the file server: one
has who holds which open file, the other what a request does to the blocks.
`Startup` runs `Loader` and `Boot` in one behaviour: the boot loader brings the
kernel in, the kernel sets memory up and starts the processors, and then
programs are loaded.

### Kernel

State: the fields of `envs[]` that control anything, `env_free_list`, and per
processor `curenv`, `cpu_status`, CR3 and a place `pc`. A stretch of code with
the lock held is *one* step; what is outside is its own step: entry of a trap
up to the lock (`trap`), acquisition (`lock_kernel`), and the end of `env_run()`
after `unlock_kernel()` (`lcr3_and_iret`). Every handler ends in the code's way
out: `trap_return`, `sched_yield`, `env_run` or `sched_halt`, passed the
statuses that the handler has computed. An `env_id` is a slot and a generation;
`MaxGen` generations stand for the 2^19 after which `env_alloc()` starts again.
CR3 is named by the id whose page tables it loads.

`Calls` selects what programs do. `Disciplined` and `KillsZombies` say how they
treat children. With `Disciplined` a parent sets a child's status only from
NOT_RUNNABLE to RUNNABLE and before the child has asked for a message, as
`lib/fork.c` does. Without `KillsZombies` nobody destroys an environment that has
been destroyed already and has not trapped yet; `user/spin.c` destroys its child
once. The kernel enforces neither, and on more than one processor it does not
keep its own invariants without them: section 5.

`successors` is history: it counts the environments that have moved into the
slot of an environment's parent since it was created. With it `KilledByCreator`
can say what an id is worth once slots and, with `MaxGen` generations, ids are
used again.

A program's own computation, and traps that change no environment, are
`harmless_trap`. Saved registers, `env_runs` (see `Pipe`), and the user page
fault stack (see `Fork`) are not in this module.

### Spinlock

Each processor has a store buffer: a store to `lk->cpu` waits there, its
processor reads it from there, and it reaches memory later and in order; `xchg`
is a locked instruction and drains the buffer. The reads of `holding()` are two
steps, so another processor can take or release the lock between them. `Misuse`
lets callers lock twice or unlock what they do not hold. The model keeps the
order of the statements in the source: the build is `-O0` and the inline
assembly has no memory clobber that would enforce it otherwise. `owner` is a
history variable: who took the lock last and has not put it back.

### Pmap

A page is a number; a page that is used as a table has entries of an address
and flags; all four levels, the walks through them, and the self-map and kernel
entry of `env_setup_vm()` are there. Operators take and return a record of the
physical memory, in the order of the code, so failure half way down a walk and
its clean-up are modelled. `N` entries per table stand for 512, so that the
last index of a table and the limits that `env_free()` uses are in reach.
`PTE_U`, `PTE_AVL` and the contents of data pages are left out; so is the TLB.
`Habits` names three kinds of call that the kernel mishandles; they are off in
the run, and section 5 says what each of them breaks. `BiosPage` is
what physical page 0 contains, which matters because walks that create nothing
go through it.

### Pipe

State: `struct Pipe`; how many descriptor pages and data pages of each end each
environment has mapped; for each environment where in the library it is and
the local variables of the call. `pp_ref` of a page is the sum over the
environments. One step is one system call or one access to shared memory.
`env_runs` is represented by whether `env_run(e)` happened between the two
readings that compare it. `pipe()` itself has returned in the initial state;
other environments come from `fork()`, which maps data pages before descriptor
pages because it walks down from the stack. `exit()` requires that `close_all()`
has closed the descriptors. The n-th byte written is called n.

### Fork

State: the page table entries of each environment (writable, copy-on-write,
shared), one word per physical page, and for each environment where it is in
`fork()` with its variables, and the user trap frames on its exception stack.
A step is one system call, one page fault or one access that can fault, so
parent and child run, write and fault between any two. The stack page holds the
place of the last call that pushed something: that makes `fork()` fault on the
stack which it has just marked. `word` and `shared` are history: what each
program last wrote. `MaxRefused` lets memory for the child's tables run out.

### FsDisk

The server is sequential: an operation is one step on the cache, and the blocks
that it writes (`todo`) reach the disk one by one afterwards, in the order of
the code, with a crash possible before each. Operators take and return a record
of the cache, as in `Pmap`. `Mount` is the start of the server, `check_bc()`,
`check_super()`, `check_bitmap()` and `fs_test()` included. `durable` is history:
what a completed flush has promised. `cutinside` is history too: a file was cut
and kept its indirect block, the one case in which the disk goes wrong.

`fsformat` makes the root directory with `bin` and `sbin` in it, and nothing makes
another directory. `walk_path()` goes through them; programs may cut, remove
and write `/bin` itself, and `file_create()` gives a reused `struct File` the type
that its last owner left there, so a file in the root may turn out to be a
directory. Data in a directory is taken for names that nobody has. Left out: the
assertion of `dir_lookup()` that a directory's size is a whole number of blocks
(sizes are in blocks here), and programs that use the names `/newmotd` and
`/not-found` of `fs_test()`.

### FsServer

A descriptor of a file is a page that the server and every holder map; `pageref`
is computed from who maps it. A call is a send (polled, `-E_IPC_NOT_RECV`
retried), a receive, the handler, and the answer, each a step; the increase of
`fd_offset` after the transfer is one of its own. `Kill` destroys a client at
any of these. `env_free()` stops below the descriptors, so a destroyed client's
descriptor pages stay counted for ever (`opentab[i].lost`); one that exits has
closed its descriptors. Every answer has the outcomes of `sys_ipc_try_send()`:
delivered, the client is gone, or `page_insert()` finds no memory for the
descriptor page. On the last two `ipc_send()` panics. An environment's slot is
reused with a new generation. `opened`, `orphaned`, `unlinked`, `refused` and the
`pos`, `raced` and `forked` of a descriptor are history.

### Console

Keys are pressed and released at any time; the controller holds their codes;
`cons_getc()` empties serial port and keyboard into the ring, one character per
step. The tables of `console.c` are given for the keys in use. `readline()` is
the kernel's or the program's, which differ in what `getchar()` makes of `^D`.
`typed` and `sent` are history: what the user meant.

### Loader, Boot, Startup

`Loader`: an image has segments with any offset inside a page and a bss; memory
is by the byte, with junk where the disk has something else. `bootmain()`,
`load_icode()` and `spawn()` are three initial values of `who`. Allocation can
fail at each step of `spawn()`. `init_stack()`'s page is filled by the byte.

`Boot`: a machine is what its BIOS tells (e820 map, NVRAM, MP table); addresses
are in pages, the map in half pages so that rounding happens. One step is one
region mapped, one self-check, one processor entry. `lost` is history: the
pages that `page_check()` does not give back. `stackOf` is which stack a
processor took, `Plain` and `Orderly` say for which machines the code is right;
section 5 says what happens on others.

### Text

One variable `m` per job: memory for `memmove()`, format, argument and buffer for
`vsnprintf()`, the words of a command line for `args.c`. Widths of int and long
are constants. `getint()` and `getuint()` read 64 bits for every number, and the
upper half of the register of an int, of either sign, is anything (`Register`).
Of the conversions those that print numbers, and `%%`, are modelled; `%c`, `%s`,
`%e` and `%o` are not.

## 3. What the runs check

| run | instance | shows |
|---|---|---|
| `kernel_smp` | 2 processors, 3 slots, 2 generations, all calls, no device interrupts, programs that start and destroy a child once; 3.1 million states | `MachineConsistent`: types, the lock excludes, a processor in the state that `trap()` asserts. `EnvsConsistent`: an environment is current on one processor, RUNNING and DYING mean current, a receiver is blocked, the monitor is entered only when nothing can run, processors wait for boot. The free list is exact; a processor in user mode uses its own environment's page tables and they are alive. An environment is killed by itself or by the very environment that created it, and by a later one in that one's slot only after as many environments as there are generations. |
| `kernel_fair` | 2 processors, fork, IPC and device interrupts, nobody exits | Every runnable environment gets its turn, unless the kernel panics. |
| `spinlock` | 3 processors, with misuse; 2981 states | Refines `KernelLock`; debugging checks have no false alarm; a free lock that is wanted is taken. |
| `pmap_low` | 15 pages, tables of 3, 2 environments, 3 addresses | `PagesExact`: counts and free list are exact until memory runs out, tables are private, page 0 and the mapping at UTOP stay. Failed calls change nothing. `Isolation`: one call changes one space, read-only pages stay so. |
| `pipe_up` | 1 processor, 2 environments, buffer of 2, one write of 3; 226 thousand states | `_pipeisclosed()` is right in the middle of any call of others; the bytes are a stream (`Stream`); a wait ends when the other end is closed. |
| `fork` | 2 environments, two layouts of a program, tables of 2 entries, 2 forks; 77 thousand states | Nobody sees another's writes to private pages, everybody sees those to shared ones; the child lacks only pages that could not be mapped or that the loop steps over; `fork()` returns. |
| `fork_nested` (violation) | a handler that faults itself | The 4 bytes between nested frames do not hold the 8-byte return address. |
| `fsdisk` | 8 blocks; `/a`, `/bin/a`, `/bin`, `/a/a` and the message of the day as paths that are created, removed, cut and written, files of up to 4 blocks; one crash; 653 thousand states | Blocks have one owner in the cache and on the disk, what was flushed survives a crash, also where directories are removed and overwritten and files become directories. The server starts again after a crash if the disk has a free block more than the root directory has holes. |
| `fsserver` | 2 clients, 2 entries, 2 descriptors, 4 calls, one client destroyed, memory refused once; 188 thousand states | Entries in use are not given away, a descriptor means the file that was opened, an offset is what its one program made it, the server stops only when a client died or memory ran out, everybody is answered. |
| `console` | ring of 3, line of 4, screen of 2 by 2, 5 strokes of 5 keys and the serial line; 375 thousand states | What was typed is read; the screen shows the line; a line that is ended is returned. |
| `startup` | 76 images, 40 argument lists, 97 machines; 214 thousand states | Every byte of an image arrives; so do the arguments; the free list is right; processors have their own stacks; the boot completes. |
| `text` | all overlaps in 8 bytes, 270 formats with 19 numbers in 4 buffers, 259 command lines; 269 thousand states | Moves copy; a long reads back, an int modulo its width; arguments are neither lost nor doubled. |

### Bounds, and why they are enough

* Kernel: two processors are what every race in the model needs (one destroys
  or schedules, one runs); three slots allow a parent, a child and a third party,
  and a search that wraps. `MaxGen = 2` makes ids come round, so `NextGen`'s
  wrap happens. `VIEW Essence` of `kernel_smp` ignores the parent, the waiting
  flag and the history of free slots, which the code overwrites before it uses them again, and
  which processor is which once boot is over (device interrupts, which go to the
  boot processor, are in `kernel_fair` instead). Safety does not rest on these
  bounds: it is proved for all. An id that comes round is used: without the
  exception for `MaxGen` successors `KilledByCreator` does not hold.
* Spinlock: three processors give a holder, a waiter and one that misuses it.
* Pmap: two environments share and isolate; three addresses give two pages of
  one table and one of another directory; 15 pages are used up by two full
  address spaces, so that each allocation of each walk fails at some point.
  `RefMod = 8` is above every count reachable, as 2^16 is in practice unless a
  page is mapped 65536 times. `VIEW Shape` identifies states that differ only
  in page *numbers*: `page_alloc()` clears the page that it takes and nobody
  looks at its number; 42 thousand states are 804 shapes.
* Pipe: writes of 3 into a buffer of 2 fill it and wrap; reads of 2 find it
  empty, partly full and full. Two descriptors for each end make `dup` and the
  counts interesting. `MaxTicks` bounds preemptions inside the library; one is
  enough to stop an environment in the middle of any call, and the bound is
  what makes `Unblocks` meaningful: a time slice is far longer than the loop
  in `_pipeisclosed()`, which could otherwise be interrupted for ever.
* Fork: a parent and a child, whose slot is used again by the second fork.
  Tables of 2 entries and directories of 2 tables, with the stack at page 13,
  give missing tables and a missing directory; in each of the two layouts the
  loop steps over a page that is mapped, in one of them after two missing
  tables, so that it is off by two. Pages do not run out: the calls that are refused are
  those of `MaxRefused`.
* FsDisk: NDIRECT = NINDIRECT = 2 put the boundary of the indirect block in the
  middle of a file; 8 blocks leave 3 free, of which each start takes one, so
  that files compete and the disk is full. A directory block holds the three
  entries of `fsformat` and no more, so that the root grows and may get a hole. A write of the last block alone, cut
  off again, is what the exception of `DiskOwnedOnce` needs: without it the
  property does not hold. `VIEW Shape` leaves out the contents of blocks
  that nobody owns.
* FsServer: two entries and two clients with two descriptors make entries free,
  shared and all in use; ids wrap at 16. Four calls are open, duplicate or fork,
  transfer, close.
* Console: the ring overflows, the line is too long, the screen scrolls and
  deletes across its edge. The one modifier needs E0.
* Startup: segments begin on and inside pages and sectors, end on and off the
  boundary, with an empty file part and an empty bss; either images or machines
  vary, not both at once, because they meet only in `npages`.
* Text: buffers of 0 and 1, one that cuts and one with room.
* `CHECK_DEADLOCK FALSE` where the system may stop: callers of the lock are
  done or have panicked, the kernel has panicked in `Pmap`, programs have exited,
  calls and strokes are used up, loading and booting have ended. `Kernel` has no
  deadlock: its monitor is an action.

A `TypeOK` is part of `MachineConsistent` and `PagesExact`, and proved for
`Spinlock`; those of `Pipe`, `Fork`, `FsServer` and `Console` hold under the
constants of their runs and have no run of their own.

### Fairness

* `Kernel`: weak for each processor's own steps and for handlers (they end);
  strong for the timer: the local APIC is periodic, and an interrupt that comes
  while the kernel runs with interrupts off is pending when user mode is
  entered. Lock acquisition is only weakly fair, which the spinlock gives.
* `Spinlock`: weak for each processor's next instruction. This gives `Progress`
  for the lock, not for each processor: a spin lock is not fair.
* `Pipe`: weak for library code of a running environment, strong for being
  scheduled (`NoStarvation`) and for being interrupted while in user code.
* `Fork`: weak for each environment's own steps inside `fork()` and its fault
  handler, because runnable environments get their turn (`NoStarvation`).
* `FsServer`: the same for the server's loop and for a client inside a call.
  Nothing is assumed of programs outside of calls, or of `Kill`.
* `Console`: weak for `readline()`'s polling; none for the user.
* `Startup`: weak for each processor; a processor that was sent a start-up
  interrupt starts.

## 4. What is proved

Each theorem holds for every value of the constants that satisfies the `ASSUME`
of its module (`KernelAssumption`, `SpinlockAssumption`, `ServerAssumption`,
`PmapAssumption`, `PipeAssumption`, `ForkAssumption`, `ConsoleAssumption`,
`KeyAssumption`, `LoaderAssumption`, `BootAssumption`). These
say that sizes are positive, that names differ from the null value, and how
numbers that the headers fix relate (`PFTEMP < UTEXT`, 2^32 a multiple of
`MAXOPEN`, ...); three say something about what the program is given: an image
is `WellLinked`, a program's pages are between `UTEXT` and the stack, the memory
map is well-formed. A theorem that needs more has it as a hypothesis, named
below. Every proof that is about states rests on an inductive invariant; what
the property itself does not say, and the invariant must, is noted.

**KernelProofs**

* `BaseCorrect`: `MachineConsistent` (`TypeOK`, `KernelMutex`, `CpuConsistent`)
  whatever programs do. Inductive invariant `BaseInv`: those and `Started`, that a processor which
  has left `hlt` or boot says so in `cpu_status`; without it `trap()` could find
  HALTED and take the lock a second time.
* `EnvCorrect`: with programs that start and destroy a child once
  (`Disciplined`, `~KillsZombies`) also `EnvsConsistent` (`RunsOnOneCpu`,
  `RunningIffCurrent`, `ReceiverBlocked`, `MonitorQuiescent`, `ApsWaitForBoot`)
  and `FreeListExact`. Within a handler `RunningIffCurrent` does not hold: the
  statuses are changed before `env_run()` or `sched_halt()` changes `curenv`.
  The proof therefore has one predicate, `Handover`, on the statuses and current
  environment that a handler hands to the scheduler: on the other processors
  everything is as the invariant says. Each handler is shown to establish it,
  each way out of the kernel to restore the invariant from it. `EnvInv` adds
  `BootState` (until boot ends every slot is free and the list is in order, so
  that `i386_init` allocates distinct slots) and `NotYetScheduled` (a processor
  that has not reached the scheduler has no environment).
* `PageTablesCorrect`: with such programs `UserPageTables`, from `EnvInv`
  and `OwnPageTables`: CR3 is the current environment's from `lcr3()` on.
* `FreeListCorrect`: `FreeListExact` for itself, from the same invariant.
* `CreatorKills`: `KilledByCreator`, whatever programs do. The invariant,
  `CreatorInv`, is the arithmetic of ids: the generation of a parent's slot is
  the one in `env_parent_id`, advanced by `successors` and begun again at 1
  (`Parents`, `Later`), so that it is the same again only after `MaxGen` of them;
  a slot that somebody has had has a generation other than 0 (`Numbered`), so
  that nobody is the parent of the environments that the kernel made.

**SpinlockProofs**

* `SpinlockSafe`: `LockState` and `MisuseCaught`. Inductive invariant: both and
  `TypeOK`. `LockState` says what the owner reads from `lk->cpu` at each place,
  that only the owner has stores pending, and that memory names the owner or
  nobody.
* `SpinlockPanicsRightly`: `holding()` is exact although it reads two words of a
  lock that changes under it: nobody panics who has not misused the lock.
* `SpinlockImplementsLock`: every step of `Spinlock` is a step of
  `KernelLock` or leaves `owner` alone.

**PmapProofs**

* `PagesAreExact`: `PagesExact` for every number of pages, of entries in a table
  and of environments, and for every address below UTOP that the hypotheses
  allow. Hypothesis `Sound` excludes what section 5 says breaks the counts: the
  three kinds of call that the kernel mishandles (`Habits = {}`), addresses
  that `env_free()` does not get to (`Reached`), and pages that `load_icode()`
  has counted twice (`BootVA` empty). `[]NoOverflow` says that no `pp_ref` gets to
  its largest value, which no code tests. The constants of `pmap_low` satisfy
  `Sound`, and every state that it reaches `NoOverflow`.

  The invariant is `Heap(M, lev, ext, out)`, about the record `M` of physical
  memory that the operators pass on, so that it can be stated in the middle of
  an operation. `lev` says which page is a table of which level and is chosen
  anew after each step; from it come `Slots`, the entries that count as
  references to a page. `ext` is the number of its references that are not
  entries: from `env_pml4e`, or held by a call that has not stored them yet. `out`
  are pages off the list and not in use yet. The parts are: counts are the
  slots plus `ext`; the list has each page that has count 0 and is not `out`, once;
  a table has one reference; entries of one level lead to tables of the next
  (`TreeShape`), from which it follows that the walks of `page_remove()` and of
  `env_free()` end where they should and that page tables are no one's data;
  nothing is mapped where `env_free()` does not look (`WithinReach`).

  There is one lemma for each step of which the operations consist: take the
  head of the list (`AllocKeeps`), count (`IncrefKeeps`), write and clear an entry
  (`SetKeeps`, `ClearKeeps`), give a reference back (`DropKeeps`, `FreeKeeps`).
  `NewTable` and `Undone` are `new_table` and `drop_table`; `PgdirWalk`, `PdpeWalk`
  and `Pml4eWalk` say of each walk that it returns the entry for its address or
  has left every entry as it was. The three nested loops of `env_free()` are
  treated by induction over the index (`Iterates`), with the invariant that the
  table is empty up to there (`TableEmptied`, `DirectoryEmptied`, `TreeEmptied`):
  a table is given back only when nothing in it counts as a reference any more.

* `SpacesAreApart` and `SilentCallsKeepPages`: `Isolation` and `NoSilentChange`,
  under the same hypotheses. Both follow from `Shift`, which says in one of three
  ways what a step makes of the address spaces: it changes none, and no count
  and not the list either; or it puts one entry at one address of one environment
  (`Put`); or an environment begins with an empty space or ends, and the others
  keep theirs (`Replaced`). An entry that is put is `Rightful`: nothing, where
  something was mapped, a page that was free, or a page of another mapping with
  no more rights than that has. `Heap` yields this: a table has one reference, so the tables
  on the way to the addresses of one environment (`OfSpace`) are not on the way
  to another's (`SpacesApart`), and what an operation does to them changes
  nothing there (`OthersKept`); two addresses of one environment that share their
  last table differ in the entry (`OneWay`). A walk that adds tables adds empty
  ones, and a walk that runs out of memory takes its tables back: neither is seen
  by a translation (`GrownMap`). That a page inserted where it already is costs no
  reference, although `page_insert()` counts up first and then removes the old
  mapping, is `InsertAgain`. The model's `NULL` must not be an address space, which
  `PmapAssumption` says: it stands for an environment that has none.

**PipeProofs**

* `PipeIsStream`: `Pipe` implements `Stream`, for every size of the buffer and
  every number of environments that hold the ends. `StreamInv` says where in the
  ring each unread byte is, and that what the reader and the writer have tested
  is still true when they act on it: only one of them moves each position.
* `CountsAreRight`: `CountsTell`, that equal counts mean that the other end is not
  open, whoever is stopped in the middle of whichever call.
  `MapInv` describes the mappings of an environment at each place of `close()`,
  `dup()` and `fork()`: data pages before descriptors, and a child never more
  than its parent has.
* `ClosedMeansClosed`: with `NCPU = 1`, `_pipeisclosed()` says closed only for a
  closed pipe. `AskInv`: as long as the caller has not been taken off the
  processor, what it read of the counts is what they are. On two processors
  this is false (section 5).

**FsServerProofs**

* `EntriesAreKept` (`EntryKept`) and `DescriptorsMeanFiles`
  (`DescriptorMeansFile`: the file that was opened, or, if a file was removed
  while open, whichever has its `struct File` now), for every number of clients,
  descriptors, entries and files, with ids that wrap. Invariant `IInv`
  (`ServerInvariant`). What has to be added to the properties is who still holds the page of a request that is under
  way: `ClientInv` (a client keeps the page from the request to the answer, and
  names the id that is in it), `ServerInv` (the server works for a client that
  listens or is dead, and is about to send the page of the file that this client
  named) and `IdInv` (an id modulo `MAXOPEN` is its entry; `IdKeepsEntry` shows
  that adding `MAXOPEN` modulo 2^32 keeps this).
* `OffsetsArePrivate` (`PrivateOffset`): a descriptor that was never shared by
  `fork()` has the offset that its program's calls add up to, with `dup()`ed
  descriptors and reused entries. A second invariant on top, `PInv`: a page that
  no `fork()` has shared has one holder (`OneHolder`), which is in its call while
  the server works on it (`AskerHolds`), so no `seek()` of it falls between the
  transfer and the update; the page that is about to be sent is in nobody's table
  (`SentIsNew`), in particular not in a destroyed client's, whose pages stay
  counted. Where two programs do share it, a `seek()` there is lost (section 5).
* `WhenTheServerStops` (`ServerSurvives`): only when a client died before its
  answer, or when memory had been refused and a descriptor page was to be sent.

**ForkProofs**

* `MemoryPrivate`: `MemoryIsPrivate`, for every layout of a program, every number
  of environments and both fault handlers: what a program reads is what it or,
  before the fork, its parent wrote, and a shared page is shared. The invariant
  (`ForkInvariant`) has ten parts. The central ones are `OwnerInv`, that a
  writable private page is mapped exactly once, and its three moments of
  exception: between `sys_page_map` and `sys_page_unmap` of `pgfault()`, where
  the page is at `PFTEMP` too; while `fork()` copies the stack; and between the
  two `sys_page_map`s of `duppage()`, where the child has the page and the parent
  can still write to it. What makes the last one harmless is in `DupInv`: the
  parent handles no fault there, so that its next step is the second call.
  `FrameInv` and `TempInv` say where in a handler an environment is and what is
  at `PFTEMP` then, `CopyInv` and `ReadyInv` that the copies that `pgfault()` and
  `fork()` make are complete before they are mapped, `FamilyInv` who is
  whose child in the making, `ShareInv` where `PTE_SHARE` pages are.
* `ForkLosesLast`: `LosesOnlyLastPages`, for every layout and every size of the
  tables. The loop of `fork()` that skips a missing table goes one page too far,
  every time. `CoverInv` says that while the loop is at an address, every page of
  the parent above it is in the child, was refused, or is lost (`Scanned`); and
  that where nothing is mapped the loop is off by no more pages than tables are
  missing above it (`TableHole`, `DirectoryHole`), since each skip meets one
  missing table more. The division lemmas (`Quotient`, `Nested`) take an address
  apart into directory, table and entry (`Place`), and each skip is a step in
  these coordinates (`SkippedByTable`, `SkippedByDirectory`). What a parent has
  mapped (`Filled`) does not change under it: `MapOf` says that its page faults
  map only where something is mapped already.

**ConsoleProofs**

* `InputArrives`: `InputIsStream`, for every size of the ring and every set of
  keys. Hypothesis `OneOfEach`: one modifier key for each flag. With both shift
  keys the property is false (section 5): the driver keeps a flag and not the
  keys. `KeyAssumption` says that key codes differ from E0 and what it leaves,
  and that the two devices' characters can be told apart. The invariant
  (`InputInv`) has the ring's positions and, in `Arrives`, what the codes on their
  way will become: the driver, run over them (`Decodes`), comes from its flags to
  those of the keys that are down and from what is decoded to what was typed.
* `EchoIsTheLine`: `EchoShowsLine`, for every size of the screen and the line.
  `Shows` says that the characters before the cursor are the end of a text; the
  lemmas say what writing, scrolling and deleting do to it.

**StartupProofs**

* `ImagesAreLoaded` (`ImageLoaded`): each loader puts every byte of every
  segment where the linker wanted it, for every `WellLinked` image and every
  size of sectors and pages. One invariant per loader: the boot
  loader reads whole sectors and may overwrite what is after a segment, but not
  the segments before; `spawn()` fills a page at `UTEMP` before it maps it.
* `ArgumentsDoArrive` (`ArgumentsArrive`): the page that `init_stack()` arranges
  reads back as the arguments, for every list that fits. The lemmas on
  the lengths of strings and on words that are made of bytes are proved by
  induction.
* `FreePagesAreUnused` (`FreePagesUnused`): the free list never has a page twice
  or one that is in use, on every machine that is `Plain`: the list is made
  once, from numbers that do not change any more, and everything later takes
  from it or changes its order.
* `StacksAreOwn` (`OwnStack`): on an `Orderly` machine every processor has the
  stack of its own index. `TurnInv`: at most one processor is between its
  start-up interrupt and being up, the one for which `mpentry_kstack` was set.

Where a proof needs induction over data (lengths, folds written as recursive
functions) it goes by two lemmas of `StartupProofs`: `NatSetInduction`, induction
for a set of numbers instead of a predicate, and `RecursionUpTo`, that a
recursive function has the values its equation gives it. The library's own
theorems take an operator as a parameter and are not available.

Only model-checked:

* `NoStarvation`, `Progress`, `Unblocks`, `ForkReturns`, `Answered`,
  `LineReturned` and `BootCompletes`: liveness is out of the prover's reach.
* `BlocksOwnedOnce`, `DiskOwnedOnce`, `FlushedSurvives` and `StartsAgain` of
  `FsDisk`. Its operations walk blocks, directory entries and the block cache
  with folds, so each proof would first need what a fold over a sequence of them
  leaves, by induction over the data.
* The three properties of `Text`, which are about recursive conversions.
* A violation run is by its nature a single counterexample.

## 5. Where code and comments disagree, and what goes wrong

`fork_nested` is the finding of `PROJECT.json` that has a run. What else was met
is here. Where a configuration is named, change its constants as given and
check only that property: TLC finds it violated.

| where | what | how |
|---|---|---|
| `kern/syscall.c:134` | `sys_env_set_status()` sets a child RUNNABLE that is running on another processor, and a second processor picks it; `sched.c:27` says "Never choose an environment that's currently running on another CPU". | `kernel_smp`, `Disciplined = FALSE`, `RunsOnOneCpu` |
| `kern/env.c:518` | A parent that destroys a zombie again, by its id that is still valid, frees it while another processor still runs it on the page tables that are freed; `env.c:516` says "A zombie environment will be freed the next time it traps to the kernel." | `kernel_smp`, `KillsZombies = TRUE`, `ZombieFreedByItsCpu` |
| `kern/env.c:591` | `env_run()` releases the lock before `lcr3()`: the environment it switched away from can be freed with its page tables still loaded. `env.c:444` takes care of this only for the freeing processor. | `kernel_smp`, `Cr3NeverFreed` |
| `kern/trap.c:311` | A device interrupt that ends `hlt` has no case in `trap_dispatch()` and panics. | `kernel_fair`, with an invariant `~panicstr` |
| `kern/sched.c:35` | When environments exit, `curenv` is null and the search starts at slot 0, so a high slot can starve. | `kernel_fair` with `"destroy"` for `"device"`, `NoStarvation` |
| `kern/pmap.c:744` | Unmapping an unmapped address counts physical page 0 down and may put it on the free list; `pmap.c:724` says "silently does nothing". `fd_close()` does this for every pipe. | `pmap_low`, `Habits = {"unmap_unmapped"}`, `NoSilentChange` |
| `kern/pmap.c:714` | `page_lookup()` does not look at `PTE_P`: mapping an unmapped source maps page 0. | `pmap_low`, `Habits = {"map_unmapped"}`, `Page0Reserved` |
| `kern/env.c:464` | `env_free()` does not reach the stack, the exception stack or the descriptors; `env.c:434` says "Frees env e and all memory it uses." A *killed* environment keeps its end of a pipe open for ever. | `pmap_low`, `VA <- Stack`, `NoLeak` |
| `kern/env.c:308` | `region_alloc()` counts a reference that `page_insert()` counts too: a boot environment's pages are never freed. | `pmap_low`, `BootVA <- Text`, `NoLeak` |
| `kern/syscall.c:397` | A page sent to a receiver that wants none is mapped where the receiver said, at or above UTOP, over the kernel's mapping. | `pmap_low`, `Habits = {"unwanted_page"}`, `KernelMappingKept` |
| `inc/memlayout.h:199` | `pp_ref` is 16 bits wide and not checked. | `pmap_low`, `RefMod = 2`, `RefExact` |
| `kern/syscall.c:219` | UTOP is in PML4 entry 1, which all environments share: addresses just below it are not private. | `pmap_low`, `VA <- Shared`, `Isolation` |
| `kern/pmap.c:556` | A walk without `create` goes on through a missing table as if it were physical page 0, so `user_mem_check()` reads the BIOS's data as page table entries. | `pmap_low`, `UserMemCheckExact` |
| `lib/pipe.c:82` | `env_runs` shows interference only on one processor; on two an open pipe can appear closed. `testpiperace2.c` expects it not to. | `pipe_up`, `NCPU = 2`, `NoFalseClosed` |
| `lib/pipe.c:124` | The reader tests for empty, then for closed, and not again: end of file with bytes unread. | `pipe_up`, `EofAtTheEnd` |
| `lib/pipe.c:167` | Positions are signed 32-bit and never reduced: after 2 GB the index is negative. | not in the model: `MaxWrites` keeps them small |
| `lib/spawn.c:290` | `map_segment()` returns when `readn()` fails, and `spawn()` does not unmap `UTEMP` either; `spawn.c:67` says "allocate a page in the parent temporarily at UTEMP". | `startup`, `UtempIsTemporary` |
| `lib/printfmt.c:206` | `vprintfmt()` takes 64 bits for every number, so the upper half of an int's register, which the caller leaves undefined, is printed too; `printfmt.c:204` says "(signed) decimal". | `text`, `SignedDecimal` |
| `fs/fs.c:467` | A file cut inside its indirect blocks clears the pointers in the cache only; the next allocation, and `fs_sync()`, write the bitmap first. After a crash two files have the block. | `DiskOwnedOnce` without its exception (`~cutinside`) |

Stated by the models in the properties themselves, as exceptions, or visible in
the definitions:

* **Fork.** `fork.c` and `duppage()` test `0 < r` where errors are negative, so a
  page that could not be mapped is missing in the child (`refused`); the loop
  is one page further off for every missing table it meets, and so steps over
  pages that are mapped (`LosesOnlyLastPages`); the
  test at `fork.c:29` is not the one its comment describes.
* **File system.** `check_bc()` smashes the super block at every start, so that a
  crash there loses the disk (`StartsAgain` exempts it); `fs_test()` looks for
  `/not-found`, which fills the holes of the root directory, so that the server
  panics when the disk has fewer free blocks (`RootLacks`); `file_create()` sets
  neither type nor size of a `struct File` that it uses again, so that a file may
  be a directory; `/bin` can be cut and written like a file; `fs_test()` takes a
  block for good every time; `file_write()` has grown the file when it finds
  the disk full; reading a hole allocates; `fsformat` gives a file of exactly
  NDIRECT blocks an indirect block.
* **File server.** A file that is removed while open leaves its `struct File` to
  the next one created (`unlinked`). A `seek()` of one of two programs that share a descriptor,
  between the other's transfer and its `fd_offset +=`, is lost (`raced`). `sync()` as the first request after `fork()`
  panics the client, because `fsipcbuf` is still copy-on-write. `read()` may
  return PGSIZE bytes and `write()` asserts that they fit with a header. A client
  that is destroyed before its answer takes the server down (`orphaned`), and so
  does memory that runs out when a descriptor page is sent (`lib/ipc.c:72`). The
  descriptor pages of destroyed clients keep their entries in use for ever. File
  ids above 2^31 are negative and taken for errors.
* **Console.** DEL on an empty line and the arrow keys are inserted as
  characters; with two shift keys held, releasing one ends SHIFT; `ctlmap` has
  its entry for KEY_HOME at 0x97; keyboard and serial interrupts are not
  dispatched, so input is only polled; when the ring is full all of it is lost.
* **Loading.** `sys_env_set_trapframe` is not dispatched, so that `spawn()` always
  ends in its panic, although `spawn.c:18` says "Returns child envid on success,
  < 0 on failure." When no environment is free the file stays open, when the
  stack cannot be made the child stays too, and a failed `readn()` leaves UTEMP
  mapped (`UtempIsTemporary`). `spawn.c:229` says that argv is below argc; it is above. The boot
  loader reads `memsz` bytes, and only the last bss is cleared.
* **Booting.** `page_init()` counts free pages from the end of base memory: pages
  between the entry page and the hole are never free, and on a small machine
  the loop writes past `npages`. More memory than `bootstrap.S` maps makes the
  first allocations fault. Extended memory with a hole or overlapping regions
  is miscounted (`Plain`); a map of one region is ignored; inserting into a full
  `mmap_list` writes one entry past it; `boot_map_region()`'s `int i` overflows at
  2 GB; `page_check()` loses three pages. `mpsearch()` looks at 0xF0000 only, its
  comment says 0xE0000. `cpu_id` is an index and not the APIC id, so that gaps
  hang `boot_aps()`, and a boot processor that is not at its own index marks
  another's entry: processors may then share a stack (`Orderly`). Without a
  table `ncpu` stays 0.
* **Text.** `%-5d` pads with minus signs; padding separates a sign from its
  number; `%d`, `%u` and `%x` read an int as 64 bits (`SignedDecimal`); `%o` prints XXX.

## 6. Plan

All the modules of section 2 are checked, and all but `FsDisk` and `Text` have
proofs. What would come next:

1. `FsDisk`: `BlocksOwnedOnce` and `DiskOwnedOnce`, operation by operation, with
   the folds replaced by what they leave.
2. `Pmap`: `NoLeak`, for the addresses that `env_free()` gets to, from `Heap`.

## 7. Not modelled

* The TLB: hazards at `tlb_invalidate()` are listed and uncovered.
* Register programming without shared state: the 8259, the clock, the serial
  port, the parallel port, the switch to long mode, the IDT and the TSS. A
  sector transfer of `fs/ide.c` is atomic in `FsDisk`; torn writes are left out.
* `kern/kdebug.c` and the vendored `libdwarf*`, `elf_rw` and `dwarf*.h`, and the
  monitor's commands: they only print.
* The remaining string functions (one-line loops), buffered output to files
  (`lib/fprintf.c`), `wait()`, `spawnl()`, console descriptors.
* The shell and the other user programs: they are the environment of the models.
  The shell cannot run a command, because `spawn()` cannot complete.
* `src/pmap.c`, `kern/pmapold.c` and `kern/trapold.c` are old copies that the
  build does not compile.
