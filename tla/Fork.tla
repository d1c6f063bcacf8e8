--------------------------------- MODULE Fork ---------------------------------
(* Copy-on-write fork() and user-level page faults: lib/fork.c, lib/pgfault.c, *)
(* lib/pfentry.S, page_fault_handler() of kern/trap.c, and the system calls    *)
(* they make.  One step is one system call, one page fault, or one access that *)
(* can fault; environments are preempted between any two steps.                *)
(*                                                                             *)
(* A page holds one word of data: what was written to it last.  The word on a  *)
(* stack page is the place of the last call that pushed something there.       *)
EXTENDS Integers, FiniteSets, Sequences, TLC

CONSTANTS
    Env,            \* slots of envs[]
    First,          \* the environment that is running at the start
    Page,           \* numbers of the physical pages programs can have
    NPDENTRIES,     \* entries of a page table (512)
    VA,             \* page numbers of user addresses
    PFTEMP, UTEXT, DATA, USTACK, UXSTACK,   \* the pages of memlayout.h, and the one with thisenv
    Layouts,        \* what First may have mapped: functions from pages to "ro", "rw", "share"
    Handlers,       \* what programs install: "pgfault" (by fork) and "alloc" (user/faultalloc.c)
    MaxRefused,     \* how often memory for a child's page tables may run out
    MaxFrames,      \* user trap frames that fit on the exception stack
    Word,           \* what programs write
    Touched,        \* pages that programs read and write
    Holes,          \* pages that faultalloc touches although nothing is mapped there
    MaxForks        \* bound on the forks of a behaviour

ASSUME ForkAssumption ==
    /\ First \in Env
    /\ NPDENTRIES \in Nat \ {0}
    /\ {0, PFTEMP, UTEXT, DATA, USTACK, UXSTACK} \cup Touched \cup Holes \subseteq VA /\ VA \subseteq Nat
    /\ PFTEMP < UTEXT /\ UTEXT < USTACK /\ USTACK < UXSTACK
    /\ Page \subseteq Nat \ {0}
    /\ \A l \in Layouts :
          /\ {UTEXT, DATA} \subseteq DOMAIN l /\ DOMAIN l \subseteq VA /\ IsFiniteSet(DOMAIN l)
          /\ \A va \in DOMAIN l : UTEXT <= va /\ va < USTACK /\ l[va] \in {"ro", "rw", "share"}
          /\ l[DATA] # "share"
          /\ 1..(Cardinality(DOMAIN l) + 1) \subseteq Page

VARIABLES
    env_status,     \* FREE, NOT_RUNNABLE, RUNNABLE, or PANIC: in the panic() of lib/panic.c
    pt,             \* the page table entries of each environment
    mem,            \* the word in each physical page
    upcall,         \* env_pgfault_upcall is set
    handler,        \* _pgfault_handler, a variable of the program
    pc,             \* where the program is when it is not handling a fault
    utf,            \* the user trap frames on the exception stack, innermost last
    child,          \* the variable envid of fork()
    addr,           \* the variable addr of fork()
    perm,           \* the variable perm of duppage()
    word,           \* history: the word that a program last wrote or inherited, by page
    shared,         \* history: the word last written to each PTE_SHARE page
    refused,        \* history: pages that sys_page_map() did not map into the child
    forks           \* counts fork(), for the bound

vars == <<env_status, pt, mem, upcall, handler, pc, utf, child, addr, perm, word, shared, refused, forks>>
history == <<word, shared, refused, forks>>
locals == <<child, addr, perm>>

None == "none"
Zero == "zero"
Absent == [page |-> 0, w |-> FALSE, cow |-> FALSE, share |-> FALSE]
Present(pte) == pte # Absent
NoPages == [va \in VA |-> Absent]

(******************************* system calls ********************************)
\* Pages in use have a reference; the others are on the free list (module Pmap).
Mapped == {pt[e][va].page : e \in Env, va \in VA} \ {0}
FreePages == Page \ Mapped
page_alloc == LET free == FreePages IN CHOOSE p \in free : \A q \in free : p <= q

\* sys_page_alloc() with PTE_W: a zeroed page at va of environment e.
Fresh(p) == [page |-> p, w |-> TRUE, cow |-> FALSE, share |-> FALSE]

\* The tests of sys_page_map(): something is mapped, and write access is not gained.
MayMap(src, want) == Present(src) /\ (want.w => src.w)

(****************************** page faults **********************************)
Frame(va, wr, at) == [va |-> va, wr |-> wr, at |-> at]

Dies(e) ==
    /\ env_status' = [env_status EXCEPT ![e] = "FREE"]
    /\ pt' = [pt EXCEPT ![e] = NoPages]
    /\ upcall' = [upcall EXCEPT ![e] = FALSE]
    /\ handler' = [handler EXCEPT ![e] = None]
    /\ pc' = [pc EXCEPT ![e] = "run"]
    /\ utf' = [utf EXCEPT ![e] = <<>>]
    /\ child' = [child EXCEPT ![e] = e]
    /\ addr' = [addr EXCEPT ![e] = 0]
    /\ perm' = [perm EXCEPT ![e] = Absent]
    /\ word' = [word EXCEPT ![e] = [va \in VA |-> Zero]]
    /\ refused' = [refused EXCEPT ![e] = {}]
    /\ UNCHANGED <<mem, shared, forks>>

\* page_fault_handler(): without an upcall, a writable exception stack and room
\* on it the environment is destroyed; otherwise a frame is pushed there.
page_fault_handler(e, va, wr) ==
    IF upcall[e] /\ pt[e][UXSTACK].w /\ Len(utf[e]) < MaxFrames
    THEN /\ utf' = [utf EXCEPT ![e] = Append(@, Frame(va, wr, "enter"))]
         /\ UNCHANGED <<env_status, pt, mem, upcall, handler, pc, locals, history>>
    ELSE Dies(e)

\* The return of a nested fault, in words of 4 bytes.  page_fault_handler() has
\* put a frame of 40 words below the trap-time stack pointer rsp and left Scratch
\* words between them.  utf_rip and utf_rsp are at words 34 and 38 of a frame.
Scratch == 1
NestedReturn(rip) ==
    LET rsp   == 100
        frame == rsp - 40 - Scratch
        saved == (frame + 34 :> rip[1]) @@ (frame + 35 :> rip[2])
                 @@ (frame + 38 :> <<"low", rsp>>) @@ (frame + 39 :> "high")
        \* movq %rbx, (%rcx): the return address, 8 bytes below rsp
        pushed == (rsp - 2 :> rip[1]) @@ (rsp - 1 :> rip[2]) @@ saved
        \* movq %rcx, 152(%rsp): the new stack pointer, into utf_rsp
        stored == (frame + 38 :> <<"low", rsp - 2>>) @@ (frame + 39 :> "high") @@ pushed
    IN  <<stored[rsp - 2], stored[rsp - 1]>>

\* _pgfault_upcall after the handler: back to the faulting instruction.  The
\* first frame is not on the trap-time stack, so that its push is harmless.
Resume(e) ==
    LET n == Len(utf[e])
        back == SubSeq(utf[e], 1, n - 1)
        exact == n = 1 \/ NestedReturn(<<"rip", "high">>) = <<"rip", "high">>
        lost == Frame(back[n - 1].va, back[n - 1].wr, "lost")
    IN  utf' = [utf EXCEPT ![e] = IF exact THEN back ELSE [back EXCEPT ![n - 1] = lost]]

Panics(e) ==
    /\ env_status' = [env_status EXCEPT ![e] = "PANIC"]
    /\ UNCHANGED <<pt, mem, upcall, handler, pc, utf, locals, history>>

(************************* the handler of lib/fork.c *************************)
Top(e) == utf[e][Len(utf[e])]
Handling(e) == env_status[e] = "RUNNABLE" /\ utf[e] # <<>>
Goto(e, place) == utf' = [utf EXCEPT ![e][Len(utf[e])] = Frame(Top(e).va, Top(e).wr, place)]
At(e, place) == Handling(e) /\ Top(e).at = place

pgfault_alloc(e) ==
    /\ At(e, "enter") /\ handler[e] = "pgfault"
    /\ IF (~Top(e).wr /\ pt[e][Top(e).va].cow) \/ FreePages = {}
       THEN Panics(e)
       ELSE /\ pt' = [pt EXCEPT ![e][PFTEMP] = Fresh(page_alloc)]
            /\ mem' = [mem EXCEPT ![page_alloc] = Zero]
            /\ Goto(e, "copy")
            /\ UNCHANGED <<env_status, upcall, handler, pc, locals, history>>

\* memmove(): faults again when the page is not there at all.
pgfault_copy(e) ==
    LET va == Top(e).va IN
    /\ At(e, "copy")
    /\ IF Present(pt[e][va])
       THEN /\ mem' = [mem EXCEPT ![pt[e][PFTEMP].page] = mem[pt[e][va].page]]
            /\ Goto(e, "map")
            /\ UNCHANGED <<env_status, pt, upcall, handler, pc, locals, history>>
       ELSE page_fault_handler(e, va, FALSE)

pgfault_map(e) ==
    /\ At(e, "map")
    /\ IF MayMap(pt[e][PFTEMP], Fresh(0))
       THEN /\ pt' = [pt EXCEPT ![e][Top(e).va] = Fresh(pt[e][PFTEMP].page)]
            /\ Goto(e, "unmap")
            /\ UNCHANGED <<env_status, mem, upcall, handler, pc, locals, history>>
       ELSE Panics(e)

pgfault_unmap(e) ==
    /\ At(e, "unmap")
    /\ pt' = [pt EXCEPT ![e][PFTEMP] = Absent]
    /\ Resume(e)
    /\ UNCHANGED <<env_status, mem, upcall, handler, pc, locals, history>>

(*********************** the handler of user/faultalloc.c ********************)
alloc_handler(e) ==
    /\ At(e, "enter") /\ handler[e] = "alloc"
    /\ IF FreePages = {} THEN Panics(e)
       ELSE /\ pt' = [pt EXCEPT ![e][Top(e).va] = Fresh(page_alloc)]
            /\ mem' = [mem EXCEPT ![page_alloc] = Zero]
            /\ word' = [word EXCEPT ![e][Top(e).va] = Zero]
            /\ Goto(e, "print")
            /\ UNCHANGED <<env_status, upcall, handler, pc, locals, shared, refused, forks>>

\* snprintf() at the faulting address; the text may run into the next page.
alloc_print(e) ==
    LET next == Top(e).va + 1 IN
    /\ At(e, "print")
    /\ \/ Resume(e) /\ UNCHANGED <<env_status, pt, mem, upcall, handler, pc, locals, history>>
       \/ /\ next \in VA /\ ~pt[e][next].w
          /\ page_fault_handler(e, next, TRUE)

\* A handler that was resumed at a wrong address fetches from an unmapped page.
LostFetch(e) == At(e, "lost") /\ page_fault_handler(e, 0, FALSE)

(******************************** programs ***********************************)
\* The next step of the program itself is at place.
Runs(e, place) ==
    /\ env_status[e] = "RUNNABLE" /\ utf[e] = <<>> /\ pc[e] = place
    /\ Present(pt[e][UTEXT])

Write(e, va, w) ==
    /\ Runs(e, "run")
    /\ IF pt[e][va].w
       THEN /\ mem' = [mem EXCEPT ![pt[e][va].page] = w]
            /\ IF pt[e][va].share
               THEN shared' = [shared EXCEPT ![va] = w] /\ UNCHANGED word
               ELSE word' = [word EXCEPT ![e][va] = w] /\ UNCHANGED shared
            /\ UNCHANGED <<env_status, pt, upcall, handler, pc, utf, locals, refused, forks>>
       ELSE page_fault_handler(e, va, TRUE)

\* A read does something only when nothing is mapped.
ReadAbsent(e, va) ==
    /\ Runs(e, "run") /\ ~Present(pt[e][va])
    /\ page_fault_handler(e, va, FALSE)

\* Without its first page a program cannot fetch an instruction.
FetchAbsent(e) ==
    /\ env_status[e] = "RUNNABLE" /\ utf[e] = <<>> /\ ~Present(pt[e][UTEXT])
    /\ page_fault_handler(e, UTEXT, FALSE)

Exit(e) == Runs(e, "run") /\ Dies(e)

\* set_pgfault_handler() called with a handler of the program's own.
set_alloc_handler(e) ==
    /\ "alloc" \in Handlers /\ Runs(e, "run") /\ handler[e] = None
    /\ IF FreePages = {} THEN Panics(e)
       ELSE /\ pt' = [pt EXCEPT ![e][UXSTACK] = Fresh(page_alloc)]
            /\ mem' = [mem EXCEPT ![page_alloc] = Zero]
            /\ word' = [word EXCEPT ![e][UXSTACK] = Zero]
            /\ handler' = [handler EXCEPT ![e] = "alloc"]
            /\ upcall' = [upcall EXCEPT ![e] = TRUE]
            /\ UNCHANGED <<env_status, pc, utf, locals, shared, refused, forks>>

(********************************** fork() ***********************************)
\* A call pushes its return address: the stack must be writable.
Calls(e, place) == Runs(e, place) /\ pt[e][USTACK].w
ForkPlaces == {"exofork", "scan", "dup child", "dup self", "uxstack", "stack", "temp",
               "untemp", "set upcall", "set status"}
PushFaults(e) ==
    /\ pc[e] \in ForkPlaces \cup {"child"} /\ Runs(e, pc[e]) /\ ~pt[e][USTACK].w
    /\ page_fault_handler(e, USTACK, TRUE)

\* What the call leaves on the stack.
Pushed(e) == [mem EXCEPT ![pt[e][USTACK].page] = pc[e]]
WordPushed(e) == [word EXCEPT ![e][USTACK] = pc[e]]
Moves(e, place) == pc' = [pc EXCEPT ![e] = place]

\* fork() up to sys_exofork(), in a program without a handler of its own: set_pgfault_handler(pgfault) allocates an
\* exception stack only when the program has no handler yet.
fork(e) ==
    /\ "pgfault" \in Handlers /\ forks < MaxForks /\ handler[e] # "alloc"
    /\ Runs(e, "run") /\ pt[e][USTACK].w
    /\ IF handler[e] = None /\ FreePages = {} THEN Panics(e)
       ELSE /\ IF handler[e] = None
               THEN /\ pt' = [pt EXCEPT ![e][UXSTACK] = Fresh(page_alloc)]
                    /\ mem' = [Pushed(e) EXCEPT ![page_alloc] = Zero]
                    /\ word' = [WordPushed(e) EXCEPT ![e][UXSTACK] = Zero]
               ELSE mem' = Pushed(e) /\ word' = WordPushed(e) /\ UNCHANGED pt
            /\ handler' = [handler EXCEPT ![e] = "pgfault"]
            /\ upcall' = [upcall EXCEPT ![e] = TRUE]
            /\ Moves(e, "exofork")
            /\ forks' = forks + 1
            /\ UNCHANGED <<env_status, utf, locals, shared, refused>>

\* sys_exofork() is inlined: it pushes nothing.  Without a free slot fork() panics.
sys_exofork(e) ==
    /\ Runs(e, "exofork")
    /\ \/ /\ \A f \in Env : env_status[f] # "FREE"
          /\ Panics(e)
       \/ \E f \in Env :
            /\ env_status[f] = "FREE"
            /\ env_status' = [env_status EXCEPT ![f] = "NOT_RUNNABLE"]
            /\ pc' = [pc EXCEPT ![f] = "child", ![e] = "scan"]
            /\ child' = [child EXCEPT ![e] = f]
            /\ addr' = [addr EXCEPT ![e] = USTACK]
            /\ refused' = [refused EXCEPT ![f] = {}]
            /\ UNCHANGED <<pt, mem, upcall, handler, utf, perm, word, shared, forks>>

\* Page tables, and directories of page tables, that have an entry: uvpd, uvpde.
Table(va) == va \div NPDENTRIES
Directory(va) == va \div (NPDENTRIES * NPDENTRIES)
uvpd(e, a) == \E va \in VA : Table(va) = Table(a) /\ Present(pt[e][va])
uvpde(e, a) == \E va \in VA : Directory(va) = Directory(a) /\ Present(pt[e][va])

\* Mutant: the directory that is skipped is counted twice.
SkipsTwice(e, a) == IF ~uvpde(e, a) THEN 2 * NPDENTRIES * NPDENTRIES + 1
                    ELSE IF ~uvpd(e, a) THEN 2 * NPDENTRIES + 1 ELSE 1
\* How far one round of the loop goes down when nothing is mapped at a.
Skip(e, a) == IF ~uvpde(e, a) THEN NPDENTRIES * NPDENTRIES + 1
              ELSE IF ~uvpd(e, a) THEN NPDENTRIES + 1 ELSE 1

\* One address of the loop; duppage() reads the entry after it has been called.
fork_scan(e) ==
    LET a == addr[e]
        here == a \in VA /\ Present(pt[e][a])
    IN
    /\ Runs(e, "scan")
    /\ \/ /\ a < UTEXT
          /\ Moves(e, "uxstack")
          /\ UNCHANGED <<env_status, pt, mem, upcall, handler, utf, locals, history>>
       \/ /\ a >= UTEXT /\ ~here
          /\ addr' = [addr EXCEPT ![e] = a - Skip(e, a)]
          /\ UNCHANGED <<env_status, pt, mem, upcall, handler, pc, utf, child, perm, history>>
       \/ /\ a >= UTEXT /\ here /\ pt[e][USTACK].w
          /\ perm' = [perm EXCEPT ![e] = pt[e][a]]
          /\ mem' = Pushed(e) /\ word' = WordPushed(e)
          /\ Moves(e, "dup child")
          /\ UNCHANGED <<env_status, pt, upcall, handler, utf, child, addr, shared, refused, forks>>

\* duppage(): writable and copy-on-write pages become copy-on-write, shared ones stay.
Splits(p) == ~p.share /\ (p.w \/ p.cow)
Cow(p, page) == IF Splits(p) THEN [page |-> page, w |-> FALSE, cow |-> TRUE, share |-> FALSE]
                ELSE [page |-> page, w |-> p.w, cow |-> p.cow, share |-> p.share]

\* The first sys_page_map() of duppage(), into the child.  Its error is a negative
\* number, which the test 0 < r does not see.  The page mapped is the one at addr now.
duppage_child(e) ==
    LET a == addr[e]
        want == Cow(perm[e], pt[e][a].page)
        again == Splits(perm[e])
        after == IF again THEN "dup self" ELSE "scan"
    IN
    /\ Calls(e, "dup child")
    /\ mem' = Pushed(e)
    /\ Moves(e, after)
    /\ addr' = [addr EXCEPT ![e] = IF again THEN @ ELSE @ - 1]
    /\ \/ /\ MayMap(pt[e][a], want)
          /\ pt' = [pt EXCEPT ![child[e]][a] = want]
          /\ word' = [WordPushed(e) EXCEPT ![child[e]][a] = WordPushed(e)[e][a]]
          /\ UNCHANGED refused
       \/ /\ Cardinality(refused[child[e]]) < MaxRefused
          /\ refused' = [refused EXCEPT ![child[e]] = @ \cup {a}]
          /\ word' = WordPushed(e)
          /\ UNCHANGED pt
    /\ UNCHANGED <<env_status, upcall, handler, utf, child, perm, shared, forks>>

\* Mutant: the parent goes on with a writable entry.
KeepsOwnEntry(e) ==
    /\ Calls(e, "dup self")
    /\ mem' = Pushed(e) /\ word' = WordPushed(e)
    /\ addr' = [addr EXCEPT ![e] = @ - 1]
    /\ Moves(e, "scan")
    /\ UNCHANGED <<env_status, pt, upcall, handler, utf, child, perm, shared, refused, forks>>

\* The second one, for the parent's own entry.
duppage_self(e) ==
    LET a == addr[e] IN
    /\ Calls(e, "dup self")
    /\ mem' = Pushed(e) /\ word' = WordPushed(e)
    /\ pt' = [pt EXCEPT ![e][a] = Cow(perm[e], pt[e][a].page)]
    /\ addr' = [addr EXCEPT ![e] = a - 1]
    /\ Moves(e, "scan")
    /\ UNCHANGED <<env_status, upcall, handler, utf, child, perm, shared, refused, forks>>

\* sys_page_alloc() of a page for the child, whose result fork() ignores.
AllocForChild(e, place, va, after) ==
    /\ Calls(e, place)
    /\ Moves(e, after)
    /\ IF FreePages # {}
       THEN /\ pt' = [pt EXCEPT ![child[e]][va] = Fresh(page_alloc)]
            /\ mem' = [Pushed(e) EXCEPT ![page_alloc] = Zero]
            /\ word' = [WordPushed(e) EXCEPT ![child[e]][va] = Zero]
       ELSE mem' = Pushed(e) /\ word' = WordPushed(e) /\ UNCHANGED pt
    /\ UNCHANGED <<env_status, upcall, handler, utf, locals, shared, refused, forks>>
fork_uxstack(e) == AllocForChild(e, "uxstack", UXSTACK, "stack")
fork_stack(e) == AllocForChild(e, "stack", USTACK, "temp")

\* Mutant: source and destination are swapped.
TempTheWrongWay(e) ==
    /\ Calls(e, "temp")
    /\ mem' = Pushed(e) /\ word' = WordPushed(e)
    /\ pt' = [pt EXCEPT ![child[e]][PFTEMP] = Fresh(pt[e][USTACK].page)]
    /\ Moves(e, "memmove")
    /\ UNCHANGED <<env_status, upcall, handler, utf, locals, shared, refused, forks>>

\* sys_page_map(envid, stack, 0, PFTEMP): also ignored when it fails.
fork_temp(e) ==
    LET theirs == pt[child[e]][USTACK] IN
    /\ Calls(e, "temp")
    /\ mem' = Pushed(e) /\ word' = WordPushed(e)
    /\ pt' = IF MayMap(theirs, Fresh(0)) THEN [pt EXCEPT ![e][PFTEMP] = Fresh(theirs.page)] ELSE pt
    /\ Moves(e, "memmove")
    /\ UNCHANGED <<env_status, upcall, handler, utf, locals, shared, refused, forks>>

\* memmove(PFTEMP, stack): the child's stack becomes what the parent's is now.
\* The call pushes onto the parent's stack, which is private again by then.
fork_memmove(e) ==
    /\ Runs(e, "memmove")
    /\ IF ~pt[e][USTACK].w THEN page_fault_handler(e, USTACK, TRUE)
       ELSE IF ~pt[e][PFTEMP].w THEN page_fault_handler(e, PFTEMP, TRUE)
       ELSE /\ mem' = [Pushed(e) EXCEPT ![pt[e][PFTEMP].page] = "memmove"]
            /\ word' = [word EXCEPT ![e][USTACK] = "memmove", ![child[e]][USTACK] = "memmove"]
            /\ Moves(e, "untemp")
            /\ UNCHANGED <<env_status, pt, upcall, handler, utf, locals, shared, refused, forks>>

fork_untemp(e) ==
    /\ Calls(e, "untemp")
    /\ mem' = Pushed(e) /\ word' = WordPushed(e)
    /\ pt' = [pt EXCEPT ![e][PFTEMP] = Absent]
    /\ Moves(e, "set upcall")
    /\ UNCHANGED <<env_status, upcall, handler, utf, locals, shared, refused, forks>>

\* sys_env_set_pgfault_upcall(envid, thisenv->env_pgfault_upcall)
fork_upcall(e) ==
    /\ Calls(e, "set upcall")
    /\ mem' = Pushed(e) /\ word' = WordPushed(e)
    /\ upcall' = [upcall EXCEPT ![child[e]] = upcall[e]]
    /\ Moves(e, "set status")
    /\ UNCHANGED <<env_status, pt, handler, utf, locals, shared, refused, forks>>

\* sys_env_set_status(envid, ENV_RUNNABLE), and the return of fork().  The child
\* has the program's variables, _pgfault_handler among them, in its data page.
fork_status(e) ==
    LET f == child[e] IN
    /\ Calls(e, "set status")
    /\ mem' = Pushed(e) /\ word' = WordPushed(e)
    /\ env_status' = [env_status EXCEPT ![f] = "RUNNABLE"]
    /\ handler' = [handler EXCEPT ![f] = handler[e]]
    /\ pc' = [pc EXCEPT ![e] = "run"]
    /\ child' = [child EXCEPT ![e] = e]
    /\ addr' = [addr EXCEPT ![e] = 0]
    /\ perm' = [perm EXCEPT ![e] = Absent]
    /\ UNCHANGED <<pt, upcall, utf, shared, refused, forks>>

\* The child's first steps in fork(): sys_getenvid(), and thisenv is set.
fork_child(e) ==
    /\ Calls(e, "child")
    /\ IF ~pt[e][DATA].w THEN page_fault_handler(e, DATA, TRUE)
       ELSE /\ mem' = [Pushed(e) EXCEPT ![pt[e][DATA].page] = "thisenv"]
            /\ word' = [WordPushed(e) EXCEPT ![e][DATA] = "thisenv"]
            /\ Moves(e, "run")
            /\ UNCHANGED <<env_status, pt, upcall, handler, utf, locals, shared, refused, forks>>

-------------------------------------------------------------------------------
(* First has its program and its stack mapped, each on a page of its own.      *)
InitEntry(l, va) ==
    [page |-> 1 + Cardinality({b \in DOMAIN l \cup {USTACK} : b < va}),
     w |-> va = USTACK \/ l[va] # "ro", cow |-> FALSE, share |-> va # USTACK /\ l[va] = "share"]

Init ==
    /\ \E l \in Layouts :
         pt = [e \in Env |-> [va \in VA |->
                 IF e = First /\ va \in DOMAIN l \cup {USTACK} THEN InitEntry(l, va) ELSE Absent]]
    /\ env_status = [e \in Env |-> IF e = First THEN "RUNNABLE" ELSE "FREE"]
    /\ mem = [p \in Page |-> Zero]
    /\ upcall = [e \in Env |-> FALSE]
    /\ handler = [e \in Env |-> None]
    /\ pc = [e \in Env |-> "run"]
    /\ utf = [e \in Env |-> <<>>]
    /\ child = [e \in Env |-> e]
    /\ addr = [e \in Env |-> 0]
    /\ perm = [e \in Env |-> Absent]
    /\ word = [e \in Env |-> [va \in VA |-> Zero]]
    /\ shared = [va \in VA |-> Zero]
    /\ refused = [e \in Env |-> {}]
    /\ forks = 0

Faulting(e) == pgfault_alloc(e) \/ pgfault_copy(e) \/ pgfault_map(e) \/ pgfault_unmap(e)
               \/ alloc_handler(e) \/ alloc_print(e) \/ LostFetch(e)
Forking(e) == PushFaults(e) \/ FetchAbsent(e) \/ sys_exofork(e) \/ fork_scan(e) \/ duppage_child(e)
              \/ duppage_self(e) \/ fork_uxstack(e) \/ fork_stack(e) \/ fork_temp(e)
              \/ fork_memmove(e) \/ fork_untemp(e) \/ fork_upcall(e) \/ fork_status(e) \/ fork_child(e)
Program(e) == fork(e) \/ Exit(e) \/ set_alloc_handler(e)
              \/ \E va \in Touched \cup (IF handler[e] = "alloc" THEN Holes ELSE {}) :
                    ReadAbsent(e, va) \/ \E w \in Word : Write(e, va, w)

Next == \E e \in Env : Faulting(e) \/ Forking(e) \/ Program(e)

Spec == Init /\ [][Next]_vars

\* sched_yield() gives every runnable environment its turn (Kernel!NoStarvation).
FairSpec == Spec /\ \A e \in Env : WF_vars(Faulting(e) \/ Forking(e))

-------------------------------------------------------------------------------
Statuses == {"FREE", "NOT_RUNNABLE", "RUNNABLE", "PANIC"}
Words == Word \cup ForkPlaces \cup {Zero, "memmove", "thisenv", "run", "child"}
Entries == {Absent} \cup [page : Page, w : BOOLEAN, cow : BOOLEAN, share : BOOLEAN]
Frames == [va : VA, wr : BOOLEAN, at : {"enter", "copy", "map", "unmap", "print", "lost"}]

(* Every variable has its type.                                                *)
TypeOK ==
    /\ env_status \in [Env -> Statuses]
    /\ pt \in [Env -> [VA -> Entries]]
    /\ mem \in [Page -> Words]
    /\ upcall \in [Env -> BOOLEAN]
    /\ handler \in [Env -> {None, "pgfault", "alloc"}]
    /\ pc \in [Env -> ForkPlaces \cup {"run", "memmove", "child"}]
    /\ utf \in [Env -> Seq(Frames)]
    /\ child \in [Env -> Env]
    /\ addr \in [Env -> Int]
    /\ perm \in [Env -> Entries]
    /\ word \in [Env -> [VA -> Words]]
    /\ shared \in [VA -> Words]
    /\ refused \in [Env -> SUBSET VA]

(* Whatever is forked, written and copied, in whatever order: an environment   *)
(* finds in each of its private pages what it last wrote there or inherited    *)
(* when it was forked, never a write of its parent, child or sibling, and in a *)
(* PTE_SHARE page what was last written there by anybody.                      *)
(* (lib/fork.c duppage(), pgfault(), fork(); a stack is exempt while its owner *)
(* is not yet runnable, and PFTEMP is no storage of the program's.)            *)
MemoryIsPrivate ==
    \A e \in Env, va \in VA \ {PFTEMP} :
        (Present(pt[e][va]) /\ env_status[e] # "FREE")
        => \/ pt[e][va].share /\ mem[pt[e][va].page] = shared[va]
           \/ ~pt[e][va].share /\ mem[pt[e][va].page] = word[e][va]
           \/ env_status[e] = "NOT_RUNNABLE" /\ va = USTACK

(* A new child has every page of its parent, except pages that the kernel had  *)
(* no memory to map and those that the loop of fork() steps over: pages at the *)
(* end of a table whose next table is missing, or of a directory whose next    *)
(* directory is, and no more of them than there are missing tables above,      *)
(* since each hole puts the loop off by one page more.                         *)
Empty(e, n, va) == \A b \in VA : b \div n = va \div n => ~Present(pt[e][b])
Missing(e, va) == {t \in (Table(va) + 1)..Table(USTACK) : Empty(e, NPDENTRIES, t * NPDENTRIES)}
LosesOnlyLastPages ==
    \A e \in Env : pc[e] = "set status" =>
        \A va \in VA :
            (UTEXT <= va /\ va <= USTACK /\ Present(pt[e][va]) /\ ~Present(pt[child[e]][va]))
            => \/ va \in refused[child[e]]
               \/ \E n \in {NPDENTRIES, NPDENTRIES * NPDENTRIES} :
                     Empty(e, n, va + n) /\ n - 1 - (va % n) < Cardinality(Missing(e, va))

(* fork() returns: the faults that it takes on its own stack while it marks    *)
(* that stack copy-on-write are resolved, as long as there are free pages.     *)
ForkReturns ==
    \A e \in Env : (pc[e] \in ForkPlaces) ~> (pc[e] = "run" \/ env_status[e] # "RUNNABLE")

(* "In the case of a recursive fault on the exception stack, note that the     *)
(* word we're pushing now will fit in the blank word that the kernel reserved  *)
(* for us" (lib/pfentry.S): a nested fault returns to where it happened.       *)
NestedFaultsReturn == \A e \in Env : \A i \in 1..Len(utf[e]) : utf[e][i].at # "lost"
===============================================================================
