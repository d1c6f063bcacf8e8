-------------------------------- MODULE Pmap --------------------------------
(***************************************************************************)
(* Physical pages and page tables: the free list, the reference counts and *)
(* the four-level page tables of kern/pmap.c, and the code that uses them: *)
(* env_setup_vm(), region_alloc() and env_free() of kern/env.c, the        *)
(* memory system calls and the page transfer of kern/syscall.c.            *)
(*                                                                         *)
(* All of it runs under the big kernel lock: every operation is one step.  *)
(***************************************************************************)
EXTENDS Integers, Sequences, FiniteSets

CONSTANTS
    NPAGES,   \* npages
    N,        \* entries of a page table (512)
    TopPdpe,  \* the last PDPE index that env_free() looks at (3)
    UTOP,     \* top of user memory, an address like those in VA
    VA,       \* the user addresses in play: <<PML4, PDPE, PDX, PTX>>
    Env,      \* slots of envs[]
    RefMod,   \* pp_ref counts modulo this (2^16)
    BootVA,   \* sequence of addresses that load_icode() fills at boot
    BiosPage, \* what physical page 0 holds: the BIOS's data, as page table entries
    Habits,   \* calls that the kernel mishandles and programs may make
    NULL

PAGE == 0 .. NPAGES - 1
Index == 0 .. N - 1
KernPages == 0 .. 4
UserPages == PAGE \ KernPages

PML4(va) == va[1]
PDPE(va) == va[2]
PDX(va) == va[3]
PTX(va) == va[4]
Linear(va) == ((PML4(va) * N + PDPE(va)) * N + PDX(va)) * N + PTX(va)
BelowUTOP(va) == Linear(va) < Linear(UTOP)
Address == Index \X Index \X Index \X Index

\* An entry is an address and flags.  PTE_U is set wherever PTE_P is.
Entry == [addr : PAGE, perm : SUBSET {"P", "W"}]

ASSUME PmapAssumption ==
    /\ NPAGES \in Nat /\ NPAGES > 5
    /\ N \in Nat /\ N > 2
    /\ TopPdpe \in Index
    /\ UTOP \in Address /\ PML4(UTOP) = 1 /\ PDPE(UTOP) = 0
    /\ VA \subseteq Address
    /\ RefMod \in Nat /\ RefMod > 1
    /\ BootVA \in Seq(VA)
    /\ Habits \subseteq {"unmap_unmapped", "map_unmapped", "unwanted_page"}
    /\ NULL \notin PAGE /\ \A t \in PAGE, i \in Index : <<t, i>> # NULL
    /\ NULL \notin [VA -> Entry]

VARIABLES
    pp_ref,          \* pages[p].pp_ref
    page_free_list,  \* the list threaded through pp_link, head first
    mem,             \* the entries of page p, if it is used as a page table
    env_pml4e,       \* e's top-level table, or NULL
    panicstr

vars == <<pp_ref, page_free_list, mem, env_pml4e, panicstr>>

Zero == [addr |-> 0, perm |-> {}]
ZeroPage == [i \in Index |-> Zero]

TypeOK ==
    /\ pp_ref \in [PAGE -> 0 .. RefMod - 1]
    /\ page_free_list \in Seq(PAGE)
    /\ mem \in [PAGE -> [Index -> Entry]]
    /\ env_pml4e \in [Env -> PAGE \cup {NULL}]
    /\ panicstr \in BOOLEAN

-----------------------------------------------------------------------------
(***************************************************************************)
(* The operations of pmap.c, on a record M of the physical memory's state. *)
(***************************************************************************)
State == [ref |-> pp_ref, free |-> page_free_list, mem |-> mem,
          panic |-> panicstr]

Set(M) ==
    /\ pp_ref' = M.ref
    /\ page_free_list' = M.free
    /\ mem' = M.mem
    /\ panicstr' = M.panic

\* page_alloc(ALLOC_ZERO) when there is a free page: it is the head.
page_alloc(M) == [M EXCEPT !.free = Tail(@), !.mem[Head(M.free)] = ZeroPage]

incref(M, p) == [M EXCEPT !.ref[p] = (@ + 1) % RefMod]

\* Only the last page of the list has a null pp_link.
Linked(M, p) == \E i \in 1 .. Len(M.free) - 1 : M.free[i] = p

page_free(M, p) ==
    IF M.ref[p] # 0 \/ Linked(M, p) THEN [M EXCEPT !.panic = TRUE]
    ELSE [M EXCEPT !.free = <<p>> \o @]

page_decref(M, p) ==
    LET m == [M EXCEPT !.ref[p] = (@ + RefMod - 1) % RefMod]
    IN  IF m.ref[p] = 0 THEN page_free(m, p) ELSE m

Present(M, t, i) == "P" \in M.mem[t][i].perm

\* What the three walks share: allocate the missing table that entry i of
\* table t is to point to.
new_table(M, t, i) ==
    LET p == Head(M.free)
    IN  [incref(page_alloc(M), p) EXCEPT
            !.mem[t][i] = [addr |-> p, perm |-> {"P", "W"}]]

\* Undo new_table().
drop_table(M, t, i) ==
    page_decref([M EXCEPT !.mem[t][i] = Zero], M.mem[t][i].addr)

\* A walk returns the memory it leaves and where the PTE is: table and index.
Walked(M, pte) == [m |-> M, pte |-> pte]

pgdir_walk(M, pgdir, va, create) ==
    LET new == create /\ ~Present(M, pgdir, PDX(va))
        m == IF new THEN new_table(M, pgdir, PDX(va)) ELSE M
    IN  IF new /\ M.free = <<>> THEN Walked(M, NULL)
        ELSE Walked(m, <<m.mem[pgdir][PDX(va)].addr, PTX(va)>>)

\* Mutant: a page directory allocated in vain is not given back.
pdpe_walk_no_undo(M, pdpe, va, create) ==
    LET new == create /\ ~Present(M, pdpe, PDPE(va))
        m == IF new THEN new_table(M, pdpe, PDPE(va)) ELSE M
    IN  IF new /\ M.free = <<>> THEN Walked(M, NULL)
        ELSE pgdir_walk(m, m.mem[pdpe][PDPE(va)].addr, va, create)

pdpe_walk(M, pdpe, va, create) ==
    LET new == create /\ ~Present(M, pdpe, PDPE(va))
        m == IF new THEN new_table(M, pdpe, PDPE(va)) ELSE M
        w == pgdir_walk(m, m.mem[pdpe][PDPE(va)].addr, va, create)
    IN  IF new /\ M.free = <<>> THEN Walked(M, NULL)
        ELSE IF new /\ w.pte = NULL THEN Walked(drop_table(w.m, pdpe, PDPE(va)), NULL)
        ELSE w

pml4e_walk(M, pml4e, va, create) ==
    LET new == create /\ ~Present(M, pml4e, PML4(va))
        m == IF new THEN new_table(M, pml4e, PML4(va)) ELSE M
        w == pdpe_walk(m, m.mem[pml4e][PML4(va)].addr, va, create)
    IN  IF new /\ M.free = <<>> THEN Walked(M, NULL)
        ELSE IF new /\ w.pte = NULL THEN Walked(drop_table(w.m, pml4e, PML4(va)), NULL)
        ELSE w

At(M, pte) == M.mem[pte[1]][pte[2]]

\* page_lookup(): creates missing tables, and does not look at PTE_P: the page
\* of an empty entry is page 0.
page_lookup(M, pml4e, va) == pml4e_walk(M, pml4e, va, TRUE)

page_remove(M, pml4e, va) ==
    LET w == page_lookup(M, pml4e, va)
    IN  IF w.pte = NULL THEN w.m
        ELSE [page_decref(w.m, At(w.m, w.pte).addr) EXCEPT
                 !.mem[w.pte[1]][w.pte[2]] = Zero]

\* Mutant: a page that is mapped again where it already is is freed first.
page_insert_remove_first(M, pml4e, p, va, perm) ==
    LET w == pml4e_walk(M, pml4e, va, TRUE)
        m == IF "P" \in At(w.m, w.pte).perm THEN page_remove(w.m, pml4e, va) ELSE w.m
    IN  IF w.pte = NULL THEN [m |-> w.m, ok |-> FALSE]
        ELSE [m |-> [incref(m, p) EXCEPT !.mem[w.pte[1]][w.pte[2]] =
                        [addr |-> p, perm |-> perm \cup {"P"}]],
              ok |-> TRUE]

page_insert(M, pml4e, p, va, perm) ==
    LET w == pml4e_walk(M, pml4e, va, TRUE)
        counted == incref(w.m, p)
        m == IF "P" \in At(counted, w.pte).perm
             THEN page_remove(counted, pml4e, va) ELSE counted
    IN  IF w.pte = NULL THEN [m |-> w.m, ok |-> FALSE]
        ELSE [m |-> [m EXCEPT !.mem[w.pte[1]][w.pte[2]] =
                        [addr |-> p, perm |-> perm \cup {"P"}]],
              ok |-> TRUE]

-----------------------------------------------------------------------------
(***************************************************************************)
(* Environments' address spaces.                                           *)
(***************************************************************************)

\* env_setup_vm() in page p: entry 1 is the kernel's, shared by everyone,
\* entry 2 maps the page tables themselves.
setup_vm(M, p) ==
    [incref(page_alloc(M), p) EXCEPT
        !.mem[p] = [ZeroPage EXCEPT ![1] = [addr |-> 1, perm |-> {"P", "W"}],
                                    ![2] = [addr |-> p, perm |-> {"P"}]]]

\* region_alloc(), one page: counts the reference that page_insert() counts too.
region_alloc(M, pml4e, va) ==
    LET p == Head(M.free)
    IN  page_insert(incref(page_alloc(M), p), pml4e, p, va, {"W"}).m

\* The kernel's own tables, pages 1 to 3, map page 4, the array envs, at UTOP.
KernelTables ==
    [p \in PAGE |->
        CASE p = 0 -> BiosPage
          [] p = 1 -> [ZeroPage EXCEPT ![PDPE(UTOP)] = [addr |-> 2, perm |-> {"P", "W"}]]
          [] p = 2 -> [ZeroPage EXCEPT ![PDX(UTOP)] = [addr |-> 3, perm |-> {"P", "W"}]]
          [] p = 3 -> [ZeroPage EXCEPT ![PTX(UTOP)] = [addr |-> 4, perm |-> {"P"}]]
          [] OTHER -> ZeroPage]

\* page_init(): page 0 is on no list and has count 0, the kernel's pages have
\* count 1; the rest is free, the last page first.
BootMemory ==
    [ref |-> [p \in PAGE |-> IF p \in 1 .. 4 THEN 1 ELSE 0],
     free |-> [i \in 1 .. NPAGES - 5 |-> NPAGES - i],
     mem |-> KernelTables,
     panic |-> FALSE]

\* A loop: the body for 0, 1, ..., n - 1, each on the memory that the one before leaves.
Loop(body(_, _), M, n) ==
    LET after[k \in 0 .. n] == IF k = 0 THEN M ELSE body(after[k - 1], k - 1)
    IN  after[n]

\* env_create(): one environment with the pages that load_icode() gave it.
Init ==
    LET p == Head(BootMemory.free)
        M == Loop(LAMBDA m, k : region_alloc(m, p, BootVA[k + 1]),
                  setup_vm(BootMemory, p), Len(BootVA))
    IN  /\ pp_ref = M.ref
        /\ page_free_list = M.free
        /\ mem = M.mem
        /\ panicstr = M.panic
        /\ \E e \in Env : env_pml4e = [f \in Env |-> IF f = e THEN p ELSE NULL]

\* env_alloc()
env_setup_vm(e) ==
    /\ env_pml4e[e] = NULL
    /\ page_free_list # <<>>
    /\ Set(setup_vm(State, Head(page_free_list)))
    /\ env_pml4e' = [env_pml4e EXCEPT ![e] = Head(page_free_list)]

\* env_free(): page table i of page directory pd, which maps the addresses
\* <<0, d, i, ...>>.  PTX(~0) is the last index; the loop stops before it.
unmap_entry(M, pml4e, pt, d, i, j) ==
    IF Present(M, pt, j) THEN page_remove(M, pml4e, <<0, d, i, j>>) ELSE M

free_table(M, pml4e, pd, d, i) ==
    LET pt == M.mem[pd][i].addr
        unmapped == Loop(LAMBDA m, j : unmap_entry(m, pml4e, pt, d, i, j), M, N - 1)
    IN  IF ~Present(M, pd, i) THEN M
        ELSE page_decref([unmapped EXCEPT !.mem[pd][i] = Zero], pt)

\* env_free(): the page directory at index d.  PDX(0xFFFFFFFF) is the last
\* index; for the last gigabyte the loop stops at PDX(UTOP).
TableLimit(d) == IF d = TopPdpe THEN PDX(UTOP) ELSE N - 1

free_directory(M, pml4e, pdpt, d) ==
    LET pd == M.mem[pdpt][d].addr
        freed == Loop(LAMBDA m, i : free_table(m, pml4e, pd, d, i), M, TableLimit(d))
    IN  IF ~Present(M, pdpt, d) THEN M
        ELSE page_decref([freed EXCEPT !.mem[pdpt][d] = Zero], pd)

env_free(e) ==
    LET pml4e == env_pml4e[e]
        pdpt == mem[pml4e][0].addr
        freed == Loop(LAMBDA m, d : free_directory(m, pml4e, pdpt, d), State, TopPdpe + 1)
        user == IF Present(State, pml4e, 0) THEN page_decref(freed, pdpt) ELSE State
    IN  /\ pml4e # NULL
        /\ Set(page_decref([user EXCEPT !.mem[pml4e][0] = Zero], pml4e))
        /\ env_pml4e' = [env_pml4e EXCEPT ![e] = NULL]

-----------------------------------------------------------------------------
(***************************************************************************)
(* System calls, on the environments that envid2env() lets through.        *)
(***************************************************************************)

\* Reference definition: the entry that maps va in the tables rooted at pml4e.
Leaf(M, pml4e, va) ==
    LET pdpt == M.mem[pml4e][PML4(va)].addr
        pd == M.mem[pdpt][PDPE(va)].addr
        pt == M.mem[pd][PDX(va)].addr
    IN  IF /\ Present(M, pml4e, PML4(va))
           /\ Present(M, pdpt, PDPE(va))
           /\ Present(M, pd, PDX(va))
        THEN M.mem[pt][PTX(va)] ELSE Zero

Mapped(e, va) == "P" \in Leaf(State, env_pml4e[e], va).perm

\* user_mem_check() of one page.  A walk that creates nothing goes on through a
\* missing table as if it were physical page 0.
user_mem_check(e, va, perm) ==
    LET w == pml4e_walk(State, env_pml4e[e], va, FALSE)
    IN  w.pte # NULL /\ perm \cup {"P"} \subseteq At(w.m, w.pte).perm

sys_page_alloc(e, va, perm) ==
    LET p == Head(page_free_list)
        r == page_insert(page_alloc(State), env_pml4e[e], p, va, perm)
    IN  /\ env_pml4e[e] # NULL
        /\ BelowUTOP(va)
        /\ page_free_list # <<>>
        /\ Set(IF r.ok THEN r.m ELSE page_free(r.m, p))
        /\ UNCHANGED env_pml4e

\* Mutant: write access to a read-only page may be passed on.
map_page_any_perm(src, srcva, dst, dstva, perm) ==
    LET w == page_lookup(State, env_pml4e[src], srcva)
    IN  Set(IF w.pte = NULL THEN w.m
            ELSE page_insert(w.m, env_pml4e[dst], At(w.m, w.pte).addr, dstva, perm).m)

\* The common part of sys_page_map() and sys_ipc_try_send(): no write access
\* to a page that is read-only in the source.
map_page(src, srcva, dst, dstva, perm) ==
    LET w == page_lookup(State, env_pml4e[src], srcva)
        pte == At(w.m, w.pte)
    IN  Set(IF w.pte = NULL THEN w.m
            ELSE IF "W" \in perm /\ "W" \notin pte.perm THEN w.m
            ELSE page_insert(w.m, env_pml4e[dst], pte.addr, dstva, perm).m)

sys_page_map(src, srcva, dst, dstva, perm) ==
    /\ env_pml4e[src] # NULL
    /\ env_pml4e[dst] # NULL
    /\ BelowUTOP(srcva)
    /\ BelowUTOP(dstva)
    /\ "map_unmapped" \in Habits \/ Mapped(src, srcva)
    /\ map_page(src, srcva, dst, dstva, perm)
    /\ UNCHANGED env_pml4e

\* A receiver that wants no page has passed an address that is not below UTOP.
sys_ipc_try_send(src, srcva, dst, dstva, perm) ==
    /\ src # dst
    /\ env_pml4e[src] # NULL
    /\ env_pml4e[dst] # NULL
    /\ BelowUTOP(srcva)
    /\ "map_unmapped" \in Habits \/ Mapped(src, srcva)
    /\ "unwanted_page" \in Habits \/ BelowUTOP(dstva)
    /\ map_page(src, srcva, dst, dstva, perm)
    /\ UNCHANGED env_pml4e

sys_page_unmap(e, va) ==
    /\ env_pml4e[e] # NULL
    /\ BelowUTOP(va)
    /\ "unmap_unmapped" \in Habits \/ Mapped(e, va)
    /\ Set(page_remove(State, env_pml4e[e], va))
    /\ UNCHANGED env_pml4e

Next ==
    /\ ~panicstr
    /\ \E e \in Env :
          \/ env_setup_vm(e)
          \/ env_free(e)
          \/ \E va \in VA :
                \/ sys_page_unmap(e, va)
                \/ \E perm \in SUBSET {"W"} :
                      \/ sys_page_alloc(e, va, perm)
                      \/ \E f \in Env, to \in VA \cup {UTOP} :
                            \/ sys_page_map(e, va, f, to, perm)
                            \/ sys_ipc_try_send(e, va, f, to, perm)

Spec == Init /\ [][Next]_vars

-----------------------------------------------------------------------------
(***************************************************************************)
(* Properties.                                                             *)
(***************************************************************************)
Live == {e \in Env : env_pml4e[e] # NULL}

Down(tables, indices) ==
    {mem[s[1]][s[2]].addr : s \in {x \in tables \X indices : Present(State, x[1], x[2])}}

Roots == {env_pml4e[e] : e \in Live}
Pdpts == Down(Roots, {0})
Dirs == Down(Pdpts, Index)
Pts == Down(Dirs, Index)
Tables == Roots \cup Pdpts \cup Dirs \cup Pts

\* The entries below UTOP that point to page p.
Pointers(p) ==
    {s \in (Roots \X {0}) \cup ((Pdpts \cup Dirs \cup Pts) \X Index) :
        Present(State, s[1], s[2]) /\ mem[s[1]][s[2]].addr = p}

\* inc/memlayout.h: "pp_ref is the count of pointers (usually in page table
\* entries) to this page", through every allocation, mapping, remapping,
\* transfer, failure half way and env_free().
RefExact ==
    \A p \in UserPages :
        pp_ref[p] = Cardinality(Pointers(p)) + Cardinality({e \in Live : env_pml4e[e] = p})

\* page_free(): a page is free exactly when nothing points to it, and is on
\* the list once.
PageFreeExact ==
    /\ \A i, j \in 1 .. Len(page_free_list) :
          page_free_list[i] = page_free_list[j] => i = j
    /\ \A p \in UserPages :
          pp_ref[p] = 0 <=> \E i \in 1 .. Len(page_free_list) : page_free_list[i] = p

\* A page that serves as a page table is mapped nowhere else: no program can
\* reach it and no two address spaces share it.
TablesPrivate ==
    /\ \A p \in Tables : Cardinality(Pointers(p)) <= 1
    /\ \A p \in Roots : Pointers(p) = {}

Space(e) == IF env_pml4e[e] = NULL THEN NULL
            ELSE [va \in VA |-> Leaf(State, env_pml4e[e], va)]

\* A call that changes no mapping (it failed for lack of memory half way down
\* the walk, or had nothing to unmap: page_remove() "silently does nothing")
\* has not taken or given back a page either.
NoSilentChange ==
    [][(\A e \in Env : Space(e)' = Space(e)) => UNCHANGED <<pp_ref, page_free_list>>]_vars

\* A call on one environment's memory leaves the other environments' alone.
OnlyOneSpace ==
    \A e, f \in Env : e # f => Space(e)' = Space(e) \/ Space(f)' = Space(f)

InUse == {p \in UserPages : pp_ref[p] > 0}

\* The pages that some environment can write.
Writable ==
    LET ptes == {Leaf(State, env_pml4e[e], va) : e \in Live, va \in VA}
    IN  {pte.addr : pte \in {x \in ptes : {"P", "W"} \subseteq x.perm}}

\* sys_page_map(): "it also must not grant write access to a read-only page":
\* a page that nobody can write stays so until it is freed.
ReadOnlyStaysReadOnly == Writable' \cap InUse \subseteq Writable

\* page_init(): "Mark physical page 0 as in use": it is never allocated, and
\* no environment gets it mapped.
Page0Reserved ==
    /\ \A i \in 1 .. Len(page_free_list) : page_free_list[i] # 0
    /\ \A e \in Live, va \in VA : Mapped(e, va) => Leaf(State, env_pml4e[e], va).addr # 0

\* env_free(): "Frees env e and all memory it uses."
NoLeak == Live = {} => Len(page_free_list) = Cardinality(UserPages)

\* What is mapped at UTOP, read-only and for everybody, stays the kernel's
\* array envs, whatever addresses programs pass to the memory system calls.
KernelMappingKept ==
    \A e \in Live : Leaf(State, env_pml4e[e], UTOP) = [addr |-> 4, perm |-> {"P"}]

\* user_mem_check(): "A user program can access a virtual address if (1) the
\* address is below ULIM, and (2) the page table gives it permission.  These
\* are exactly the tests".
UserMemCheckExact ==
    \A e \in Live, va \in VA, perm \in SUBSET {"W"} :
        user_mem_check(e, va, perm) <=>
            perm \cup {"P"} \subseteq Leaf(State, env_pml4e[e], va).perm

\* The physical pages are accounted for: counts are exact, a page is free just
\* when nothing points to it, tables belong to one place, page 0 and the
\* kernel's own mapping are out of reach.  (page_insert, page_remove,
\* page_decref, the walks and env_free together)
PagesExact ==
    /\ TypeOK
    /\ RefExact
    /\ PageFreeExact
    /\ TablesPrivate
    /\ Page0Reserved
    /\ KernelMappingKept

\* The memory system calls keep environments apart: one address space changes
\* at a time, and no chain of calls makes a read-only page writable.
Isolation == [][OnlyOneSpace /\ ReadOnlyStaysReadOnly]_vars
=============================================================================
