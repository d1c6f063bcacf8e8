-------------------------------- MODULE Loader --------------------------------
(*****************************************************************************)
(* The three places that bring an ELF image into memory:                     *)
(*   boot    boot/main.c reads the kernel from the disk, sector by sector,   *)
(*           and i386_init() clears its bss;                                 *)
(*   kernel  load_icode() copies a program that is linked into the kernel;   *)
(*   spawn   lib/spawn.c builds a child from a file, page by page through    *)
(*           UTEMP, its stack with the arguments first.                      *)
(* Memory is a function from addresses to what is there.  Sectors and pages  *)
(* are small; everything that is rounded to them is rounded here.            *)
(*****************************************************************************)
EXTENDS Integers, Sequences, FiniteSets

CONSTANTS
    SECTSIZE,     \* bytes of a sector
    PGSIZE,       \* bytes of a page, a multiple of SECTSIZE
    WORD,         \* bytes of a pointer
    MaxAddr,      \* addresses are 0..MaxAddr
    Images,       \* ELF files: [magic, segs]
    Arguments,    \* argument lists: sequences of the strings' lengths
    FreePages     \* how many pages page_alloc() may still have

RoundDown(a, n) == a - (a % n)
RoundUp(a, n) == RoundDown(a + n - 1, n)

\* Images as the linker makes them: addresses agree with offsets modulo a sector
\* and a page, no two segments share one, they go upwards, the bss is behind
\* everything else, and a header that is not for loading is empty.
Segment == [va : Nat, offset : Nat, filesz : Nat, memsz : Nat, load : BOOLEAN]
WellLinked(segs) ==
    /\ segs \in Seq(Segment) /\ segs # <<>>
    /\ \A k \in DOMAIN segs :
          /\ segs[k].filesz <= segs[k].memsz
          /\ segs[k].va + segs[k].memsz <= MaxAddr + 1
          /\ ~segs[k].load => segs[k].va = 0 /\ segs[k].memsz = 0
          /\ \A n \in {SECTSIZE, PGSIZE} : segs[k].load => segs[k].va % n = segs[k].offset % n
    /\ \A k, l \in DOMAIN segs : k < l /\ segs[k].load /\ segs[l].load =>
          /\ segs[k].filesz = segs[k].memsz
          /\ \A n \in {SECTSIZE, PGSIZE} : RoundUp(segs[k].va + segs[k].memsz, n) <= RoundDown(segs[l].va, n)

ASSUME LoaderAssumption ==
    /\ SECTSIZE \in Nat \ {0} /\ PGSIZE \in Nat \ {0} /\ WORD \in Nat \ {0} /\ MaxAddr \in Nat
    /\ \A m \in Images : WellLinked(m.segs)
    /\ Arguments \subseteq Seq(Nat)

VARIABLES
    who,          \* the loader at work
    img,          \* the image it loads
    argv,         \* the arguments for the program
    pc,           \* where it is
    seg,          \* the segment it is at: ph
    at,           \* pa in readseg(), start in region_alloc(), i in map_segment()
    mem,          \* the memory of the kernel or of the new environment
    stack,        \* the page at USTACKTOP - PGSIZE of the new environment
    rsp,          \* its initial stack pointer, relative to that page
    utemp,        \* the page that is mapped at UTEMP in the parent, or NoPage
    free,         \* pages that can be allocated
    child,        \* the new environment: "none", "made", "gone"
    fd            \* the file is open

loaderVars == <<who, img, argv, pc, seg, at, mem, stack, rsp, utemp, free, child, fd>>

\* What an address holds.
Absent == <<"absent", 0>>
Junk == <<"junk", 0>>
Zero == <<"zero", 0>>
FromFile(k) == <<"file", k>>
Char(i, j) == <<"char", 100 * i + j>>
Pointer(a) == <<"pointer", a>>
NoPage == <<>>

Addr == 0..MaxAddr
Page(a) == RoundDown(a, PGSIZE)..(RoundDown(a, PGSIZE) + PGSIZE - 1)
Segs == img.segs
Seg == Segs[seg]
LoadSegs == {k \in DOMAIN Segs : Segs[k].load}
FileEnd == LET ends == {Segs[k].offset + Segs[k].filesz : k \in DOMAIN Segs}
           IN  CHOOSE n \in ends : \A m \in ends : m <= n
Set(range, what(_)) == mem' = [a \in Addr |-> IF a \in range THEN what(a) ELSE mem[a]]

(******************************** boot/main.c ********************************)
\* The kernel image begins at sector 1; what follows it on the disk is anything.
Sector(s) == [j \in 0..(SECTSIZE - 1) |->
                LET k == (s - 1) * SECTSIZE + j IN IF k < FileEnd THEN FromFile(k) ELSE Junk]

\* The sector that holds a byte of the image.
readseg(offset) == (offset \div SECTSIZE) + 1

bootmain ==
    /\ who = "boot" /\ pc = "start"
    /\ pc' = IF img.magic THEN "readseg" ELSE "bad"
    /\ seg' = 1 /\ at' = RoundDown(Segs[1].va, SECTSIZE)
    /\ UNCHANGED <<who, img, argv, mem, stack, rsp, utemp, free, child, fd>>

\* One turn of the loop of readseg(), which reads memsz bytes of every segment.
readsect ==
    LET first == readseg(Seg.offset)
        nth == (at - RoundDown(Seg.va, SECTSIZE)) \div SECTSIZE
    IN
    /\ who = "boot" /\ pc = "readseg"
    /\ IF at < Seg.va + Seg.memsz
       THEN /\ Set(at..(at + SECTSIZE - 1), LAMBDA a : Sector(first + nth)[a - at])
            /\ at' = at + SECTSIZE
            /\ UNCHANGED <<pc, seg>>
       ELSE IF seg < Len(Segs)
       THEN /\ seg' = seg + 1 /\ at' = RoundDown(Segs[seg + 1].va, SECTSIZE)
            /\ UNCHANGED <<pc, mem>>
       ELSE pc' = "entry" /\ UNCHANGED <<seg, at, mem>>
    /\ UNCHANGED <<who, img, argv, stack, rsp, utemp, free, child, fd>>

\* i386_init() clears from edata to end: the bss of the last segment with data.
edata == LET l == CHOOSE k \in LoadSegs : \A m \in LoadSegs : m <= k IN Segs[l].va + Segs[l].filesz
end == LET l == CHOOSE k \in LoadSegs : \A m \in LoadSegs : m <= k IN Segs[l].va + Segs[l].memsz
i386_init ==
    /\ who = "boot" /\ pc = "entry"
    /\ Set(edata..(end - 1), LAMBDA a : Zero)
    /\ pc' = "loaded"
    /\ UNCHANGED <<who, img, argv, seg, at, stack, rsp, utemp, free, child, fd>>

(********************************* kern/env.c ********************************)
\* Segments that are not for loading are passed over.
NextLoad(k) == LET rest == {m \in LoadSegs : m > k}
               IN  IF rest = {} THEN 0 ELSE CHOOSE m \in rest : \A n \in rest : m <= n

env_create ==
    /\ who = "kernel" /\ pc = "start"
    /\ IF free = 0 THEN pc' = "panic" /\ UNCHANGED <<seg, at, free, child>>
       ELSE /\ free' = free - 1 /\ child' = "made"
            /\ seg' = NextLoad(0)
            /\ IF NextLoad(0) = 0 THEN pc' = "stack" /\ UNCHANGED at
               ELSE pc' = "region" /\ at' = RoundDown(Segs[NextLoad(0)].va, PGSIZE)
    /\ UNCHANGED <<who, img, argv, mem, stack, rsp, utemp, fd>>

\* One page of a region: it is not cleared.
region_alloc ==
    /\ who = "kernel" /\ pc = "region"
    /\ IF at < RoundUp(Seg.va + Seg.memsz, PGSIZE)
       THEN IF free = 0 THEN pc' = "panic" /\ UNCHANGED <<at, mem, free>>
            ELSE /\ free' = free - 1
                 /\ Set(Page(at), LAMBDA a : Junk)
                 /\ at' = at + PGSIZE
                 /\ UNCHANGED pc
       ELSE pc' = "copy" /\ UNCHANGED <<at, mem, free>>
    /\ UNCHANGED <<who, img, argv, seg, stack, rsp, utemp, child, fd>>

\* Mistake: only the pages without any byte of the file are cleared.
CopiesWithoutClearing ==
    /\ who = "kernel" /\ pc = "copy"
    /\ Set(Seg.va..(Seg.va + Seg.memsz - 1),
           LAMBDA a : IF a - Seg.va < Seg.filesz THEN FromFile(Seg.offset + a - Seg.va)
                      ELSE IF Page(a) \cap Page(Seg.va + Seg.filesz) = {} THEN Zero ELSE Junk)
    /\ seg' = NextLoad(seg)
    /\ IF NextLoad(seg) = 0 THEN pc' = "stack" /\ UNCHANGED at
       ELSE pc' = "region" /\ at' = RoundDown(Segs[NextLoad(seg)].va, PGSIZE)
    /\ UNCHANGED <<who, img, argv, stack, rsp, utemp, free, child, fd>>
\* memmove() of filesz bytes and memset() of the rest of memsz.
load_icode ==
    /\ who = "kernel" /\ pc = "copy"
    /\ Set(Seg.va..(Seg.va + Seg.memsz - 1),
           LAMBDA a : IF a - Seg.va < Seg.filesz THEN FromFile(Seg.offset + a - Seg.va) ELSE Zero)
    /\ seg' = NextLoad(seg)
    /\ IF NextLoad(seg) = 0 THEN pc' = "stack" /\ UNCHANGED at
       ELSE pc' = "region" /\ at' = RoundDown(Segs[NextLoad(seg)].va, PGSIZE)
    /\ UNCHANGED <<who, img, argv, stack, rsp, utemp, free, child, fd>>

\* The stack of one page; the stack pointer is USTACKTOP, from env_alloc().
icode_stack ==
    /\ who = "kernel" /\ pc = "stack"
    /\ IF free = 0 THEN pc' = "panic" /\ UNCHANGED <<stack, rsp, free>>
       ELSE /\ free' = free - 1
            /\ stack' = [b \in 0..(PGSIZE - 1) |-> Junk]
            /\ rsp' = PGSIZE
            /\ pc' = "loaded"
    /\ UNCHANGED <<who, img, argv, seg, at, mem, utemp, child, fd>>

(******************************** lib/spawn.c ********************************)
Fails(why) == pc' = why /\ UNCHANGED <<seg, at, mem, stack, rsp, utemp, free, child>>
Fixed == UNCHANGED <<who, img, argv>>

\* The file is opened and its header read: the read may fail or end short, or
\* the magic number be wrong; the file is closed again then.
spawn ==
    /\ who = "spawn" /\ pc = "start"
    /\ \/ Fails("not found") /\ UNCHANGED fd
       \/ Fails("not executable") /\ UNCHANGED fd
       \/ /\ img.magic /\ fd' = TRUE /\ pc' = "exofork"
          /\ UNCHANGED <<seg, at, mem, stack, rsp, utemp, free, child>>
    /\ Fixed

\* When there is no environment the file stays open.
spawn_exofork ==
    /\ who = "spawn" /\ pc = "exofork"
    /\ IF free = 0 THEN Fails("no environment")
       ELSE /\ child' = "made" /\ free' = free - 1 /\ pc' = "init_stack"
            /\ UNCHANGED <<seg, at, mem, stack, rsp, utemp>>
    /\ UNCHANGED fd /\ Fixed

\* Where init_stack() puts things in the page, from its top: the strings, each
\* with its null, the argv array with its null, and below it argv and argc.
argc == Len(argv)
StringSize[n \in 0..argc] == IF n = 0 THEN 0 ELSE StringSize[n - 1] + argv[n] + 1
string_store == [i \in 1..argc |-> PGSIZE - StringSize[argc] + StringSize[i - 1]]
\* Mistake: the strings end where the array begins, at any address.
Unaligned == PGSIZE - StringSize[argc] - WORD * argc
argv_store == RoundDown(PGSIZE - StringSize[argc], WORD) - WORD * (argc + 1)

\* The page as it is filled; sys_page_alloc() has cleared it.
Arrange ==
    LET text(b) == {s \in {<<i, b - string_store[i]>> : i \in 1..argc} : s[2] >= 0 /\ s[2] < argv[s[1]]}
        entry(b) == (b - argv_store) \div WORD
    IN  [b \in 0..(PGSIZE - 1) |->
           IF text(b) # {} THEN LET s == CHOOSE s \in text(b) : TRUE IN Char(s[1], s[2])
           ELSE IF (b - argv_store) % WORD # 0 THEN Zero
           ELSE IF entry(b) \in 0..(argc - 1) THEN Pointer(string_store[entry(b) + 1])
           ELSE IF entry(b) = -1 THEN Pointer(argv_store)
           ELSE IF entry(b) = -2 THEN Pointer(argc)
           ELSE Zero]

\* Arguments that do not fit are refused; the page or a page table for it may
\* be missing (the page at UTEMP is unmapped again).  On an error the child,
\* which nobody else knows, and the file are left as they are.
init_stack ==
    /\ who = "spawn" /\ pc = "init_stack"
    /\ \/ Fails("no stack")
       \/ /\ argv_store - 2 * WORD >= 0 /\ free > 0
          /\ stack' = Arrange /\ rsp' = argv_store - 2 * WORD
          /\ free' = free - 1
          /\ seg' = NextLoad(0) /\ at' = 0
          /\ pc' = IF NextLoad(0) = 0 THEN "close" ELSE "map_segment"
          /\ UNCHANGED <<mem, utemp, child>>
    /\ UNCHANGED fd /\ Fixed

\* Values of map_segment() after it has rounded va down to a page.
Off == Seg.va % PGSIZE
Va == Seg.va - Off
Memsz == Seg.memsz + Off
Filesz == Seg.filesz + Off
Fileoffset == Seg.offset - Off

\* A page behind the file's bytes, cleared, right in the child.
map_blank ==
    /\ who = "spawn" /\ pc = "map_segment" /\ at < Memsz /\ at >= Filesz
    /\ IF free = 0 THEN Fails("error")
       ELSE /\ Set(Page(Va + at), LAMBDA a : Zero)
            /\ free' = free - 1 /\ at' = at + PGSIZE
            /\ UNCHANGED <<pc, seg, stack, rsp, utemp, child>>
    /\ UNCHANGED fd /\ Fixed

\* A page with bytes of the file: read into a clear page at UTEMP.  readn() may
\* fail when the file server does.
map_read ==
    /\ who = "spawn" /\ pc = "map_segment" /\ at < Memsz /\ at < Filesz
    /\ IF free = 0 THEN Fails("error")
       ELSE /\ utemp' = [b \in 0..(PGSIZE - 1) |->
                           IF at + b < Filesz THEN FromFile(Fileoffset + at + b) ELSE Zero]
            /\ free' = free - 1
            /\ pc' \in {"map_page", "error"}
            /\ UNCHANGED <<seg, at, mem, stack, rsp, child>>
    /\ UNCHANGED fd /\ Fixed

\* It is mapped into the child and unmapped here.  A failure to map is a panic.
map_page ==
    /\ who = "spawn" /\ pc = "map_page"
    /\ \/ Fails("panic")
       \/ /\ Set(Page(Va + at), LAMBDA a : utemp[a % PGSIZE])
          /\ utemp' = NoPage /\ at' = at + PGSIZE /\ pc' = "map_segment"
          /\ UNCHANGED <<seg, stack, rsp, free, child>>
    /\ UNCHANGED fd /\ Fixed

map_next ==
    /\ who = "spawn" /\ pc = "map_segment" /\ at >= Memsz
    /\ seg' = NextLoad(seg) /\ at' = 0
    /\ pc' = IF NextLoad(seg) = 0 THEN "close" ELSE "map_segment"
    /\ UNCHANGED <<mem, stack, rsp, utemp, free, child, fd>> /\ Fixed

spawn_close ==
    /\ who = "spawn" /\ pc = "close"
    /\ fd' = FALSE /\ pc' = "loaded"
    /\ UNCHANGED <<seg, at, mem, stack, rsp, utemp, free, child>> /\ Fixed

\* copy_shared_pages() does nothing.  sys_env_set_trapframe() is not among the
\* calls that syscall() knows: it answers -E_INVAL, and spawn() panics.
spawn_trapframe ==
    /\ who = "spawn" /\ pc = "loaded"
    /\ Fails("no trapframe")
    /\ UNCHANGED fd /\ Fixed

\* The child is destroyed; the page that was being read stays at UTEMP.
spawn_error ==
    /\ who = "spawn" /\ pc = "error"
    /\ child' = "gone" /\ fd' = FALSE /\ pc' = "failed"
    /\ mem' = [a \in Addr |-> Absent] /\ stack' = NoPage /\ rsp' = 0
    /\ UNCHANGED <<seg, at, utemp, free>> /\ Fixed

-------------------------------------------------------------------------------
LoaderInit ==
    /\ who \in {"boot", "kernel", "spawn"} /\ img \in Images
    /\ argv \in IF who = "spawn" THEN Arguments ELSE {<<>>}
    /\ free \in IF who = "boot" THEN {0} ELSE FreePages
    /\ mem = [a \in Addr |-> IF who = "boot" THEN Junk ELSE Absent]
    /\ pc = "start" /\ seg = 0 /\ at = 0 /\ stack = NoPage /\ rsp = 0
    /\ utemp = NoPage /\ child = "none" /\ fd = FALSE

LoaderNext ==
    \/ bootmain \/ readsect \/ i386_init
    \/ env_create \/ region_alloc \/ load_icode \/ icode_stack
    \/ spawn \/ spawn_exofork \/ init_stack \/ map_blank \/ map_read \/ map_page \/ map_next
    \/ spawn_close \/ spawn_trapframe \/ spawn_error

LoaderSpec == LoaderInit /\ [][LoaderNext]_loaderVars

(* When a loader is done, every byte of a segment is the byte of the file, or  *)
(* zero behind the bytes that the file has, whatever was rounded to sectors or *)
(* pages and whatever was in memory before.  (readseg, load_icode, map_segment)*)
ImageLoaded ==
    pc \in {"loaded", "no trapframe"} =>
        \A k \in LoadSegs : \A j \in 0..(Segs[k].memsz - 1) :
            mem[Segs[k].va + j] = IF j < Segs[k].filesz THEN FromFile(Segs[k].offset + j) ELSE Zero

(* What lib/entry.S and umain() of the new program find on the stack that      *)
(* init_stack() made: argc, argv and every string in place, none over another. *)
ArgumentsArrive ==
    who = "spawn" /\ stack # NoPage =>
        LET there(a) == a \in DOMAIN stack
            points(a) == there(a) /\ stack[a][1] = "pointer"
            args == stack[rsp + WORD][2]
            string(i) == stack[args + WORD * (i - 1)][2]
        IN  /\ rsp % WORD = 0 /\ points(rsp) /\ points(rsp + WORD)
            /\ stack[rsp][2] = argc
            /\ \A i \in 1..argc :
                 /\ points(args + WORD * (i - 1)) /\ there(string(i) + argv[i])
                 /\ \A j \in 0..(argv[i] - 1) : stack[string(i) + j] = Char(i, j)
                 /\ stack[string(i) + argv[i]] = Zero
            /\ there(args + WORD * argc) /\ stack[args + WORD * argc] = Zero

(* map_segment(): "allocate a page in the parent temporarily at UTEMP".  A     *)
(* spawn() that has failed has no page there any more.  It does not hold: a    *)
(* failed readn() returns with the page mapped.                                *)
UtempIsTemporary ==
    pc \in {"not found", "not executable", "no environment", "no stack", "failed"} =>
        utemp = NoPage
===============================================================================
