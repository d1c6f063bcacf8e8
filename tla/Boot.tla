--------------------------------- MODULE Boot ---------------------------------
(*****************************************************************************)
(* From the clearing of the bss to the first environment: how much memory    *)
(* there is, boot_alloc() and the list of free pages, the kernel's mappings, *)
(* the self-checks, the table of processors and the start of the others.     *)
(* Physical and virtual memory are counted in pages, sizes from the BIOS in  *)
(* PGSIZE-ths of one.  The boot processor is sequential; the others run      *)
(* from the STARTUP message on, at the same time.                            *)
(*****************************************************************************)
EXTENDS Integers, Sequences, FiniteSets

CONSTANTS
    UNITS,         \* units of memory in a page
    MPENTRY,       \* the page with the entry code of the other processors
    IOPHYSMEM,     \* the page where base memory ends at most
    EXTPHYSMEM,    \* the page where extended memory begins
    KernelEnd,     \* the page behind the kernel image
    KStacks,       \* the first page of percpu_kstacks; bootstack is behind them
    INFOS,         \* PageInfos in a page
    ENVPAGES,      \* pages of the envs array
    MaxPages,      \* max_npages
    Spare,         \* the pages left out when there are more than max_npages
    BootMapped,    \* pages that the page tables of bootstrap.S map
    TABLE,         \* entries of a page table
    UENVS, UPAGES, MMIOBASE, MMIOLIM, KERNBASE,   \* virtual pages
    KSTKSIZE, KSTKGAP,
    NCPU,          \* entries of cpus[]
    Machines       \* the machines the kernel may find itself on

\* An entry of the table of processors.
MpEntry == [kind : {"proc", "other", "unknown"}, apic : Nat, enabled : BOOLEAN, boot : BOOLEAN]

\* Kinds of memory, the most restrictive first, and an entry of the memory map.
Restrictive == <<"bad", "nvs", "reserved", "reclaimable", "usable">>
MapEntry == [addr : Nat, len : Nat, type : {Restrictive[i] : i \in 1..5}]

ASSUME BootAssumption ==
    /\ NCPU \in Nat \ {0} /\ UNITS \in Nat \ {0} /\ INFOS \in Nat \ {0} /\ TABLE \in Nat \ {0}
    /\ {MPENTRY, IOPHYSMEM, EXTPHYSMEM, KernelEnd, KStacks, ENVPAGES, MaxPages, Spare} \subseteq Nat
    /\ {UENVS, UPAGES, MMIOBASE, KERNBASE, KSTKSIZE, KSTKGAP} \subseteq Nat
    /\ 0 < MPENTRY /\ MPENTRY < IOPHYSMEM /\ IOPHYSMEM < EXTPHYSMEM /\ EXTPHYSMEM <= KernelEnd
    /\ Spare <= MaxPages
    /\ \A m \in Machines :
          /\ m.mp.entries \in Seq(MpEntry) /\ m.e820 \in Seq(MapEntry)
          /\ m.nvram.base \in Nat /\ m.nvram.ext \in Nat /\ m.nvram.ext16 \in Nat

VARIABLES
    machine,
    stage,          \* where the boot processor is
    mmap,           \* the memory map of the BIOS, sorted
    npages, npages_basemem,
    nextfree,       \* of boot_alloc()
    page_free_list, \* head first
    lost,           \* pages that page_check() took and did not give back
    tables,         \* page tables of boot_pml4e: <<level, number>>
    pt,             \* what boot_pml4e maps: a function from virtual pages
    mmio,           \* base of mmio_map_region()
    cpus,           \* cpu_status; entry NCPU is what lies behind the array
    ncpu, bootcpu,
    lapicaddr,      \* there is a local APIC
    turn,           \* the region or the processor its loop is at
    mpentry_kstack,
    ap,             \* the state of each processor, by APIC id
    stackOf         \* the stack each of them runs on

bootVars == <<machine, stage, mmap, npages, npages_basemem, nextfree, page_free_list, lost, tables, pt,
              mmio, cpus, ncpu, bootcpu, lapicaddr, turn, mpentry_kstack, ap, stackOf>>
memVars == <<npages, npages_basemem, nextfree, page_free_list, lost, tables, pt, mmio>>
cpuVars == <<cpus, ncpu, bootcpu, lapicaddr, mpentry_kstack, ap, stackOf>>

CeilDiv(a, b) == (a + b - 1) \div b
NoStack == -1
ApicIds == 0..NCPU
Panic == stage' = "panic"

(****************************** how much memory ******************************)
\* The more restrictive of two.
restrictive_type(t1, t2) ==
    Restrictive[CHOOSE i \in 1..5 : Restrictive[i] \in {t1, t2} /\ \A j \in 1..(i - 1) : Restrictive[j] \notin {t1, t2}]

\* A sequence in another order, in which j comes before k.
InOrder(s, Before(_, _)) ==
    LET rank == [k \in DOMAIN s |-> Cardinality({j \in DOMAIN s : Before(j, k)})]
    IN  [i \in DOMAIN s |-> s[CHOOSE k \in DOMAIN s : rank[k] = i - 1]]

\* The list in the order of addresses; the later of two equal ones behind.
SortedMap(map) ==
    InOrder(map, LAMBDA j, k : map[j].addr < map[k].addr \/ (map[j].addr = map[k].addr /\ j < k))

\* boot.S: a map with a single entry is not used.
do_e820 ==
    /\ stage = "start"
    /\ mmap' = IF Len(machine.e820) > 1 THEN SortedMap(machine.e820) ELSE <<>>
    /\ turn' = 2 /\ stage' = "sanitize"
    /\ UNCHANGED machine /\ UNCHANGED memVars /\ UNCHANGED cpuVars

\* One turn of the loop that sanitizes: a neighbour of the same kind is merged
\* into the next (its entry, then null, has length 0 here), an overlap gets the
\* more restrictive kind on both sides.
sanitize ==
    LET prev == mmap[turn - 1]  this == mmap[turn]  reach == prev.addr + prev.len
        type == restrictive_type(prev.type, this.type)
    IN
    /\ stage = "sanitize"
    /\ IF turn > Len(mmap) THEN stage' = "detect" /\ turn' = 1 /\ UNCHANGED mmap
       ELSE /\ mmap' = IF reach = this.addr /\ prev.type = this.type
                       THEN [mmap EXCEPT ![turn - 1] = [prev EXCEPT !.len = 0],
                                          ![turn] = [prev EXCEPT !.len = prev.len + this.len]]
                       ELSE IF reach > this.addr
                       THEN [mmap EXCEPT ![turn - 1] = [prev EXCEPT !.type = type], ![turn] = [this EXCEPT !.type = type]]
                       ELSE mmap
            /\ turn' = turn + 1 /\ UNCHANGED stage
    /\ UNCHANGED machine /\ UNCHANGED memVars /\ UNCHANGED cpuVars

\* The usable lengths whose address is on one side of EXTPHYSMEM.
Counts(m, low) == m.type \in {"usable", "reclaimable"} /\ (m.addr < EXTPHYSMEM * UNITS) = low
multiboot_read(low) ==
    LET sum[n \in 0..Len(mmap)] ==
          IF n = 0 THEN 0 ELSE sum[n - 1] + (IF Counts(mmap[n], low) THEN mmap[n].len ELSE 0)
    IN  sum[Len(mmap)]

\* The NVRAM says 0xffff for 64 MB and above, and elsewhere how much it is.
More == 65535
basemem == IF mmap # <<>> THEN multiboot_read(TRUE) ELSE machine.nvram.base
npages_extmem ==
    (IF machine.nvram.ext = More THEN machine.nvram.ext16
     ELSE IF mmap # <<>> THEN multiboot_read(FALSE) ELSE machine.nvram.ext) \div UNITS

Limited(n) == IF n > MaxPages THEN MaxPages - Spare ELSE n

i386_detect_memory ==
    /\ stage = "detect"
    /\ IF basemem = 0 THEN Panic /\ UNCHANGED <<npages, npages_basemem>>
       ELSE /\ npages_basemem' = basemem \div UNITS
            /\ npages' = Limited(IF npages_extmem > 0 THEN EXTPHYSMEM + npages_extmem ELSE basemem \div UNITS)
            /\ stage' = "alloc"
    /\ UNCHANGED <<machine, mmap, nextfree, page_free_list, lost, tables, pt, mmio>> /\ UNCHANGED turn /\ UNCHANGED cpuVars

(************************* boot_alloc() and page_init() **********************)
\* Where the arrays lie: boot_alloc() hands out pages behind the kernel.
pages == KernelEnd + 1
envs == pages + CeilDiv(npages, INFOS)

\* x64_vm_init() asks for the top page table, the pages array and envs.
boot_alloc ==
    /\ stage = "alloc"
    /\ IF envs + ENVPAGES > npages THEN Panic /\ UNCHANGED nextfree
       ELSE nextfree' = envs + ENVPAGES /\ stage' = "page_init"
    /\ UNCHANGED <<machine, mmap, npages, npages_basemem, page_free_list, lost, tables, pt, mmio>> /\ UNCHANGED turn /\ UNCHANGED cpuVars

\* Pages from, from+1, ... upto-1, each put before the last.
Pushed(from, upto) == IF upto <= from THEN <<>> ELSE [i \in 1..(upto - from) |-> upto - i]

\* Mistake: what boot_alloc() took is counted from the start of the kernel.
FreesTheArrays ==
    /\ stage = "page_init"
    /\ page_free_list' = Pushed(npages_basemem + (EXTPHYSMEM - IOPHYSMEM) + (nextfree - KernelEnd), npages)
                         \o Pushed(1, MPENTRY)
    /\ stage' = "map"
    /\ UNCHANGED <<machine, mmap, npages, npages_basemem, nextfree, lost, tables, pt, mmio>> /\ UNCHANGED turn /\ UNCHANGED cpuVars
\* Base memory below MPENTRY, and everything behind the I/O hole and as many
\* pages as boot_alloc() has reached, counted from the end of base memory.
page_init ==
    /\ stage = "page_init"
    /\ page_free_list' = Pushed(npages_basemem + (EXTPHYSMEM - IOPHYSMEM) + nextfree, npages)
                         \o Pushed(1, MPENTRY)
    /\ stage' = "map"
    /\ UNCHANGED <<machine, mmap, npages, npages_basemem, nextfree, lost, tables, pt, mmio>> /\ UNCHANGED turn /\ UNCHANGED cpuVars

(******************************* the mappings ********************************)
\* Regions of x64_vm_init() and mem_init_mp(), in order: [va, size, pa].
Region(va, size, pa) == [va |-> va, size |-> size, pa |-> pa]
kstacktop(i) == KERNBASE - i * (KSTKSIZE + KSTKGAP)
mem_init_mp == [i \in 1..NCPU |-> Region(kstacktop(i - 1) - KSTKSIZE, KSTKSIZE, KStacks + (i - 1) * KSTKSIZE)]
x64_vm_init ==
    <<Region(UPAGES, CeilDiv(npages, INFOS), pages),
      Region(KERNBASE + pages, 1, pages),
      Region(UENVS, ENVPAGES, envs),
      Region(KERNBASE - KSTKSIZE, KSTKSIZE, KStacks + NCPU * KSTKSIZE),
      Region(KERNBASE, npages, 0)>> \o mem_init_mp

\* Page tables that a walk with create makes for a region.
TABLE2 == TABLE * TABLE
pml4e_walk(r) ==
    UNION {{<<1, v \div TABLE>>, <<2, v \div TABLE2>>, <<3, v \div (TABLE * TABLE2)>>} :
             v \in r.va..(r.va + r.size - 1)} \ tables
InRegion(r, v) == v >= r.va /\ v < r.va + r.size
\* The map with r written over it.
Mapped(old, r) == [v \in DOMAIN old \cup r.va..(r.va + r.size - 1) |->
                     IF InRegion(r, v) THEN r.pa + (v - r.va) ELSE old[v]]

\* Each new table is a page from the head of the list.  While the tables of
\* bootstrap.S are in use, a page above what they map cannot be cleared.
boot_map_region(r, next) ==
    LET n == Cardinality(pml4e_walk(r)) IN
        IF n > Len(page_free_list) THEN Panic /\ UNCHANGED <<page_free_list, tables, pt>>
        ELSE IF \E i \in 1..n : page_free_list[i] >= BootMapped
        THEN stage' = "fault" /\ UNCHANGED <<page_free_list, tables, pt>>
        ELSE /\ tables' = tables \cup pml4e_walk(r)
             /\ pt' = Mapped(pt, r)
             /\ page_free_list' = SubSeq(page_free_list, n + 1, Len(page_free_list))
             /\ stage' = next

map_regions ==
    /\ stage = "map"
    /\ IF turn <= Len(x64_vm_init)
       THEN boot_map_region(x64_vm_init[turn], "map") /\ turn' = turn + 1
       ELSE stage' = "check_low" /\ turn' = 0 /\ UNCHANGED <<page_free_list, tables, pt>>
    /\ UNCHANGED <<machine, mmap, npages, npages_basemem, nextfree, lost, mmio>> /\ UNCHANGED cpuVars

(****************************** the self-checks ******************************)
\* The assertions on the pages of the list.
GoodPage(p) == /\ p < npages /\ p \notin {0, IOPHYSMEM, EXTPHYSMEM - 1, EXTPHYSMEM, MPENTRY}
               /\ p < EXTPHYSMEM \/ p >= nextfree
\* Pages that one page table reaches are moved to the front.
LowFirst == InOrder(page_free_list, LAMBDA j, k :
    LET low(i) == page_free_list[i] < TABLE IN (low(j) /\ ~low(k)) \/ (low(j) = low(k) /\ j < k))
check_page_free_list ==
    /\ stage \in {"check_low", "check_all"}
    /\ page_free_list' = IF stage = "check_low" THEN LowFirst ELSE page_free_list
    /\ stage' = IF /\ \A i \in DOMAIN page_free_list : GoodPage(page_free_list[i])
                   /\ \E i \in DOMAIN page_free_list : page_free_list[i] >= EXTPHYSMEM
                THEN (IF stage = "check_low" THEN "check_alloc" ELSE "check_pml4e") ELSE "panic"
    /\ UNCHANGED <<machine, mmap, npages, npages_basemem, nextfree, lost, tables, pt, mmio, turn>> /\ UNCHANGED cpuVars

\* Writes every free page; the three pages it takes come back in their order.
check_page_alloc ==
    /\ stage = "check_alloc"
    /\ stage' = IF \E i \in DOMAIN page_free_list : page_free_list[i] >= BootMapped THEN "fault"
                ELSE IF Len(page_free_list) < 3 THEN "panic" ELSE "page_check"
    /\ UNCHANGED <<machine, mmap, turn>> /\ UNCHANGED memVars /\ UNCHANGED cpuVars

\* Takes six pages and gives three of them back.  The test of
\* mmio_map_region() takes a page table and three pages of addresses.
mmio_check == pml4e_walk(Region(MMIOBASE, 3, 0))
page_check ==
    LET pp(k) == page_free_list[k + 1]
        rest == <<pp(3), pp(2), pp(0)>> \o SubSeq(page_free_list, 7, Len(page_free_list))
        n == Cardinality(mmio_check)
    IN
    /\ stage = "page_check"
    /\ IF Len(page_free_list) < 6 THEN Panic /\ UNCHANGED <<page_free_list, lost, tables, mmio>>
       ELSE /\ lost' = {pp(1), pp(4), pp(5)}
            /\ tables' = tables \cup mmio_check
            /\ page_free_list' = SubSeq(rest, n + 1, Len(rest))
            /\ mmio' = MMIOBASE + 3
            /\ stage' = "check_all"
    /\ UNCHANGED <<machine, mmap, npages, npages_basemem, nextfree, pt, turn>> /\ UNCHANGED cpuVars

check_va2pa(v) == IF v \in DOMAIN pt THEN pt[v] ELSE -1
\* The assertions of check_boot_pml4e().
KernelPart ==
    /\ \A i \in 0..(CeilDiv(npages, INFOS) - 1) : check_va2pa(UPAGES + i) = pages + i
    /\ \A i \in 0..(ENVPAGES - 1) : check_va2pa(UENVS + i) = envs + i
    /\ \A i \in 0..(npages - 1) : check_va2pa(KERNBASE + i) = i
    /\ \A n \in 0..(NCPU - 1) :
         LET base == KERNBASE - (KSTKSIZE + KSTKGAP) * (n + 1)
         IN  /\ \A i \in 0..(KSTKSIZE - 1) : check_va2pa(base + KSTKGAP + i) = KStacks + n * KSTKSIZE + i
             /\ \A i \in 0..(KSTKGAP - 1) : check_va2pa(base + i) = -1
check_boot_pml4e ==
    /\ stage = "check_pml4e"
    /\ stage' = IF KernelPart THEN "mp_init" ELSE "panic"
    /\ UNCHANGED <<machine, mmap, turn>> /\ UNCHANGED memVars /\ UNCHANGED cpuVars

(**************************** the other processors ***************************)
\* Where the floating structure is looked for: the extended BIOS area, or the
\* end of base memory when there is none; then the upper half of the ROM.
mpsearch == LET mp == machine.mp
            IN  (IF mp.ebda THEN "ebda" ELSE "base") \in mp.places \/ "rom" \in mp.places
\* Default configurations and tables with a wrong sum or version are refused.
mpconfig == mpsearch /\ machine.mp.conf = "good"

\* Mistake: a processor that cannot be used is counted.
CountsDisabled(s, e) ==
    IF ~s.ismp THEN s
    ELSE CASE e.kind = "proc" -> [s EXCEPT !.boot = IF e.boot THEN s.n ELSE @,
                                           !.n = IF s.n < NCPU THEN @ + 1 ELSE @]
           [] e.kind = "other" -> s
           [] OTHER -> [s EXCEPT !.ismp = FALSE]
\* What one entry of the table changes; an unknown kind ends the loop.
mp_entry(s, e) ==
    IF ~s.ismp THEN s
    ELSE CASE e.kind = "proc" -> [s EXCEPT !.boot = IF e.boot THEN s.n ELSE @,
                                           !.n = IF s.n < NCPU /\ e.enabled THEN @ + 1 ELSE @]
           [] e.kind = "other" -> s
           [] OTHER -> [s EXCEPT !.ismp = FALSE]
\* What the first k entries come to.
mp_entries[k \in 0..Len(machine.mp.entries)] ==
    IF k = 0 THEN [n |-> 0, boot |-> 0, ismp |-> TRUE] ELSE mp_entry(mp_entries[k - 1], machine.mp.entries[k])
MpTable == mp_entries[Len(machine.mp.entries)]

\* Without a table ncpu stays 0 and no processor is marked as started.
mp_init ==
    /\ stage = "mp_init"
    /\ IF mpconfig
       THEN /\ ncpu' = IF MpTable.ismp THEN MpTable.n ELSE 1
            /\ bootcpu' = MpTable.boot
            /\ cpus' = [cpus EXCEPT ![MpTable.boot] = "started"]
            /\ lapicaddr' = MpTable.ismp
       ELSE bootcpu' = 0 /\ UNCHANGED <<ncpu, cpus, lapicaddr>>
    /\ stage' = "lapic"
    /\ UNCHANGED <<machine, mmap, turn, mpentry_kstack, ap, stackOf>> /\ UNCHANGED memVars

\* Every processor maps its local APIC anew.
mmio_map_region(size) == IF mmio + size >= MMIOLIM THEN UNCHANGED mmio ELSE mmio' = mmio + size
lapic_init ==
    /\ stage = "lapic"
    /\ IF lapicaddr THEN mmio_map_region(1) ELSE UNCHANGED mmio
    /\ stage' = IF lapicaddr /\ mmio + 1 >= MMIOLIM THEN "panic" ELSE "aps"
    /\ UNCHANGED <<machine, mmap, npages, npages_basemem, nextfree, page_free_list, lost, tables, pt, turn>>
    /\ UNCHANGED cpuVars

cpunum(p) == IF lapicaddr THEN p ELSE 0
\* Processors that answer a STARTUP message.
Usable(e) == e.kind = "proc" /\ e.enabled
Present == {machine.mp.entries[k].apic : k \in {k \in DOMAIN machine.mp.entries : Usable(machine.mp.entries[k])}}

\* INIT resets a processor, the first STARTUP lets it run, the second is ignored.
lapic_startap(id) == ap' = [p \in ApicIds |-> IF p = id /\ p \in Present THEN "entry" ELSE ap[p]]

\* The stack and the message for the next processor.
boot_aps ==
    /\ stage = "aps"
    /\ IF turn >= ncpu THEN stage' = "done" /\ UNCHANGED <<turn, mpentry_kstack, ap>>
       ELSE IF turn = cpunum(machine.bsp) THEN turn' = turn + 1 /\ UNCHANGED <<stage, mpentry_kstack, ap>>
       ELSE /\ mpentry_kstack' = turn /\ lapic_startap(turn)
            /\ stage' = "wait" /\ UNCHANGED turn
    /\ UNCHANGED <<machine, mmap, cpus, ncpu, bootcpu, lapicaddr, stackOf>> /\ UNCHANGED memVars

\* Mistake: the next processor is started at once.
WaitsForNobody ==
    /\ stage = "wait"
    /\ turn' = turn + 1 /\ stage' = "aps"
    /\ UNCHANGED <<machine, mmap>> /\ UNCHANGED memVars /\ UNCHANGED cpuVars
boot_wait ==
    /\ stage = "wait" /\ cpus[turn] = "started"
    /\ turn' = turn + 1 /\ stage' = "aps"
    /\ UNCHANGED <<machine, mmap>> /\ UNCHANGED memVars /\ UNCHANGED cpuVars

\* mpentry.S: into long mode and onto the stack that the variable names now.
mpentry_start(p) ==
    /\ ap[p] = "entry"
    /\ stackOf' = [stackOf EXCEPT ![p] = mpentry_kstack]
    /\ ap' = [ap EXCEPT ![p] = "mp_main"]
    /\ UNCHANGED <<machine, mmap, stage, turn, cpus, ncpu, bootcpu, lapicaddr, mpentry_kstack>> /\ UNCHANGED memVars

mp_main(p) ==
    /\ ap[p] = "mp_main"
    /\ mmio_map_region(1)
    /\ IF mmio + 1 >= MMIOLIM THEN Panic /\ UNCHANGED ap
       ELSE ap' = [ap EXCEPT ![p] = "set up"] /\ UNCHANGED stage
    /\ UNCHANGED <<machine, mmap, turn, npages, npages_basemem, nextfree, page_free_list, lost, tables, pt>>
    /\ UNCHANGED <<cpus, ncpu, bootcpu, lapicaddr, mpentry_kstack, stackOf>>

\* thiscpu->cpu_status is exchanged; then the processor waits for the lock.
mp_started(p) ==
    /\ ap[p] = "set up"
    /\ cpus' = [cpus EXCEPT ![p] = "started"]
    /\ ap' = [ap EXCEPT ![p] = "up"]
    /\ UNCHANGED <<machine, mmap, stage, turn, ncpu, bootcpu, lapicaddr, mpentry_kstack, stackOf>> /\ UNCHANGED memVars

-------------------------------------------------------------------------------
BootInit ==
    /\ machine \in Machines /\ stage = "start" /\ turn = 1 /\ mmap = <<>>
    /\ npages = 0 /\ npages_basemem = 0 /\ nextfree = KernelEnd
    /\ page_free_list = <<>> /\ lost = {} /\ tables = {} /\ pt = <<>> /\ mmio = MMIOBASE
    /\ cpus = [i \in ApicIds |-> "unused"] /\ ncpu = 0 /\ bootcpu = 0 /\ lapicaddr = FALSE
    /\ mpentry_kstack = NoStack
    /\ ap = [p \in ApicIds |-> "off"] /\ stackOf = [p \in ApicIds |-> NoStack]

BootProcessor ==
    \/ do_e820 \/ sanitize \/ i386_detect_memory \/ boot_alloc \/ page_init \/ map_regions
    \/ check_page_free_list \/ check_page_alloc \/ page_check \/ check_boot_pml4e
    \/ mp_init \/ lapic_init \/ boot_aps \/ boot_wait
OtherProcessor(p) == mpentry_start(p) \/ mp_main(p) \/ mp_started(p)
BootNext == BootProcessor \/ \E p \in ApicIds : OtherProcessor(p)

(* Machines for which the counting of i386_detect_memory() is right: base      *)
(* memory ends in front of the I/O hole, and the usable extended memory is one *)
(* piece that begins at EXTPHYSMEM.                                            *)
RamUnit(u) ==
    IF mmap = <<>>
    THEN u < machine.nvram.base \/ u \div UNITS \in EXTPHYSMEM..(EXTPHYSMEM + npages_extmem - 1)
    ELSE LET holds(m) == u >= m.addr /\ u < m.addr + m.len
         IN  /\ \E k \in DOMAIN machine.e820 : holds(machine.e820[k])
             /\ \A k \in DOMAIN machine.e820 :
                  holds(machine.e820[k]) => machine.e820[k].type \in {"usable", "reclaimable"}
RamPage(p) == \A u \in (p * UNITS)..(p * UNITS + UNITS - 1) : RamUnit(u)
Plain ==
    /\ \A u \in (IOPHYSMEM * UNITS)..(EXTPHYSMEM * UNITS - 1) : ~RamUnit(u)
    /\ \A p \in 1..(MPENTRY - 1) : RamPage(p)
    /\ \A p \in EXTPHYSMEM..(npages - 1) : RamPage(p)

(* Machines whose table lists the processors in the order of their APIC ids, the *)
(* boot processor among them.                                                    *)
Orderly ==
    LET entries == machine.mp.entries
    IN  /\ \A k \in DOMAIN entries : Usable(entries[k]) =>
              entries[k].apic = Cardinality({j \in 1..(k - 1) : Usable(entries[j])})
        /\ \A k \in DOMAIN entries : entries[k].kind = "proc" =>
              (entries[k].boot <=> entries[k].enabled /\ entries[k].apic = machine.bsp)
        /\ \E k \in DOMAIN entries : Usable(entries[k]) /\ entries[k].boot
        /\ machine.bsp < NCPU

(* The list of free pages names memory that exists and that nobody uses: not  *)
(* page 0, the entry page, the I/O hole, the kernel, what boot_alloc() gave    *)
(* away or what page_check() lost; and no page twice.  (page_init and all that *)
(* takes from the list)                                                        *)
FreePagesUnused ==
    page_free_list # <<>> /\ Plain =>
      /\ \A i \in DOMAIN page_free_list :
           LET p == page_free_list[i]
           IN  /\ RamPage(p) /\ p # 0 /\ p # MPENTRY /\ p \notin lost
               /\ p \notin EXTPHYSMEM..(nextfree - 1)
      /\ \A i \in DOMAIN page_free_list : \A j \in 1..(i - 1) : page_free_list[i] # page_free_list[j]

(* A processor runs on the stack that its own task segment will name, and so   *)
(* on nobody else's: it has read mpentry_kstack before boot_aps() wrote the    *)
(* next one.                                                                   *)
OwnStack == Orderly => \A p \in ApicIds : stackOf[p] \in {NoStack, p}

===============================================================================
