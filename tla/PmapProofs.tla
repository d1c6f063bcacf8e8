------------------------------ MODULE PmapProofs ------------------------------
(***************************************************************************)
(* Theorems about Pmap: the physical pages are accounted for, for any      *)
(* number of pages, of entries in a table and of environments.             *)
(***************************************************************************)
EXTENDS Pmap, FiniteSetTheorems, WellFoundedInduction, TLAPS

(***************************************************************************)
(* What the theorems assume of programs, beyond PmapAssumption: none of    *)
(* the calls that the kernel mishandles, addresses that env_free() gets    *)
(* to, and no pages that region_alloc() has counted twice.                 *)
(***************************************************************************)
Reached(va) ==
    /\ PML4(va) = 0 /\ PDPE(va) <= TopPdpe
    /\ PDX(va) < TableLimit(PDPE(va)) /\ PTX(va) < N - 1

Sound ==
    /\ Habits = {} /\ BootVA = <<>>
    /\ BiosPage \in [Index -> Entry]
    /\ \A va \in VA : Reached(va)

(* inc/memlayout.h: pp_ref is 16 bits wide; nobody tests it. *)
NoOverflow == \A p \in UserPages : pp_ref[p] < RefMod - 1

(***************************************************************************)
(* The invariant, of the memory M inside an operation too.  lev says which *)
(* pages are tables and of which level, ext how many references a page has *)
(* that are not entries of a table, out the pages that are off the list    *)
(* and not in use yet.                                                     *)
(***************************************************************************)
Level == {"no", "root", "pdpt", "dir", "pt"}
Below(l) == IF l = "root" THEN "pdpt" ELSE IF l = "pdpt" THEN "dir"
            ELSE IF l = "dir" THEN "pt" ELSE "no"

MemType == [ref : [PAGE -> 0 .. RefMod - 1], free : Seq(PAGE),
            mem : [PAGE -> [Index -> Entry]], panic : BOOLEAN]

\* The entries that count as references.
Points(M, lev, t, i) == lev[t] # "no" /\ (lev[t] = "root" => i = 0) /\ Present(M, t, i)
Slots(M, lev, p) ==
    {s \in PAGE \X Index : Points(M, lev, s[1], s[2]) /\ M.mem[s[1]][s[2]].addr = p}

Listed(M, p) == \E i \in 1 .. Len(M.free) : M.free[i] = p

Typed(M, lev, ext, out) ==
    /\ M \in MemType /\ M.panic = FALSE
    /\ lev \in [PAGE -> Level] /\ ext \in [PAGE -> Nat] /\ out \in SUBSET UserPages

CountsExact(M, lev, ext) ==
    \A p \in UserPages : M.ref[p] = Cardinality(Slots(M, lev, p)) + ext[p]

FreeExact(M, lev, out) ==
    /\ \A i, j \in 1 .. Len(M.free) : M.free[i] = M.free[j] => i = j
    /\ \A p \in PAGE : Listed(M, p) <=> p \in UserPages /\ M.ref[p] = 0 /\ p \notin out
    /\ \A p \in out : M.ref[p] = 0

\* A table is pointed to once, a top-level table never, and by its environment.
TablesOnce(M, lev, ext) ==
    \A p \in PAGE : lev[p] # "no" =>
        p \in UserPages /\ M.ref[p] = 1 /\ (lev[p] = "root" => ext[p] = 1)

TreeShape(M, lev) ==
    \A t \in PAGE, i \in Index : Points(M, lev, t, i) =>
        /\ M.mem[t][i].addr \in UserPages
        /\ lev[M.mem[t][i].addr] = Below(lev[t])

KernelKept(M, lev) ==
    /\ \A p \in 1 .. 4 : M.mem[p] = KernelTables[p]
    /\ \A p \in PAGE : lev[p] = "root" => M.mem[p][1] = [addr |-> 1, perm |-> {"P", "W"}]

\* Nothing is where env_free() does not look.
WithinReach(M, lev) ==
    \A t \in PAGE, i \in Index : Present(M, t, i) =>
        /\ lev[t] = "pdpt" => /\ i <= TopPdpe
                              /\ \A k \in Index : Present(M, M.mem[t][i].addr, k) => k < TableLimit(i)
        /\ lev[t] = "pt" => i < N - 1

Heap(M, lev, ext, out) ==
    /\ Typed(M, lev, ext, out) /\ CountsExact(M, lev, ext) /\ FreeExact(M, lev, out)
    /\ TablesOnce(M, lev, ext) /\ TreeShape(M, lev) /\ KernelKept(M, lev) /\ WithinReach(M, lev)

RootsOf(lev) ==
    /\ env_pml4e \in [Env -> PAGE \cup {NULL}]
    /\ \A e \in Env : env_pml4e[e] # NULL => lev[env_pml4e[e]] = "root"
    /\ \A e, f \in Env : env_pml4e[e] # NULL /\ env_pml4e[e] = env_pml4e[f] => e = f
    /\ \A p \in PAGE : lev[p] = "root" => \E e \in Env : env_pml4e[e] = p

ExtOf(lev) == [p \in PAGE |-> IF lev[p] = "root" THEN 1 ELSE 0]

IInv == \E lev : Heap(State, lev, ExtOf(lev), {}) /\ RootsOf(lev)

(******************************** the records ********************************)
Link(p) == [addr |-> p, perm |-> {"P", "W"}]

LEMMA Constants ==
    /\ NPAGES \in Nat /\ NPAGES > 5 /\ N \in Nat /\ N > 2 /\ RefMod \in Nat /\ RefMod > 1
    /\ TopPdpe \in Index /\ 0 \in Index /\ 1 \in Index /\ 2 \in Index /\ 0 \in PAGE
    /\ NULL \notin PAGE /\ \A t \in PAGE, i \in Index : <<t, i>> # NULL
  <1>1. NPAGES \in Nat /\ NPAGES > 5 /\ N \in Nat /\ N > 2 /\ RefMod \in Nat /\ RefMod > 1
    BY PmapAssumption
  <1>2. TopPdpe \in Index /\ NULL \notin PAGE /\ \A t \in PAGE, i \in Index : <<t, i>> # NULL
    BY PmapAssumption
  <1>3. 0 \in Index /\ 1 \in Index /\ 2 \in Index /\ 0 \in PAGE
    BY <1>1 DEF Index, PAGE
  <1> QED  BY <1>1, <1>2, <1>3

LEMMA Entries ==
    /\ Zero \in Entry /\ ZeroPage \in [Index -> Entry] /\ \A i \in Index : ZeroPage[i] = Zero
    /\ "P" \notin Zero.perm
    /\ \A p \in PAGE : Link(p) \in Entry /\ "P" \in Link(p).perm /\ Link(p).addr = p
  BY Constants DEF Entry, Zero, ZeroPage, Link

\* What the four fields of a memory are.
LEMMA Parts ==
    ASSUME NEW M \in MemType
    PROVE  /\ M.ref \in [PAGE -> 0 .. RefMod - 1] /\ M.free \in Seq(PAGE)
           /\ M.mem \in [PAGE -> [Index -> Entry]] /\ M.panic \in BOOLEAN
  BY DEF MemType

\* page_alloc(), field by field.
LEMMA AllocParts ==
    ASSUME NEW M \in MemType, M.free # <<>>
    PROVE  /\ Head(M.free) \in PAGE /\ page_alloc(M) \in MemType
           /\ page_alloc(M).ref = M.ref /\ page_alloc(M).free = Tail(M.free)
           /\ page_alloc(M).mem = [M.mem EXCEPT ![Head(M.free)] = ZeroPage]
           /\ page_alloc(M).panic = M.panic
  <1>1. M.free \in Seq(PAGE) /\ M.mem \in [PAGE -> [Index -> Entry]]
    BY Parts
  <1>2. Head(M.free) \in PAGE /\ Tail(M.free) \in Seq(PAGE)
    BY <1>1
  <1>3. /\ page_alloc(M).ref = M.ref /\ page_alloc(M).free = Tail(M.free)
        /\ page_alloc(M).mem = [M.mem EXCEPT ![Head(M.free)] = ZeroPage]
        /\ page_alloc(M).panic = M.panic
    BY DEF page_alloc, MemType
  <1>4. [M.mem EXCEPT ![Head(M.free)] = ZeroPage] \in [PAGE -> [Index -> Entry]]
    BY <1>1, <1>2, Entries
  <1>5. page_alloc(M) \in MemType
    BY <1>2, <1>3, <1>4 DEF page_alloc, MemType
  <1> QED  BY <1>2, <1>3, <1>5

\* incref, field by field.
LEMMA IncrefParts ==
    ASSUME NEW M \in MemType, NEW p \in PAGE
    PROVE  /\ incref(M, p) \in MemType
           /\ incref(M, p).ref = [M.ref EXCEPT ![p] = (M.ref[p] + 1) % RefMod]
           /\ incref(M, p).free = M.free /\ incref(M, p).mem = M.mem /\ incref(M, p).panic = M.panic
  <1>1. M.ref \in [PAGE -> 0 .. RefMod - 1]
    BY Parts
  <1>2. (M.ref[p] + 1) % RefMod \in 0 .. RefMod - 1
    BY <1>1, Constants
  <1>3. [M.ref EXCEPT ![p] = (M.ref[p] + 1) % RefMod] \in [PAGE -> 0 .. RefMod - 1]
    BY <1>1, <1>2
  <1>4. /\ incref(M, p).ref = [M.ref EXCEPT ![p] = (M.ref[p] + 1) % RefMod]
        /\ incref(M, p).free = M.free /\ incref(M, p).mem = M.mem /\ incref(M, p).panic = M.panic
    BY DEF incref, MemType
  <1>5. incref(M, p) = [ref |-> [M.ref EXCEPT ![p] = (M.ref[p] + 1) % RefMod], free |-> M.free,
                        mem |-> M.mem, panic |-> M.panic]
    <2>1. M = [ref |-> M.ref, free |-> M.free, mem |-> M.mem, panic |-> M.panic]
      BY DEF MemType
    <2>2. incref(M, p) = [[ref |-> M.ref, free |-> M.free, mem |-> M.mem, panic |-> M.panic]
                            EXCEPT !.ref = [M.ref EXCEPT ![p] = (M.ref[p] + 1) % RefMod]]
      BY <2>1 DEF incref
    <2> QED  BY <2>2
  <1>6. incref(M, p) \in MemType
    BY <1>3, <1>4, <1>5, Parts DEF MemType
  <1> QED  BY <1>4, <1>6

\* An entry is written.
LEMMA EntryParts ==
    ASSUME NEW M \in MemType, NEW t \in PAGE, NEW i \in Index, NEW x \in Entry
    PROVE  /\ [M EXCEPT !.mem[t][i] = x] \in MemType
           /\ [M EXCEPT !.mem[t][i] = x].ref = M.ref /\ [M EXCEPT !.mem[t][i] = x].free = M.free
           /\ [M EXCEPT !.mem[t][i] = x].panic = M.panic
           /\ [M EXCEPT !.mem[t][i] = x].mem = [M.mem EXCEPT ![t] = [M.mem[t] EXCEPT ![i] = x]]
  <1> DEFINE m == [M.mem EXCEPT ![t] = [M.mem[t] EXCEPT ![i] = x]]
             W == [M EXCEPT !.mem[t][i] = x]
  <1>1. M.mem \in [PAGE -> [Index -> Entry]]
    BY Parts
  <1>2. m \in [PAGE -> [Index -> Entry]]
    BY <1>1
  <1>3. W.ref = M.ref /\ W.free = M.free /\ W.panic = M.panic /\ W.mem = m
    BY DEF MemType
  <1>4. W = [ref |-> M.ref, free |-> M.free, mem |-> m, panic |-> M.panic]
    <2>1. M = [ref |-> M.ref, free |-> M.free, mem |-> M.mem, panic |-> M.panic]
      BY DEF MemType
    <2>2. W = [[ref |-> M.ref, free |-> M.free, mem |-> M.mem, panic |-> M.panic] EXCEPT !.mem = m]
      BY <2>1
    <2> QED  BY <2>2
  <1>5. W \in MemType
    BY <1>2, <1>4, Parts DEF MemType
  <1> QED  BY <1>3, <1>5

\* What an EXCEPT on the memory leaves.
LEMMA EntryValues ==
    ASSUME NEW M \in MemType, NEW t \in PAGE, NEW i \in Index, NEW x \in Entry
    PROVE  /\ [M EXCEPT !.mem[t][i] = x].mem[t][i] = x
           /\ \A u \in PAGE, j \in Index :
                 u # t \/ j # i => [M EXCEPT !.mem[t][i] = x].mem[u][j] = M.mem[u][j]
           /\ \A u \in PAGE : u # t => [M EXCEPT !.mem[t][i] = x].mem[u] = M.mem[u]
  <1> DEFINE m == [M.mem EXCEPT ![t] = [M.mem[t] EXCEPT ![i] = x]]
  <1>1. M.mem \in [PAGE -> [Index -> Entry]] /\ [M EXCEPT !.mem[t][i] = x].mem = m
    BY Parts, EntryParts
  <1>2. m[t][i] = x /\ (\A u \in PAGE, j \in Index : u # t \/ j # i => m[u][j] = M.mem[u][j])
        /\ \A u \in PAGE : u # t => m[u] = M.mem[u]
    BY <1>1
  <1> QED  BY <1>1, <1>2

(******************************** the counts *********************************)
LEMMA ModuloIs ==
    ASSUME NEW n \in Nat \ {0}, NEW b \in 0 .. n - 1
    PROVE  b % n = b /\ (b + n) % n = b
  <1>1. b % n = b
    OBVIOUS
  <1> DEFINE x == b + n
             q == x \div n
             r == x % n
  <1>2. q \in Int /\ r \in 0 .. n - 1 /\ x = n * q + r
    OBVIOUS
  <1>3. n * (q - 1) = b - r
    BY <1>2
  <1>4. ~(q - 1 >= 1)
    <2> SUFFICES ASSUME q - 1 >= 1 PROVE FALSE
      OBVIOUS
    <2>1. n * (q - 1) >= n
      BY <1>2
    <2> QED  BY <2>1, <1>2, <1>3
  <1>5. ~(q - 1 <= -1)
    <2> SUFFICES ASSUME q - 1 <= -1 PROVE FALSE
      OBVIOUS
    <2>1. n * (q - 1) <= -n
      BY <1>2
    <2> QED  BY <2>1, <1>2, <1>3
  <1>6. q = 1
    BY <1>2, <1>4, <1>5
  <1> QED  BY <1>1, <1>2, <1>6

\* A count below the limit does not wrap.
LEMMA CountUp ==
    ASSUME NEW M \in MemType, NEW p \in PAGE, M.ref[p] + 1 < RefMod
    PROVE  incref(M, p).ref = [M.ref EXCEPT ![p] = M.ref[p] + 1]
  <1>1. M.ref[p] \in 0 .. RefMod - 1 /\ RefMod \in Nat \ {0}
    BY Parts, Constants
  <1>2. M.ref[p] + 1 \in 0 .. RefMod - 1
    BY <1>1
  <1>3. (M.ref[p] + 1) % RefMod = M.ref[p] + 1
    BY <1>1, <1>2, ModuloIs
  <1> QED  BY <1>3, IncrefParts

\* page_decref() of a page in use: it is freed with its last reference, and
\* neither of page_free()'s panics is reached.
LEMMA DecrefParts ==
    ASSUME NEW M \in MemType, NEW p \in PAGE, M.ref[p] > 0, ~Listed(M, p)
    PROVE  /\ page_decref(M, p) \in MemType
           /\ page_decref(M, p).ref = [M.ref EXCEPT ![p] = M.ref[p] - 1]
           /\ page_decref(M, p).free = IF M.ref[p] = 1 THEN <<p>> \o M.free ELSE M.free
           /\ page_decref(M, p).mem = M.mem /\ page_decref(M, p).panic = M.panic
  <1> DEFINE less == [M.ref EXCEPT ![p] = M.ref[p] - 1]
             m == [M EXCEPT !.ref[p] = (@ + RefMod - 1) % RefMod]
             freed == <<p>> \o M.free
  <1>1. M.ref[p] \in 0 .. RefMod - 1 /\ RefMod \in Nat \ {0} /\ M.ref \in [PAGE -> 0 .. RefMod - 1]
    BY Parts, Constants
  <1>2. M.ref[p] - 1 \in 0 .. RefMod - 1
    BY <1>1
  <1>3. (M.ref[p] + RefMod - 1) % RefMod = M.ref[p] - 1
    <2>1. ((M.ref[p] - 1) + RefMod) % RefMod = M.ref[p] - 1
      BY <1>1, <1>2, ModuloIs
    <2>2. M.ref[p] + RefMod - 1 = (M.ref[p] - 1) + RefMod
      BY <1>1
    <2> QED  BY <2>1, <2>2
  <1>4. less \in [PAGE -> 0 .. RefMod - 1] /\ less[p] = M.ref[p] - 1
    BY <1>1, <1>2
  <1>5. M = [ref |-> M.ref, free |-> M.free, mem |-> M.mem, panic |-> M.panic]
    BY DEF MemType
  <1>6. m = [M EXCEPT !.ref = less]
    BY <1>3
  <1>7. m = [ref |-> less, free |-> M.free, mem |-> M.mem, panic |-> M.panic]
    <2> HIDE DEF m, less
    <2>1. m = [[ref |-> M.ref, free |-> M.free, mem |-> M.mem, panic |-> M.panic] EXCEPT !.ref = less]
      BY <1>5, <1>6
    <2> QED  BY <2>1
  <1>8. page_decref(M, p) = IF m.ref[p] = 0 THEN page_free(m, p) ELSE m
    BY DEF page_decref
  <1>9. ~Linked(m, p)
    <2> HIDE DEF m, less
    <2>1. m.free = M.free /\ M.free \in Seq(PAGE)
      BY <1>7, Parts
    <2>2. Len(M.free) \in Nat
      BY <2>1
    <2> QED  BY <2>1, <2>2 DEF Linked, Listed
  <1> HIDE DEF m, less, freed
  <1>10. CASE M.ref[p] = 1
    <2>1. m.ref[p] = 0 /\ m.free = M.free
      BY <1>1, <1>4, <1>7, <1>10
    <2>2. page_decref(M, p) = [m EXCEPT !.free = <<p>> \o @]
      BY <1>8, <1>9, <2>1 DEF page_free
    <2>3. page_decref(M, p) = [[ref |-> less, free |-> M.free, mem |-> M.mem, panic |-> M.panic] EXCEPT !.free = freed]
      BY <1>7, <2>1, <2>2 DEF freed
    <2>4. page_decref(M, p) = [ref |-> less, free |-> freed, mem |-> M.mem, panic |-> M.panic]
      BY <2>3
    <2>5. freed \in Seq(PAGE)
      BY Parts DEF freed
    <2>6. page_decref(M, p) \in MemType
      BY <1>4, <2>4, <2>5, Parts DEF MemType
    <2> QED  BY <1>10, <2>4, <2>6 DEF less, freed
  <1>11. CASE M.ref[p] # 1
    <2>1. m.ref[p] # 0
      BY <1>1, <1>4, <1>7, <1>11
    <2>2. page_decref(M, p) = m
      BY <1>8, <2>1
    <2>3. m \in MemType
      BY <1>4, <1>7, Parts DEF MemType
    <2> QED  BY <1>7, <1>11, <2>2, <2>3 DEF less
  <1> QED  BY <1>10, <1>11

(********************************* the parts *********************************)
LEMMA TailList ==
    ASSUME NEW f \in Seq(PAGE), f # <<>>, \A i, j \in 1 .. Len(f) : f[i] = f[j] => i = j
    PROVE  /\ \A i, j \in 1 .. Len(Tail(f)) : Tail(f)[i] = Tail(f)[j] => i = j
           /\ \A p : (\E i \in 1 .. Len(Tail(f)) : Tail(f)[i] = p) <=> (\E i \in 1 .. Len(f) : f[i] = p) /\ p # Head(f)
  <1> DEFINE g == Tail(f)
  <1>1. Len(f) \in Nat \ {0} /\ Len(g) = Len(f) - 1 /\ Head(f) = f[1] /\ \A i \in 1 .. Len(g) : g[i] = f[i + 1]
    OBVIOUS
  <1> HIDE DEF g
  <1>2. ASSUME NEW i \in 1 .. Len(g), NEW j \in 1 .. Len(g), g[i] = g[j] PROVE i = j
    <2>1. i + 1 \in 1 .. Len(f) /\ j + 1 \in 1 .. Len(f) /\ f[i + 1] = f[j + 1]
      BY <1>1, <1>2
    <2>2. i + 1 = j + 1
      BY <2>1
    <2> QED  BY <1>1, <2>2
  <1>3. ASSUME NEW i \in 1 .. Len(g)
        PROVE  (\E k \in 1 .. Len(f) : f[k] = g[i]) /\ g[i] # Head(f)
    <2>1. i + 1 \in 1 .. Len(f) /\ 1 \in 1 .. Len(f) /\ i + 1 # 1
      BY <1>1
    <2>2. f[i + 1] # f[1]
      BY <2>1
    <2> QED  BY <1>1, <2>1, <2>2
  <1>4. ASSUME NEW k \in 1 .. Len(f), f[k] # Head(f)
        PROVE  \E i \in 1 .. Len(g) : g[i] = f[k]
    <2>1. k # 1
      BY <1>1, <1>4
    <2>2. k - 1 \in 1 .. Len(g) /\ (k - 1) + 1 = k
      BY <1>1, <2>1
    <2>3. g[k - 1] = f[k]
      BY <1>1, <2>2
    <2> QED  BY <2>2, <2>3
  <1>5. \A p : (\E i \in 1 .. Len(g) : g[i] = p) <=> (\E i \in 1 .. Len(f) : f[i] = p) /\ p # Head(f)
    BY <1>3, <1>4
  <1> QED  BY <1>2, <1>5 DEF g

\* What page_free() does to the list.
LEMMA ConsList ==
    ASSUME NEW f \in Seq(PAGE), NEW p \in PAGE, ~ \E i \in 1 .. Len(f) : f[i] = p,
           \A i, j \in 1 .. Len(f) : f[i] = f[j] => i = j
    PROVE  /\ \A i, j \in 1 .. Len(<<p>> \o f) : (<<p>> \o f)[i] = (<<p>> \o f)[j] => i = j
           /\ \A q : (\E i \in 1 .. Len(<<p>> \o f) : (<<p>> \o f)[i] = q) <=> (\E i \in 1 .. Len(f) : f[i] = q) \/ q = p
  <1> DEFINE g == <<p>> \o f
  <1>1. Len(f) \in Nat /\ Len(g) = Len(f) + 1 /\ g[1] = p
    OBVIOUS
  <1>2. ASSUME NEW i \in 2 .. Len(g) PROVE g[i] = f[i - 1] /\ i - 1 \in 1 .. Len(f)
    <2>1. i - 1 \in 1 .. Len(f) /\ i = 1 + (i - 1)
      BY <1>1
    <2> QED  BY <1>1, <2>1
  <1>3. ASSUME NEW i \in 1 .. Len(f) PROVE g[i + 1] = f[i] /\ i + 1 \in 1 .. Len(g)
    BY <1>1
  <1> HIDE DEF g
  <1>4. ASSUME NEW i \in 1 .. Len(g), NEW j \in 1 .. Len(g), g[i] = g[j] PROVE i = j
    <2>1. CASE i = 1 /\ j = 1
      BY <2>1
    <2>2. CASE i # 1 /\ j = 1
      <3>1. i \in 2 .. Len(g)
        BY <1>1, <2>2
      <3> QED  BY <1>1, <1>2, <1>4, <2>2, <3>1
    <2>3. CASE i = 1 /\ j # 1
      <3>1. j \in 2 .. Len(g)
        BY <1>1, <2>3
      <3> QED  BY <1>1, <1>2, <1>4, <2>3, <3>1
    <2>4. CASE i # 1 /\ j # 1
      <3>1. i \in 2 .. Len(g) /\ j \in 2 .. Len(g)
        BY <1>1, <2>4
      <3>2. i - 1 = j - 1
        BY <1>2, <1>4, <3>1
      <3> QED  BY <1>1, <3>2
    <2> QED  BY <2>1, <2>2, <2>3, <2>4
  <1>5. ASSUME NEW q, \E i \in 1 .. Len(g) : g[i] = q PROVE (\E i \in 1 .. Len(f) : f[i] = q) \/ q = p
    <2>1. PICK i \in 1 .. Len(g) : g[i] = q
      BY <1>5
    <2>2. i = 1 \/ i \in 2 .. Len(g)
      BY <1>1
    <2> QED  BY <1>1, <1>2, <2>1, <2>2
  <1>6. ASSUME NEW q, (\E i \in 1 .. Len(f) : f[i] = q) \/ q = p PROVE \E i \in 1 .. Len(g) : g[i] = q
    <2>1. 1 \in 1 .. Len(g)
      BY <1>1
    <2> QED  BY <1>1, <1>3, <1>6, <2>1
  <1> QED  BY <1>4, <1>5, <1>6 DEF g

\* The references to a page can be counted.
LEMMA SlotsFinite ==
    ASSUME NEW M, NEW lev, NEW p
    PROVE  IsFiniteSet(Slots(M, lev, p)) /\ Cardinality(Slots(M, lev, p)) \in Nat
  <1>1. NPAGES - 1 \in Int /\ N - 1 \in Int /\ 0 \in Int
    BY Constants
  <1>2. IsFiniteSet(PAGE) /\ IsFiniteSet(Index)
    BY <1>1, FS_Interval DEF PAGE, Index
  <1>3. IsFiniteSet(PAGE \X Index)
    BY <1>2, FS_Product
  <1>4. Slots(M, lev, p) \subseteq PAGE \X Index
    BY DEF Slots
  <1>5. IsFiniteSet(Slots(M, lev, p))
    BY <1>3, <1>4, FS_Subset
  <1> QED  BY <1>5, FS_CardinalityType

\* What Heap says, in the words that most proofs need.
LEMMA HeapParts ==
    ASSUME NEW M, NEW lev, NEW ext, NEW out, Heap(M, lev, ext, out)
    PROVE  /\ M \in MemType /\ M.panic = FALSE /\ lev \in [PAGE -> Level] /\ ext \in [PAGE -> Nat]
           /\ out \in SUBSET UserPages
           /\ CountsExact(M, lev, ext) /\ FreeExact(M, lev, out) /\ TablesOnce(M, lev, ext)
           /\ TreeShape(M, lev) /\ KernelKept(M, lev) /\ WithinReach(M, lev)
  BY DEF Heap, Typed

LEMMA HeapIs ==
    ASSUME NEW M \in MemType, M.panic = FALSE, NEW lev \in [PAGE -> Level], NEW ext \in [PAGE -> Nat],
           NEW out \in SUBSET UserPages,
           CountsExact(M, lev, ext), FreeExact(M, lev, out), TablesOnce(M, lev, ext),
           TreeShape(M, lev), KernelKept(M, lev), WithinReach(M, lev)
    PROVE  Heap(M, lev, ext, out)
  BY DEF Heap, Typed

\* A page without references is not a table, and nothing points to it.
LEMMA Unreferenced ==
    ASSUME NEW M, NEW lev, NEW ext, NEW out, Heap(M, lev, ext, out), NEW p \in PAGE, M.ref[p] = 0
    PROVE  /\ lev[p] = "no"
           /\ p \in UserPages => ext[p] = 0
           /\ \A t \in PAGE, i \in Index : Points(M, lev, t, i) => M.mem[t][i].addr # p
  <1>0. TablesOnce(M, lev, ext) /\ CountsExact(M, lev, ext) /\ ext \in [PAGE -> Nat]
    BY HeapParts
  <1>1. lev[p] = "no"
    BY <1>0 DEF TablesOnce
  <1>2. ASSUME p \in UserPages PROVE ext[p] = 0 /\ Slots(M, lev, p) = {}
    <2>1. /\ M.ref[p] = Cardinality(Slots(M, lev, p)) + ext[p] /\ ext[p] \in Nat
          /\ Cardinality(Slots(M, lev, p)) \in Nat /\ IsFiniteSet(Slots(M, lev, p))
      <3>1. M.ref[p] = Cardinality(Slots(M, lev, p)) + ext[p] /\ ext[p] \in Nat
        BY <1>0, <1>2 DEF CountsExact
      <3> QED  BY <3>1, SlotsFinite
    <2>2. Cardinality(Slots(M, lev, p)) = 0 /\ ext[p] = 0
      BY <2>1
    <2> QED  BY <2>1, <2>2, FS_EmptySet
  <1>3. ASSUME NEW t \in PAGE, NEW i \in Index, Points(M, lev, t, i) PROVE M.mem[t][i].addr # p
    <2> SUFFICES ASSUME M.mem[t][i].addr = p PROVE FALSE
      OBVIOUS
    <2>1. p \in UserPages
      BY <1>3, HeapParts DEF TreeShape
    <2>2. <<t, i>> \in Slots(M, lev, p)
      BY <1>3 DEF Slots
    <2> QED  BY <1>2, <2>1, <2>2
  <1> QED  BY <1>1, <1>2, <1>3

(***************************************************************************)
(* The steps of which the operations consist.                              *)
(***************************************************************************)
\* The tables say the same.
Agree(M, lev, M2) ==
    \A t \in PAGE, i \in Index :
        /\ Points(M2, lev, t, i) <=> Points(M, lev, t, i)
        /\ Points(M, lev, t, i) => M2.mem[t][i].addr = M.mem[t][i].addr

\* What depends on the entries only stays when they do.
LEMMA AgreeKeeps ==
    ASSUME NEW M, NEW lev, NEW M2, Agree(M, lev, M2), lev \in [PAGE -> Level],
           TreeShape(M, lev), WithinReach(M, lev)
    PROVE  /\ \A p : Slots(M2, lev, p) = Slots(M, lev, p)
           /\ TreeShape(M2, lev) /\ WithinReach(M2, lev)
  <1>1. \A p : Slots(M2, lev, p) = Slots(M, lev, p)
    BY DEF Slots, Agree
  <1>2. TreeShape(M2, lev)
    BY DEF TreeShape, Agree
  <1>3. WithinReach(M2, lev)
    <2> SUFFICES ASSUME NEW t \in PAGE, NEW i \in Index, Present(M2, t, i)
                 PROVE  /\ lev[t] = "pdpt" => /\ i <= TopPdpe
                              /\ \A k \in Index : Present(M2, M2.mem[t][i].addr, k) => k < TableLimit(i)
                        /\ lev[t] = "pt" => i < N - 1
      BY DEF WithinReach
    <2>1. CASE lev[t] = "pdpt"
      <3> DEFINE c == M2.mem[t][i].addr
      <3>1. Points(M2, lev, t, i)
        BY <2>1 DEF Points
      <3>2. Points(M, lev, t, i) /\ M.mem[t][i].addr = c
        BY <3>1 DEF Agree
      <3>3. c \in PAGE /\ lev[c] = "dir"
        BY <2>1, <3>2 DEF TreeShape, Below, UserPages
      <3>4. Present(M, t, i)
        BY <3>2 DEF Points
      <3> HIDE DEF c
      <3>5. i <= TopPdpe /\ \A k \in Index : Present(M, c, k) => k < TableLimit(i)
        BY <2>1, <3>2, <3>4 DEF WithinReach
      <3>6. \A k \in Index : Present(M2, c, k) => Present(M, c, k)
        BY <3>3 DEF Agree, Points
      <3> QED  BY <2>1, <3>5, <3>6 DEF c
    <2>2. CASE lev[t] = "pt"
      <3>1. Points(M2, lev, t, i)
        BY <2>2 DEF Points
      <3>2. Present(M, t, i)
        BY <3>1 DEF Agree, Points
      <3> QED  BY <2>2, <3>2 DEF WithinReach
    <2> QED  BY <2>1, <2>2
  <1> QED  BY <1>1, <1>2, <1>3

\* page_alloc(): the head of the list is cleared and taken.
LEMMA AllocKeeps ==
    ASSUME NEW M, NEW lev, NEW ext, NEW out, Heap(M, lev, ext, out), M.free # <<>>
    PROVE  /\ Head(M.free) \in UserPages /\ Head(M.free) \notin out
           /\ M.ref[Head(M.free)] = 0 /\ lev[Head(M.free)] = "no"
           /\ Heap(page_alloc(M), lev, ext, out \cup {Head(M.free)})
  <1> DEFINE h == Head(M.free)
             A == page_alloc(M)
  <1>1. /\ M \in MemType /\ M.panic = FALSE /\ lev \in [PAGE -> Level] /\ ext \in [PAGE -> Nat]
        /\ out \in SUBSET UserPages /\ M.free \in Seq(PAGE) /\ M.mem \in [PAGE -> [Index -> Entry]]
    BY HeapParts, Parts
  <1>2. CountsExact(M, lev, ext) /\ FreeExact(M, lev, out) /\ TablesOnce(M, lev, ext)
    BY HeapParts
  <1>3. TreeShape(M, lev) /\ KernelKept(M, lev) /\ WithinReach(M, lev)
    BY HeapParts
  <1>4. /\ h \in PAGE /\ A \in MemType /\ A.ref = M.ref /\ A.free = Tail(M.free)
        /\ A.mem = [M.mem EXCEPT ![h] = ZeroPage] /\ A.panic = M.panic
    BY <1>1, AllocParts
  <1>5. Listed(M, h)
    <2>1. 1 \in 1 .. Len(M.free) /\ M.free[1] = h
      BY <1>1
    <2> QED  BY <2>1 DEF Listed
  <1>6. h \in UserPages /\ h \notin out /\ M.ref[h] = 0
    BY <1>2, <1>4, <1>5 DEF FreeExact
  <1>7. lev[h] = "no"
    BY <1>4, <1>6, Unreferenced
  <1> HIDE DEF h, A
  <1>8. \A t \in PAGE : t # h => A.mem[t] = M.mem[t]
    BY <1>1, <1>4
  <1>9. Agree(M, lev, A)
    BY <1>7, <1>8 DEF Agree, Points, Present
  <1>10. (\A p : Slots(A, lev, p) = Slots(M, lev, p)) /\ TreeShape(A, lev) /\ WithinReach(A, lev)
    BY <1>1, <1>3, <1>9, AgreeKeeps
  <1>11. CountsExact(A, lev, ext)
    BY <1>2, <1>4, <1>10 DEF CountsExact
  <1>12. FreeExact(A, lev, out \cup {h})
    <2>1. /\ \A i, j \in 1 .. Len(A.free) : A.free[i] = A.free[j] => i = j
          /\ \A p : Listed(A, p) <=> Listed(M, p) /\ p # h
      <3>1. \A i, j \in 1 .. Len(M.free) : M.free[i] = M.free[j] => i = j
        BY <1>2 DEF FreeExact
      <3> DEFINE g == Tail(M.free)
      <3>2. /\ \A i, j \in 1 .. Len(g) : g[i] = g[j] => i = j
            /\ \A p : (\E i \in 1 .. Len(g) : g[i] = p) <=> (\E i \in 1 .. Len(M.free) : M.free[i] = p) /\ p # h
        BY <1>1, <3>1, TailList DEF h
      <3>3. A.free = g
        BY <1>4
      <3> HIDE DEF g
      <3> QED  BY <3>2, <3>3 DEF Listed
    <2> QED  BY <1>2, <1>4, <1>6, <2>1 DEF FreeExact
  <1>13. TablesOnce(A, lev, ext)
    BY <1>2, <1>4 DEF TablesOnce
  <1>14. KernelKept(A, lev)
    <2>1. h \notin 1 .. 4
      BY <1>6 DEF UserPages, KernPages
    <2>2. 1 .. 4 \subseteq PAGE
      BY Constants DEF PAGE
    <2> QED  BY <1>3, <1>7, <1>8, <2>1, <2>2 DEF KernelKept
  <1>15. out \cup {h} \in SUBSET UserPages
    BY <1>1, <1>6
  <1>16. Heap(A, lev, ext, out \cup {h})
    BY <1>1, <1>4, <1>10, <1>11, <1>12, <1>13, <1>14, <1>15, HeapIs
  <1> QED  BY <1>6, <1>7, <1>16 DEF h, A

\* pp_ref++ on a page that is no table.
LEMMA IncrefKeeps ==
    ASSUME NEW M, NEW lev, NEW ext, NEW out, Heap(M, lev, ext, out),
           NEW p \in UserPages, p \in out \/ M.ref[p] > 0, lev[p] = "no", M.ref[p] + 1 < RefMod
    PROVE  Heap(incref(M, p), lev, [ext EXCEPT ![p] = ext[p] + 1], out \ {p})
  <1> DEFINE A == incref(M, p)
             more == [ext EXCEPT ![p] = ext[p] + 1]
  <1>1. /\ M \in MemType /\ M.panic = FALSE /\ lev \in [PAGE -> Level] /\ ext \in [PAGE -> Nat]
        /\ out \in SUBSET UserPages /\ M.ref \in [PAGE -> 0 .. RefMod - 1] /\ p \in PAGE
    BY HeapParts, Parts DEF UserPages
  <1>2. CountsExact(M, lev, ext) /\ FreeExact(M, lev, out) /\ TablesOnce(M, lev, ext)
    BY HeapParts
  <1>3. TreeShape(M, lev) /\ KernelKept(M, lev) /\ WithinReach(M, lev)
    BY HeapParts
  <1>4. /\ A \in MemType /\ A.free = M.free /\ A.mem = M.mem /\ A.panic = M.panic
        /\ A.ref = [M.ref EXCEPT ![p] = M.ref[p] + 1]
    BY <1>1, IncrefParts, CountUp
  <1> HIDE DEF A
  <1>5. A.ref[p] = M.ref[p] + 1 /\ \A q \in PAGE : q # p => A.ref[q] = M.ref[q]
    BY <1>1, <1>4
  <1>6. more \in [PAGE -> Nat] /\ more[p] = ext[p] + 1 /\ \A q \in PAGE : q # p => more[q] = ext[q]
    BY <1>1
  <1> HIDE DEF more
  <1>7. Agree(M, lev, A)
    BY <1>4 DEF Agree, Points, Present
  <1>8. (\A q : Slots(A, lev, q) = Slots(M, lev, q)) /\ TreeShape(A, lev) /\ WithinReach(A, lev)
    BY <1>1, <1>3, <1>7, AgreeKeeps
  <1>9. CountsExact(A, lev, more)
    <2> SUFFICES ASSUME NEW q \in UserPages PROVE A.ref[q] = Cardinality(Slots(A, lev, q)) + more[q]
      BY DEF CountsExact
    <2>1. M.ref[q] = Cardinality(Slots(M, lev, q)) + ext[q] /\ q \in PAGE
      BY <1>2 DEF CountsExact, UserPages
    <2>2. Cardinality(Slots(M, lev, q)) \in Nat /\ ext[q] \in Nat
      BY <1>1, <2>1, SlotsFinite
    <2> QED  BY <1>5, <1>6, <1>8, <2>1, <2>2
  <1>10. FreeExact(A, lev, out \ {p})
    <2>1. M.ref[p] \in Nat
      BY <1>1
    <2>2. ~Listed(M, p)
      BY <1>1, <1>2 DEF FreeExact
    <2>3. \A q : Listed(A, q) <=> Listed(M, q)
      BY <1>4 DEF Listed
    <2>4. \A q \in PAGE : Listed(A, q) <=> q \in UserPages /\ A.ref[q] = 0 /\ q \notin out \ {p}
      <3>1. A.ref[p] # 0
        BY <1>5, <2>1
      <3> QED  BY <1>2, <1>5, <2>2, <2>3, <3>1 DEF FreeExact
    <2>5. \A q \in out \ {p} : A.ref[q] = 0
      BY <1>1, <1>2, <1>5 DEF FreeExact, UserPages
    <2> QED  BY <1>2, <1>4, <2>4, <2>5 DEF FreeExact
  <1>11. TablesOnce(A, lev, more)
    BY <1>2, <1>5, <1>6 DEF TablesOnce
  <1>12. KernelKept(A, lev)
    BY <1>3, <1>4 DEF KernelKept
  <1>13. out \ {p} \in SUBSET UserPages
    BY <1>1
  <1>14. Heap(A, lev, more, out \ {p})
    BY <1>1, <1>4, <1>6, <1>8, <1>9, <1>10, <1>11, <1>12, <1>13, HeapIs
  <1> QED  BY <1>14 DEF A, more

\* Two entries for one page are two references.
LEMMA OneParent ==
    ASSUME NEW M, NEW lev, NEW ext, NEW out, Heap(M, lev, ext, out),
           NEW p \in UserPages, M.ref[p] <= 1,
           NEW t \in PAGE, NEW i \in Index, Points(M, lev, t, i), M.mem[t][i].addr = p,
           NEW u \in PAGE, NEW k \in Index, Points(M, lev, u, k), M.mem[u][k].addr = p
    PROVE  t = u /\ i = k
  <1> DEFINE S == Slots(M, lev, p)
             a == <<t, i>>
             b == <<u, k>>
  <1>1. a \in S /\ b \in S
    BY DEF Slots
  <1>2. CountsExact(M, lev, ext) /\ ext \in [PAGE -> Nat] /\ p \in PAGE
    BY HeapParts DEF UserPages
  <1>3. M.ref[p] = Cardinality(S) + ext[p] /\ ext[p] \in Nat
    BY <1>2 DEF CountsExact
  <1>4. IsFiniteSet(S) /\ Cardinality(S) \in Nat
    BY SlotsFinite
  <1> SUFFICES ASSUME a # b PROVE FALSE
    OBVIOUS
  <1> HIDE DEF S, a, b
  <1>5. IsFiniteSet(S \ {a}) /\ Cardinality(S \ {a}) = Cardinality(S) - 1
    BY <1>1, <1>4, FS_RemoveElement
  <1>6. Cardinality(S \ {a}) = 0
    <2>1. Cardinality(S) <= 1 /\ Cardinality(S \ {a}) \in Nat
      <3>1. Cardinality(S \ {a}) \in Nat
        BY <1>5, FS_CardinalityType
      <3> QED  BY <1>3, <1>4, <3>1
    <2> QED  BY <1>4, <1>5, <2>1
  <1>7. S \ {a} = {}
    BY <1>5, <1>6, FS_EmptySet
  <1> QED  BY <1>1, <1>7

\* Where an entry may be written, so that env_free() finds it.
Allowed(M, lev, t, i) ==
    /\ lev[t] = "root" => i = 0
    /\ lev[t] = "pdpt" => i <= TopPdpe
    /\ lev[t] = "dir" => \A u \in PAGE, k \in Index :
          Points(M, lev, u, k) /\ M.mem[u][k].addr = t => i < TableLimit(k)
    /\ lev[t] = "pt" => i < N - 1

Down1(lev, t, p) == [lev EXCEPT ![p] = Below(lev[t])]

\* An empty entry of table t is made to point to p: to a new table, or to data.
LEMMA SetKeeps ==
    ASSUME NEW M, NEW lev, NEW ext, NEW out, Heap(M, lev, ext, out),
           NEW t \in PAGE, NEW i \in Index, lev[t] # "no", ~Present(M, t, i), Allowed(M, lev, t, i),
           NEW x \in Entry, "P" \in x.perm,
           x.addr \in UserPages, lev[x.addr] = "no", ext[x.addr] > 0,
           lev[t] # "pt" => M.ref[x.addr] = 1 /\ M.mem[x.addr] = ZeroPage
    PROVE  Heap([M EXCEPT !.mem[t][i] = x], Down1(lev, t, x.addr),
                [ext EXCEPT ![x.addr] = ext[x.addr] - 1], out)
  <1> DEFINE p == x.addr
             A == [M EXCEPT !.mem[t][i] = x]
             lev2 == Down1(lev, t, p)
             less == [ext EXCEPT ![p] = ext[p] - 1]
  <1>1. /\ M \in MemType /\ M.panic = FALSE /\ lev \in [PAGE -> Level] /\ ext \in [PAGE -> Nat]
        /\ out \in SUBSET UserPages /\ p \in PAGE /\ M.mem \in [PAGE -> [Index -> Entry]]
    BY HeapParts, Parts DEF UserPages
  <1>2. CountsExact(M, lev, ext) /\ FreeExact(M, lev, out) /\ TablesOnce(M, lev, ext)
    BY HeapParts
  <1>3. TreeShape(M, lev) /\ KernelKept(M, lev) /\ WithinReach(M, lev)
    BY HeapParts
  <1>4. A \in MemType /\ A.ref = M.ref /\ A.free = M.free /\ A.panic = M.panic
    BY <1>1, EntryParts
  <1>5. /\ A.mem[t][i] = x
        /\ \A u \in PAGE, j \in Index : u # t \/ j # i => A.mem[u][j] = M.mem[u][j]
        /\ \A u \in PAGE : u # t => A.mem[u] = M.mem[u]
    BY <1>1, EntryValues
  <1> HIDE DEF A
  <1>6. t # p
    OBVIOUS
  <1>7. /\ lev2 \in [PAGE -> Level] /\ lev2[p] = Below(lev[t]) /\ lev2[p] # "root"
        /\ \A u \in PAGE : u # p => lev2[u] = lev[u]
        /\ lev[t] = "pt" => lev2[p] = "no"
    BY <1>1 DEF Down1, Below, Level
  <1>8. less \in [PAGE -> Nat] /\ less[p] = ext[p] - 1 /\ \A q \in PAGE : q # p => less[q] = ext[q]
    <2>1. ext[p] - 1 \in Nat
      BY <1>1
    <2> QED  BY <1>1, <2>1
  <1> HIDE DEF lev2, less
  \* Nothing is in a page that becomes a table.
  <1>9. lev2[p] # "no" => \A j \in Index : A.mem[p][j] = Zero /\ M.mem[p][j] = Zero
    <2> SUFFICES ASSUME lev2[p] # "no", NEW j \in Index PROVE A.mem[p][j] = Zero /\ M.mem[p][j] = Zero
      OBVIOUS
    <2>1. M.mem[p] = ZeroPage
      BY <1>7
    <2> QED  BY <1>1, <1>5, <1>6, <2>1, Entries
  <1>10. ASSUME NEW u \in PAGE, NEW j \in Index, u # t \/ j # i
         PROVE  /\ Points(A, lev2, u, j) <=> Points(M, lev, u, j)
                /\ A.mem[u][j] = M.mem[u][j]
    <2>1. A.mem[u][j] = M.mem[u][j]
      BY <1>5, <1>10
    <2>2. CASE u = p
      <3>1. ~Points(M, lev, u, j)
        BY <2>2 DEF Points
      <3>2. ~Points(A, lev2, u, j)
        BY <1>9, <2>2, Entries DEF Points, Present
      <3> QED  BY <2>1, <3>1, <3>2
    <2>3. CASE u # p
      <3>1. lev2[u] = lev[u]
        BY <1>7, <2>3
      <3> QED  BY <2>1, <3>1 DEF Points, Present
    <2> QED  BY <2>2, <2>3
  <1>11. Points(A, lev2, t, i) /\ ~Points(M, lev, t, i) /\ lev2[t] = lev[t]
    BY <1>5, <1>6, <1>7 DEF Points, Present, Allowed
  <1>12. ASSUME NEW q, q # p PROVE Slots(A, lev2, q) = Slots(M, lev, q)
    <2>1. ASSUME NEW u \in PAGE, NEW j \in Index
          PROVE  (Points(A, lev2, u, j) /\ A.mem[u][j].addr = q) <=> (Points(M, lev, u, j) /\ M.mem[u][j].addr = q)
      <3>1. CASE u = t /\ j = i
        BY <1>5, <1>11, <1>12, <3>1
      <3>2. CASE u # t \/ j # i
        BY <1>10, <3>2
      <3> QED  BY <3>1, <3>2
    <2> QED  BY <2>1 DEF Slots
  <1>13. Slots(A, lev2, p) = Slots(M, lev, p) \cup {<<t, i>>} /\ <<t, i>> \notin Slots(M, lev, p)
    <2>1. ASSUME NEW u \in PAGE, NEW j \in Index, u # t \/ j # i
          PROVE  (Points(A, lev2, u, j) /\ A.mem[u][j].addr = p) <=> (Points(M, lev, u, j) /\ M.mem[u][j].addr = p)
      BY <1>10, <2>1
    <2>2. <<t, i>> \in Slots(A, lev2, p) /\ <<t, i>> \notin Slots(M, lev, p)
      BY <1>5, <1>11 DEF Slots
    <2> QED  BY <2>1, <2>2 DEF Slots
  <1>14. CountsExact(A, lev2, less)
    <2> SUFFICES ASSUME NEW q \in UserPages PROVE A.ref[q] = Cardinality(Slots(A, lev2, q)) + less[q]
      BY DEF CountsExact
    <2>1. M.ref[q] = Cardinality(Slots(M, lev, q)) + ext[q] /\ q \in PAGE
      BY <1>2 DEF CountsExact, UserPages
    <2>2. Cardinality(Slots(M, lev, q)) \in Nat /\ ext[q] \in Nat
      BY <1>1, <2>1, SlotsFinite
    <2>3. CASE q = p
      <3>1. IsFiniteSet(Slots(M, lev, p))
        BY SlotsFinite
      <3>2. Cardinality(Slots(A, lev2, p)) = Cardinality(Slots(M, lev, p)) + 1
        BY <1>13, <3>1, FS_AddElement
      <3>3. less[p] = ext[p] - 1 /\ A.ref[p] = M.ref[p]
        BY <1>4, <1>8
      <3> QED  BY <2>1, <2>2, <2>3, <3>2, <3>3
    <2>4. CASE q # p
      BY <1>4, <1>8, <1>12, <2>1, <2>4
    <2> QED  BY <2>3, <2>4
  <1>15. FreeExact(A, lev2, out)
    BY <1>2, <1>4 DEF FreeExact, Listed
  <1>16. TablesOnce(A, lev2, less)
    <2> SUFFICES ASSUME NEW q \in PAGE, lev2[q] # "no"
                 PROVE  q \in UserPages /\ A.ref[q] = 1 /\ (lev2[q] = "root" => less[q] = 1)
      BY DEF TablesOnce
    <2>1. CASE q = p
      BY <1>4, <1>7, <2>1
    <2>2. CASE q # p
      BY <1>2, <1>4, <1>7, <1>8, <2>2 DEF TablesOnce
    <2> QED  BY <2>1, <2>2
  <1>17. TreeShape(A, lev2)
    <2> SUFFICES ASSUME NEW u \in PAGE, NEW j \in Index, Points(A, lev2, u, j)
                 PROVE  A.mem[u][j].addr \in UserPages /\ lev2[A.mem[u][j].addr] = Below(lev2[u])
      BY DEF TreeShape
    <2>1. CASE u = t /\ j = i
      BY <1>5, <1>7, <1>11, <2>1
    <2>2. CASE u # t \/ j # i
      <3> DEFINE q == M.mem[u][j].addr
      <3>1. Points(M, lev, u, j) /\ A.mem[u][j].addr = q
        BY <1>10, <2>2
      <3>2. q \in UserPages /\ lev[q] = Below(lev[u])
        BY <1>3, <3>1 DEF TreeShape
      <3> HIDE DEF q
      <3>3. u # p
        BY <3>1 DEF Points
      <3>4. lev2[u] = lev[u]
        BY <1>7, <3>3
      <3>5. q # p \/ lev2[p] = "no"
        \* a new table is pointed to by t only
        <4> SUFFICES ASSUME q = p, lev2[p] # "no" PROVE FALSE
          OBVIOUS
        <4>1. M.ref[p] = 1 /\ ext[p] > 0
          BY <1>7
        <4>2. M.ref[p] = Cardinality(Slots(M, lev, p)) + ext[p] /\ Cardinality(Slots(M, lev, p)) \in Nat /\ ext[p] \in Nat
          BY <1>1, <1>2, SlotsFinite DEF CountsExact
        <4>3. Cardinality(Slots(M, lev, p)) = 0 /\ IsFiniteSet(Slots(M, lev, p))
          BY <4>1, <4>2, SlotsFinite
        <4>4. <<u, j>> \notin Slots(M, lev, p)
          BY <4>3, FS_EmptySet
        <4> QED  BY <3>1, <4>4 DEF Slots, q
      <3>6. q \in PAGE
        BY <3>2 DEF UserPages
      <3> QED  BY <1>7, <3>1, <3>2, <3>4, <3>5, <3>6
    <2> QED  BY <2>1, <2>2
  <1>18. KernelKept(A, lev2)
    <2>1. t \notin 1 .. 4
      BY <1>2 DEF TablesOnce, UserPages, KernPages
    <2>2. 1 .. 4 \subseteq PAGE
      BY Constants DEF PAGE
    <2>3. \A q \in 1 .. 4 : A.mem[q] = KernelTables[q]
      BY <1>3, <1>5, <2>1, <2>2 DEF KernelKept
    <2>4. ASSUME NEW q \in PAGE, lev2[q] = "root" PROVE A.mem[q][1] = [addr |-> 1, perm |-> {"P", "W"}]
      <3>1. lev[q] = "root"
        BY <1>7, <2>4
      <3>2. A.mem[q][1] = M.mem[q][1]
        <4>1. 1 \in Index
          BY Constants
        <4>2. q # t \/ 1 # i
          BY <3>1 DEF Allowed
        <4> QED  BY <1>5, <4>1, <4>2
      <3> QED  BY <1>3, <3>1, <3>2 DEF KernelKept
    <2> QED  BY <2>3, <2>4 DEF KernelKept
  <1>19. WithinReach(A, lev2)
    <2> SUFFICES ASSUME NEW u \in PAGE, NEW j \in Index, Present(A, u, j)
                 PROVE  /\ lev2[u] = "pdpt" => /\ j <= TopPdpe
                              /\ \A k \in Index : Present(A, A.mem[u][j].addr, k) => k < TableLimit(j)
                        /\ lev2[u] = "pt" => j < N - 1
      BY DEF WithinReach
    <2>1. ASSUME lev2[u] # "no", lev2[u] # "root" PROVE Points(A, lev2, u, j) /\ u # p /\ lev[u] = lev2[u]
      <3>1. Points(A, lev2, u, j)
        BY <2>1 DEF Points
      <3>2. u # p
        BY <1>9, <2>1, Entries DEF Present
      <3> QED  BY <1>7, <3>1, <3>2
    <2>2. CASE lev2[u] = "pdpt"
      <3> DEFINE c == A.mem[u][j].addr
      <3>1. c \in PAGE /\ lev2[c] = "dir"
        BY <1>17, <2>1, <2>2 DEF TreeShape, UserPages, Below
      <3>2. CASE u = t /\ j = i
        <4>1. c = p
          BY <1>5, <3>2
        <4>2. \A k \in Index : ~Present(A, c, k)
          BY <1>9, <3>1, <4>1, Entries DEF Present
        <4>3. j <= TopPdpe
          BY <1>11, <2>2, <3>2 DEF Allowed
        <4> QED  BY <2>2, <4>2, <4>3
      <3>3. CASE u # t \/ j # i
        <4>1. Points(M, lev, u, j) /\ c = M.mem[u][j].addr /\ lev[u] = "pdpt"
          BY <1>10, <2>1, <2>2, <3>3
        <4>2. Present(M, u, j)
          BY <4>1 DEF Points
        <4>3. j <= TopPdpe /\ \A k \in Index : Present(M, c, k) => k < TableLimit(j)
          BY <1>3, <4>1, <4>2 DEF WithinReach
        <4> HIDE DEF c
        <4>4. ASSUME NEW k \in Index, Present(A, c, k) PROVE k < TableLimit(j)
          <5>1. CASE c = t /\ k = i
            BY <1>11, <3>1, <4>1, <5>1 DEF Allowed
          <5>2. CASE c # t \/ k # i
            <6>1. A.mem[c][k] = M.mem[c][k]
              BY <1>10, <3>1, <5>2
            <6> QED  BY <4>3, <4>4, <6>1 DEF Present
          <5> QED  BY <5>1, <5>2
        <4> QED  BY <2>2, <4>3, <4>4 DEF c
      <3> QED  BY <3>2, <3>3
    <2>3. CASE lev2[u] = "pt"
      <3>1. CASE u = t /\ j = i
        BY <1>11, <2>3, <3>1 DEF Allowed
      <3>2. CASE u # t \/ j # i
        <4>1. Present(M, u, j) /\ lev[u] = "pt"
          BY <1>10, <2>1, <2>3, <3>2 DEF Points
        <4> QED  BY <1>3, <2>3, <4>1 DEF WithinReach
      <3> QED  BY <3>1, <3>2
    <2> QED  BY <2>2, <2>3
  <1>20. Heap(A, lev2, less, out)
    BY <1>1, <1>4, <1>7, <1>8, <1>14, <1>15, <1>16, <1>17, <1>18, <1>19, HeapIs
  <1> QED  BY <1>20 DEF A, lev2, less

\* An entry is emptied: the reference that it was is nobody's.
LEMMA ClearKeeps ==
    ASSUME NEW M, NEW lev, NEW ext, NEW out, Heap(M, lev, ext, out),
           NEW t \in PAGE, NEW i \in Index, Points(M, lev, t, i)
    PROVE  Heap([M EXCEPT !.mem[t][i] = Zero], lev,
                [ext EXCEPT ![M.mem[t][i].addr] = ext[M.mem[t][i].addr] + 1], out)
  <1> DEFINE p == M.mem[t][i].addr
             A == [M EXCEPT !.mem[t][i] = Zero]
             more == [ext EXCEPT ![p] = ext[p] + 1]
  <1>1. /\ M \in MemType /\ M.panic = FALSE /\ lev \in [PAGE -> Level] /\ ext \in [PAGE -> Nat]
        /\ out \in SUBSET UserPages /\ M.mem \in [PAGE -> [Index -> Entry]]
    BY HeapParts, Parts
  <1>2. CountsExact(M, lev, ext) /\ FreeExact(M, lev, out) /\ TablesOnce(M, lev, ext)
    BY HeapParts
  <1>3. TreeShape(M, lev) /\ KernelKept(M, lev) /\ WithinReach(M, lev)
    BY HeapParts
  <1>4. A \in MemType /\ A.ref = M.ref /\ A.free = M.free /\ A.panic = M.panic
    <2>1. Zero \in Entry
      BY Entries
    <2> QED  BY <1>1, <2>1, EntryParts
  <1>5. /\ A.mem[t][i] = Zero
        /\ \A u \in PAGE, j \in Index : u # t \/ j # i => A.mem[u][j] = M.mem[u][j]
        /\ \A u \in PAGE : u # t => A.mem[u] = M.mem[u]
    BY <1>1, EntryValues, Entries
  <1>6. p \in UserPages /\ lev[p] = Below(lev[t]) /\ p \in PAGE
    BY <1>3 DEF TreeShape, UserPages
  <1> HIDE DEF A
  <1>7. more \in [PAGE -> Nat] /\ more[p] = ext[p] + 1 /\ \A q \in PAGE : q # p => more[q] = ext[q]
    BY <1>1, <1>6
  <1> HIDE DEF more
  <1>8. ~Present(A, t, i) /\ ~Points(A, lev, t, i)
    BY <1>5, Entries DEF Points, Present
  <1>9. ASSUME NEW u \in PAGE, NEW j \in Index, Present(A, u, j)
        PROVE  (u # t \/ j # i) /\ A.mem[u][j] = M.mem[u][j] /\ Present(M, u, j)
    <2>1. u # t \/ j # i
      BY <1>8, <1>9
    <2> QED  BY <1>5, <1>9, <2>1 DEF Present
  <1>10. ASSUME NEW u \in PAGE, NEW j \in Index, u # t \/ j # i
         PROVE  A.mem[u][j] = M.mem[u][j] /\ (Points(A, lev, u, j) <=> Points(M, lev, u, j))
    <2>1. A.mem[u][j] = M.mem[u][j]
      BY <1>5, <1>10
    <2> QED  BY <2>1 DEF Points, Present
  <1>11. ASSUME NEW q, q # p PROVE Slots(A, lev, q) = Slots(M, lev, q)
    <2>1. ASSUME NEW u \in PAGE, NEW j \in Index
          PROVE  (Points(A, lev, u, j) /\ A.mem[u][j].addr = q) <=> (Points(M, lev, u, j) /\ M.mem[u][j].addr = q)
      <3>1. CASE u = t /\ j = i
        BY <1>8, <1>11, <3>1
      <3>2. CASE u # t \/ j # i
        BY <1>10, <3>2
      <3> QED  BY <3>1, <3>2
    <2> QED  BY <2>1 DEF Slots
  <1>12. Slots(A, lev, p) = Slots(M, lev, p) \ {<<t, i>>} /\ <<t, i>> \in Slots(M, lev, p)
    <2>1. ASSUME NEW u \in PAGE, NEW j \in Index, u # t \/ j # i
          PROVE  (Points(A, lev, u, j) /\ A.mem[u][j].addr = p) <=> (Points(M, lev, u, j) /\ M.mem[u][j].addr = p)
      BY <1>10, <2>1
    <2>2. <<t, i>> \notin Slots(A, lev, p) /\ <<t, i>> \in Slots(M, lev, p)
      BY <1>8 DEF Slots
    <2> QED  BY <2>1, <2>2 DEF Slots
  <1>13. CountsExact(A, lev, more)
    <2> SUFFICES ASSUME NEW q \in UserPages PROVE A.ref[q] = Cardinality(Slots(A, lev, q)) + more[q]
      BY DEF CountsExact
    <2>1. M.ref[q] = Cardinality(Slots(M, lev, q)) + ext[q] /\ q \in PAGE
      BY <1>2 DEF CountsExact, UserPages
    <2>2. Cardinality(Slots(M, lev, q)) \in Nat /\ ext[q] \in Nat
      BY <1>1, <2>1, SlotsFinite
    <2>3. CASE q = p
      <3>1. IsFiniteSet(Slots(M, lev, p))
        BY SlotsFinite
      <3>2. Cardinality(Slots(A, lev, p)) = Cardinality(Slots(M, lev, p)) - 1
        BY <1>12, <3>1, FS_RemoveElement, ZenonT(60)
      <3>3. more[p] = ext[p] + 1 /\ A.ref[p] = M.ref[p]
        BY <1>4, <1>7
      <3> QED  BY <2>1, <2>2, <2>3, <3>2, <3>3
    <2>4. CASE q # p
      BY <1>4, <1>7, <1>11, <2>1, <2>4
    <2> QED  BY <2>3, <2>4
  <1>14. FreeExact(A, lev, out)
    BY <1>2, <1>4 DEF FreeExact, Listed
  <1>15. TablesOnce(A, lev, more)
    <2>1. lev[p] # "root"
      BY <1>6 DEF Below
    <2> QED  BY <1>2, <1>4, <1>7, <2>1 DEF TablesOnce
  <1>16. TreeShape(A, lev)
    <2> SUFFICES ASSUME NEW u \in PAGE, NEW j \in Index, Points(A, lev, u, j)
                 PROVE  A.mem[u][j].addr \in UserPages /\ lev[A.mem[u][j].addr] = Below(lev[u])
      BY DEF TreeShape
    <2>1. u # t \/ j # i
      BY <1>8
    <2> QED  BY <1>3, <1>10, <2>1 DEF TreeShape
  <1>17. KernelKept(A, lev)
    <2>1. t \notin 1 .. 4
      BY <1>2 DEF TablesOnce, UserPages, KernPages, Points
    <2>2. 1 .. 4 \subseteq PAGE /\ 1 \in Index
      BY Constants DEF PAGE
    <2>3. \A q \in 1 .. 4 : A.mem[q] = KernelTables[q]
      BY <1>3, <1>5, <2>1, <2>2 DEF KernelKept
    <2>4. ASSUME NEW q \in PAGE, lev[q] = "root" PROVE A.mem[q][1] = [addr |-> 1, perm |-> {"P", "W"}]
      <3>1. q # t \/ 1 # i
        BY <2>4 DEF Points
      <3> QED  BY <1>3, <1>5, <2>2, <2>4, <3>1 DEF KernelKept
    <2> QED  BY <2>3, <2>4 DEF KernelKept
  <1>18. WithinReach(A, lev)
    <2> SUFFICES ASSUME NEW u \in PAGE, NEW j \in Index, Present(A, u, j)
                 PROVE  /\ lev[u] = "pdpt" => /\ j <= TopPdpe
                              /\ \A k \in Index : Present(A, A.mem[u][j].addr, k) => k < TableLimit(j)
                        /\ lev[u] = "pt" => j < N - 1
      BY DEF WithinReach
    <2>1. A.mem[u][j] = M.mem[u][j] /\ Present(M, u, j)
      BY <1>9
    <2>2. CASE lev[u] = "pdpt"
      <3> DEFINE c == M.mem[u][j].addr
      <3>1. j <= TopPdpe /\ \A k \in Index : Present(M, c, k) => k < TableLimit(j)
        BY <1>3, <2>1, <2>2 DEF WithinReach
      <3>2. Points(M, lev, u, j)
        BY <2>1, <2>2 DEF Points
      <3>3. c \in PAGE
        BY <1>3, <3>2 DEF TreeShape, UserPages
      <3> HIDE DEF c
      <3>4. \A k \in Index : Present(A, c, k) => k < TableLimit(j)
        BY <1>9, <3>1, <3>3
      <3> QED  BY <2>1, <2>2, <3>1, <3>4 DEF c
    <2>3. CASE lev[u] = "pt"
      BY <1>3, <2>1, <2>3 DEF WithinReach
    <2> QED  BY <2>2, <2>3
  <1>19. Heap(A, lev, more, out)
    BY <1>1, <1>4, <1>7, <1>13, <1>14, <1>15, <1>16, <1>17, <1>18, HeapIs
  <1> QED  BY <1>19 DEF A, more

\* page_decref() for a reference that no entry holds any more; a table is empty then.
LEMMA DropKeeps ==
    ASSUME NEW M, NEW lev, NEW ext, NEW out, Heap(M, lev, ext, out),
           NEW p \in UserPages, ext[p] > 0, \A j \in Index : ~Points(M, lev, p, j)
    PROVE  /\ Heap(page_decref(M, p), [lev EXCEPT ![p] = "no"], [ext EXCEPT ![p] = ext[p] - 1], out)
           /\ M.ref[p] > 0 /\ ~Listed(M, p)
  <1> DEFINE A == page_decref(M, p)
             lev2 == [lev EXCEPT ![p] = "no"]
             less == [ext EXCEPT ![p] = ext[p] - 1]
  <1>1. /\ M \in MemType /\ M.panic = FALSE /\ lev \in [PAGE -> Level] /\ ext \in [PAGE -> Nat]
        /\ out \in SUBSET UserPages /\ p \in PAGE /\ M.mem \in [PAGE -> [Index -> Entry]]
        /\ M.ref \in [PAGE -> 0 .. RefMod - 1] /\ M.free \in Seq(PAGE)
    BY HeapParts, Parts DEF UserPages
  <1>2. CountsExact(M, lev, ext) /\ FreeExact(M, lev, out) /\ TablesOnce(M, lev, ext)
    BY HeapParts
  <1>3. TreeShape(M, lev) /\ KernelKept(M, lev) /\ WithinReach(M, lev)
    BY HeapParts
  <1>4. M.ref[p] = Cardinality(Slots(M, lev, p)) + ext[p] /\ ext[p] \in Nat
    BY <1>1, <1>2 DEF CountsExact
  <1>5. Cardinality(Slots(M, lev, p)) \in Nat /\ IsFiniteSet(Slots(M, lev, p))
    BY SlotsFinite
  <1>6. M.ref[p] > 0 /\ M.ref[p] \in Nat
    BY <1>4, <1>5
  <1>7. ~Listed(M, p) /\ p \notin out
    BY <1>1, <1>2, <1>6 DEF FreeExact
  <1>8. /\ A \in MemType /\ A.mem = M.mem /\ A.panic = M.panic
        /\ A.ref = [M.ref EXCEPT ![p] = M.ref[p] - 1]
        /\ A.free = IF M.ref[p] = 1 THEN <<p>> \o M.free ELSE M.free
    BY <1>1, <1>6, <1>7, DecrefParts
  <1> HIDE DEF A
  <1>9. A.ref[p] = M.ref[p] - 1 /\ \A q \in PAGE : q # p => A.ref[q] = M.ref[q]
    BY <1>1, <1>8
  <1>10. less \in [PAGE -> Nat] /\ less[p] = ext[p] - 1 /\ \A q \in PAGE : q # p => less[q] = ext[q]
    <2>1. ext[p] - 1 \in Nat
      BY <1>1
    <2> QED  BY <1>1, <2>1
  <1>11. lev2 \in [PAGE -> Level] /\ lev2[p] = "no" /\ \A q \in PAGE : q # p => lev2[q] = lev[q]
    BY <1>1 DEF Level
  <1>12. lev[p] # "no" => lev2 # lev /\ M.ref[p] = 1 /\ Slots(M, lev, p) = {}
    <2> SUFFICES ASSUME lev[p] # "no" PROVE M.ref[p] = 1 /\ Slots(M, lev, p) = {}
      BY <1>11
    <2>1. M.ref[p] = 1
      BY <1>1, <1>2 DEF TablesOnce
    <2>2. Cardinality(Slots(M, lev, p)) = 0
      BY <1>4, <1>5, <2>1
    <2> QED  BY <1>5, <2>1, <2>2, FS_EmptySet
  <1> HIDE DEF less, lev2
  <1>13. ASSUME NEW u \in PAGE, NEW j \in Index PROVE Points(A, lev2, u, j) <=> Points(M, lev, u, j)
    <2>1. CASE u = p
      BY <1>11, <2>1 DEF Points
    <2>2. CASE u # p
      BY <1>8, <1>11, <2>2 DEF Points, Present
    <2> QED  BY <2>1, <2>2
  <1>14. \A q : Slots(A, lev2, q) = Slots(M, lev, q)
    BY <1>8, <1>13 DEF Slots
  <1>15. CountsExact(A, lev2, less)
    <2> SUFFICES ASSUME NEW q \in UserPages PROVE A.ref[q] = Cardinality(Slots(A, lev2, q)) + less[q]
      BY DEF CountsExact
    <2>1. M.ref[q] = Cardinality(Slots(M, lev, q)) + ext[q] /\ q \in PAGE
      BY <1>2 DEF CountsExact, UserPages
    <2>2. Cardinality(Slots(M, lev, q)) \in Nat /\ ext[q] \in Nat
      BY <1>1, <2>1, SlotsFinite
    <2> QED  BY <1>9, <1>10, <1>14, <2>1, <2>2
  <1>16. FreeExact(A, lev2, out)
    <2>1. /\ \A i, j \in 1 .. Len(A.free) : A.free[i] = A.free[j] => i = j
          /\ \A q : Listed(A, q) <=> Listed(M, q) \/ (q = p /\ M.ref[p] = 1)
      <3>1. \A i, j \in 1 .. Len(M.free) : M.free[i] = M.free[j] => i = j
        BY <1>2 DEF FreeExact
      <3>2. CASE M.ref[p] = 1
        <4> DEFINE g == <<p>> \o M.free
        <4>1. ~ \E i \in 1 .. Len(M.free) : M.free[i] = p
          BY <1>7 DEF Listed
        <4>2. /\ \A i, j \in 1 .. Len(g) : g[i] = g[j] => i = j
              /\ \A q : (\E i \in 1 .. Len(g) : g[i] = q) <=> (\E i \in 1 .. Len(M.free) : M.free[i] = q) \/ q = p
          BY <1>1, <3>1, <4>1, ConsList
        <4>3. A.free = g
          BY <1>8, <3>2
        <4> HIDE DEF g
        <4> QED  BY <3>2, <4>2, <4>3 DEF Listed
      <3>3. CASE M.ref[p] # 1
        <4>1. A.free = M.free
          BY <1>8, <3>3
        <4> QED  BY <3>1, <3>3, <4>1 DEF Listed
      <3> QED  BY <3>2, <3>3
    <2>2. ASSUME NEW q \in PAGE PROVE Listed(A, q) <=> q \in UserPages /\ A.ref[q] = 0 /\ q \notin out
      <3>1. CASE q = p
        <4>1. A.ref[p] = 0 <=> M.ref[p] = 1
          BY <1>6, <1>9
        <4> QED  BY <1>7, <2>1, <3>1, <4>1
      <3>2. CASE q # p
        BY <1>2, <1>9, <2>1, <3>2 DEF FreeExact
      <3> QED  BY <3>1, <3>2
    <2>3. \A q \in out : A.ref[q] = 0
      BY <1>1, <1>2, <1>7, <1>9 DEF FreeExact, UserPages
    <2> QED  BY <2>1, <2>2, <2>3 DEF FreeExact
  <1>17. TablesOnce(A, lev2, less)
    BY <1>2, <1>9, <1>10, <1>11 DEF TablesOnce
  <1>18. TreeShape(A, lev2)
    <2> SUFFICES ASSUME NEW u \in PAGE, NEW j \in Index, Points(A, lev2, u, j)
                 PROVE  A.mem[u][j].addr \in UserPages /\ lev2[A.mem[u][j].addr] = Below(lev2[u])
      BY DEF TreeShape
    <2> DEFINE q == M.mem[u][j].addr
    <2>1. Points(M, lev, u, j) /\ A.mem[u][j].addr = q
      BY <1>8, <1>13
    <2>2. q \in UserPages /\ lev[q] = Below(lev[u]) /\ q \in PAGE
      BY <1>3, <2>1 DEF TreeShape, UserPages
    <2>3. u # p
      BY <1>11 DEF Points
    <2>4. q # p \/ lev[p] = "no"
      <3> SUFFICES ASSUME q = p, lev[p] # "no" PROVE FALSE
        OBVIOUS
      <3>1. <<u, j>> \in Slots(M, lev, p)
        BY <2>1 DEF Slots
      <3> QED  BY <1>12, <3>1
    <2> HIDE DEF q
    <2> QED  BY <1>11, <2>1, <2>2, <2>3, <2>4
  <1>19. KernelKept(A, lev2)
    BY <1>3, <1>8, <1>11 DEF KernelKept
  <1>20. WithinReach(A, lev2)
    BY <1>3, <1>8, <1>11 DEF WithinReach, Present
  <1>21. Heap(A, lev2, less, out)
    BY <1>1, <1>8, <1>10, <1>11, <1>15, <1>16, <1>17, <1>18, <1>19, <1>20, HeapIs
  <1> QED  BY <1>6, <1>7, <1>21 DEF A, lev2, less

\* An empty page becomes a top-level table.
LEMMA RootKeeps ==
    ASSUME NEW M, NEW lev, NEW ext, NEW out, Heap(M, lev, ext, out),
           NEW p \in UserPages, lev[p] = "no", M.ref[p] = 1, ext[p] = 1,
           NEW x \in [Index -> Entry], x[0] = Zero, x[1] = Link(1)
    PROVE  Heap([M EXCEPT !.mem[p] = x], [lev EXCEPT ![p] = "root"], ext, out)
  <1> DEFINE A == [M EXCEPT !.mem[p] = x]
             lev2 == [lev EXCEPT ![p] = "root"]
  <1>1. /\ M \in MemType /\ M.panic = FALSE /\ lev \in [PAGE -> Level] /\ ext \in [PAGE -> Nat]
        /\ out \in SUBSET UserPages /\ p \in PAGE /\ M.mem \in [PAGE -> [Index -> Entry]]
    BY HeapParts, Parts DEF UserPages
  <1>2. CountsExact(M, lev, ext) /\ FreeExact(M, lev, out) /\ TablesOnce(M, lev, ext)
    BY HeapParts
  <1>3. TreeShape(M, lev) /\ KernelKept(M, lev) /\ WithinReach(M, lev)
    BY HeapParts
  <1>4. A \in MemType /\ A.ref = M.ref /\ A.free = M.free /\ A.panic = M.panic /\ A.mem = [M.mem EXCEPT ![p] = x]
    <2> DEFINE m == [M.mem EXCEPT ![p] = x]
    <2>1. M = [ref |-> M.ref, free |-> M.free, mem |-> M.mem, panic |-> M.panic]
      BY <1>1 DEF MemType
    <2>2. A = [M EXCEPT !.mem = m]
      OBVIOUS
    <2>3. m \in [PAGE -> [Index -> Entry]]
      BY <1>1
    <2> HIDE DEF m, A
    <2>4. A = [[ref |-> M.ref, free |-> M.free, mem |-> M.mem, panic |-> M.panic] EXCEPT !.mem = m]
      BY <2>1, <2>2
    <2>5. A = [ref |-> M.ref, free |-> M.free, mem |-> m, panic |-> M.panic]
      BY <2>4
    <2>6. A \in MemType
      BY <1>1, <2>3, <2>5, Parts DEF MemType
    <2> QED  BY <2>5, <2>6 DEF m
  <1> HIDE DEF A
  <1>5. A.mem[p] = x /\ \A u \in PAGE : u # p => A.mem[u] = M.mem[u]
    BY <1>1, <1>4
  <1>6. lev2 \in [PAGE -> Level] /\ lev2[p] = "root" /\ \A u \in PAGE : u # p => lev2[u] = lev[u]
    BY <1>1 DEF Level
  <1> HIDE DEF lev2
  <1>7. ASSUME NEW u \in PAGE, NEW j \in Index
        PROVE  /\ Points(A, lev2, u, j) <=> Points(M, lev, u, j)
               /\ Points(M, lev, u, j) => u # p /\ A.mem[u] = M.mem[u] /\ M.mem[u][j].addr # p
    <2>1. CASE u = p
      <3>1. ~Points(M, lev, u, j)
        BY <2>1 DEF Points
      <3>2. ~Points(A, lev2, u, j)
        BY <1>5, <1>6, <2>1, Entries DEF Points, Present
      <3> QED  BY <3>1, <3>2
    <2>2. CASE u # p
      <3>1. Points(A, lev2, u, j) <=> Points(M, lev, u, j)
        BY <1>5, <1>6, <2>2 DEF Points, Present
      <3>2. M.ref[p] = Cardinality(Slots(M, lev, p)) + ext[p]
        BY <1>2 DEF CountsExact
      <3>3. Cardinality(Slots(M, lev, p)) = 0 /\ IsFiniteSet(Slots(M, lev, p))
        BY <3>2, SlotsFinite
      <3>4. Slots(M, lev, p) = {}
        BY <3>3, FS_EmptySet
      <3>5. ASSUME Points(M, lev, u, j) PROVE M.mem[u][j].addr # p
        <4> SUFFICES ASSUME M.mem[u][j].addr = p PROVE FALSE
          OBVIOUS
        <4>1. <<u, j>> \in Slots(M, lev, p)
          BY <3>5 DEF Slots
        <4> QED  BY <3>4, <4>1
      <3> QED  BY <1>5, <2>2, <3>1, <3>5
    <2> QED  BY <2>1, <2>2
  <1>8. \A q : Slots(A, lev2, q) = Slots(M, lev, q)
    BY <1>7 DEF Slots
  <1>9. CountsExact(A, lev2, ext)
    BY <1>2, <1>4, <1>8 DEF CountsExact
  <1>10. FreeExact(A, lev2, out)
    BY <1>2, <1>4 DEF FreeExact, Listed
  <1>11. TablesOnce(A, lev2, ext)
    BY <1>2, <1>4, <1>6 DEF TablesOnce
  <1>12. TreeShape(A, lev2)
    <2> SUFFICES ASSUME NEW u \in PAGE, NEW j \in Index, Points(A, lev2, u, j)
                 PROVE  A.mem[u][j].addr \in UserPages /\ lev2[A.mem[u][j].addr] = Below(lev2[u])
      BY DEF TreeShape
    <2> DEFINE q == M.mem[u][j].addr
    <2>1. Points(M, lev, u, j) /\ A.mem[u][j].addr = q /\ q # p /\ u # p
      BY <1>7
    <2>2. q \in UserPages /\ lev[q] = Below(lev[u]) /\ q \in PAGE
      BY <1>3, <2>1 DEF TreeShape, UserPages
    <2> HIDE DEF q
    <2> QED  BY <1>6, <2>1, <2>2
  <1>13. KernelKept(A, lev2)
    <2>1. p \notin 1 .. 4 /\ 1 .. 4 \subseteq PAGE
      BY Constants DEF UserPages, KernPages, PAGE
    <2>2. \A q \in 1 .. 4 : A.mem[q] = KernelTables[q]
      BY <1>3, <1>5, <2>1 DEF KernelKept
    <2>3. ASSUME NEW q \in PAGE, lev2[q] = "root" PROVE A.mem[q][1] = [addr |-> 1, perm |-> {"P", "W"}]
      <3>1. CASE q = p
        BY <1>5, <3>1 DEF Link
      <3>2. CASE q # p
        BY <1>3, <1>5, <1>6, <2>3, <3>2 DEF KernelKept
      <3> QED  BY <3>1, <3>2
    <2> QED  BY <2>2, <2>3 DEF KernelKept
  <1>14. WithinReach(A, lev2)
    <2> SUFFICES ASSUME NEW u \in PAGE, NEW j \in Index, Present(A, u, j)
                 PROVE  /\ lev2[u] = "pdpt" => /\ j <= TopPdpe
                              /\ \A k \in Index : Present(A, A.mem[u][j].addr, k) => k < TableLimit(j)
                        /\ lev2[u] = "pt" => j < N - 1
      BY DEF WithinReach
    <2>1. ASSUME lev2[u] # "no", lev2[u] # "root"
          PROVE  Points(M, lev, u, j) /\ u # p /\ A.mem[u] = M.mem[u] /\ lev2[u] = lev[u] /\ Present(M, u, j)
      <3>1. Points(A, lev2, u, j)
        BY <2>1 DEF Points
      <3>2. Points(M, lev, u, j) /\ u # p /\ A.mem[u] = M.mem[u]
        BY <1>7, <3>1
      <3> QED  BY <1>6, <3>2 DEF Points
    <2>2. CASE lev2[u] = "pdpt"
      <3> DEFINE c == M.mem[u][j].addr
      <3>1. c # p /\ c \in PAGE /\ A.mem[u][j].addr = c
        BY <1>3, <1>7, <2>1, <2>2 DEF TreeShape, UserPages
      <3>2. j <= TopPdpe /\ \A k \in Index : Present(M, c, k) => k < TableLimit(j)
        BY <1>3, <2>1, <2>2 DEF WithinReach
      <3> HIDE DEF c
      <3> QED  BY <1>5, <2>2, <3>1, <3>2 DEF Present
    <2>3. CASE lev2[u] = "pt"
      BY <1>3, <2>1, <2>3 DEF WithinReach
    <2> QED  BY <2>2, <2>3
  <1>15. Heap(A, lev2, ext, out)
    BY <1>1, <1>4, <1>6, <1>9, <1>10, <1>11, <1>12, <1>13, <1>14, HeapIs
  <1> QED  BY <1>15 DEF A, lev2

(***************************************************************************)
(* What is mapped: Leaf() is what the processor finds for an address, and  *)
(* an operation is told by the addresses whose entries it changes.         *)
(***************************************************************************)
\* What an entry that counts says.
LEMMA Child ==
    ASSUME NEW M, NEW lev, NEW ext, NEW out, Heap(M, lev, ext, out),
           NEW t \in PAGE, NEW i \in Index, Points(M, lev, t, i), NEW c, c = M.mem[t][i].addr
    PROVE  c \in UserPages /\ c \in PAGE /\ lev[c] = Below(lev[t]) /\ (lev[c] # "no" => M.ref[c] = 1)
  <1>1. TreeShape(M, lev) /\ TablesOnce(M, lev, ext)
    BY HeapParts
  <1>2. c \in UserPages /\ lev[c] = Below(lev[t])
    BY <1>1 DEF TreeShape
  <1>3. c \in PAGE
    BY <1>2 DEF UserPages
  <1>4. lev[c] # "no" => M.ref[c] = 1
    BY <1>1, <1>3 DEF TablesOnce
  <1> QED  BY <1>2, <1>3, <1>4

LEMMA AddressParts ==
    ASSUME NEW va \in Address
    PROVE  PML4(va) \in Index /\ PDPE(va) \in Index /\ PDX(va) \in Index /\ PTX(va) \in Index
  BY DEF Address, PML4, PDPE, PDX, PTX

\* The way from a page directory, a PDPT, a top-level table to a page table.
PathD(M, t, va, pt) == Present(M, t, PDX(va)) /\ M.mem[t][PDX(va)].addr = pt
PathP(M, t, va, pt) == Present(M, t, PDPE(va)) /\ PathD(M, M.mem[t][PDPE(va)].addr, va, pt)
PathR(M, t, va, pt) == Present(M, t, PML4(va)) /\ PathP(M, M.mem[t][PML4(va)].addr, va, pt)

\* Leaf() from a PDPT, and from a page directory.
LeafD(M, t, va) == IF Present(M, t, PDX(va)) THEN M.mem[M.mem[t][PDX(va)].addr][PTX(va)] ELSE Zero
LeafP(M, t, va) == IF Present(M, t, PDPE(va)) THEN LeafD(M, M.mem[t][PDPE(va)].addr, va) ELSE Zero

LEMMA LeafIs ==
    ASSUME NEW M, NEW r, NEW va
    PROVE  Leaf(M, r, va) = IF Present(M, r, PML4(va)) THEN LeafP(M, M.mem[r][PML4(va)].addr, va) ELSE Zero
  BY Zenon DEF Leaf, LeafP, LeafD

\* The user half of every address space is what it was, ...
SameMap(M, lev, M2) ==
    \A r \in PAGE, va \in Address : lev[r] = "root" /\ PML4(va) = 0 => Leaf(M2, r, va) = Leaf(M, r, va)

\* ... but for address va of the one at r, which has the entry x, ...
Maps(M, lev, r, va, x, M2) ==
    /\ Leaf(M2, r, va) = x
    /\ \A s \in PAGE, a \in Address : lev[s] = "root" /\ PML4(a) = 0 /\ (s # r \/ a # va) =>
          Leaf(M2, s, a) = Leaf(M, s, a)

\* ... or but for the one at r.
OtherMaps(M, lev, r, M2) ==
    \A s \in PAGE, a \in Address : lev[s] = "root" /\ PML4(a) = 0 /\ s # r => Leaf(M2, s, a) = Leaf(M, s, a)

\* Tables may come and go where nothing is below them.
Grown(M, lev, M2) ==
    /\ \A t \in PAGE, i \in Index : lev[t] # "no" =>
          \/ M2.mem[t][i] = M.mem[t][i]
          \/ ~Present(M, t, i) /\ (Present(M2, t, i) => M2.mem[M2.mem[t][i].addr] = ZeroPage)
    /\ \A t \in PAGE : lev[t] = "pt" => M2.mem[t] = M.mem[t]

LEMMA GrownMap ==
    ASSUME NEW M, NEW lev, NEW ext, NEW out, Heap(M, lev, ext, out), NEW M2, Grown(M, lev, M2)
    PROVE  SameMap(M, lev, M2)
  <1>1. ASSUME NEW va \in Address, NEW t \in PAGE, lev[t] = "dir"
        PROVE  LeafD(M2, t, va) = LeafD(M, t, va)
    <2>1. PDX(va) \in Index /\ PTX(va) \in Index
      BY AddressParts
    <2>2. CASE M2.mem[t][PDX(va)] = M.mem[t][PDX(va)] /\ Present(M, t, PDX(va))
      <3> DEFINE c == M.mem[t][PDX(va)].addr
      <3>1. c \in PAGE /\ lev[c] = "pt"
        <4>1. Points(M, lev, t, PDX(va)) /\ c = M.mem[t][PDX(va)].addr
          BY <1>1, <2>2 DEF Points
        <4> HIDE DEF c
        <4>2. c \in PAGE /\ lev[c] = Below(lev[t])
          BY <2>1, <4>1, Child
        <4> QED  BY <1>1, <4>2 DEF Below
      <3>2. M2.mem[c] = M.mem[c]
        BY <3>1 DEF Grown
      <3> QED  BY <2>2, <3>2 DEF LeafD, Present
    <2>3. CASE M2.mem[t][PDX(va)] = M.mem[t][PDX(va)] /\ ~Present(M, t, PDX(va))
      BY <2>3 DEF LeafD, Present
    <2>4. CASE ~Present(M, t, PDX(va)) /\ (Present(M2, t, PDX(va)) => M2.mem[M2.mem[t][PDX(va)].addr] = ZeroPage)
      <3>1. LeafD(M2, t, va) = Zero
        BY <2>1, <2>4, Entries DEF LeafD
      <3> QED  BY <2>4, <3>1 DEF LeafD
    <2>5. \/ M2.mem[t][PDX(va)] = M.mem[t][PDX(va)]
          \/ ~Present(M, t, PDX(va)) /\ (Present(M2, t, PDX(va)) => M2.mem[M2.mem[t][PDX(va)].addr] = ZeroPage)
      BY <1>1, <2>1 DEF Grown
    <2> QED  BY <2>2, <2>3, <2>4, <2>5
  <1>2. ASSUME NEW va \in Address, NEW t \in PAGE, lev[t] = "pdpt"
        PROVE  LeafP(M2, t, va) = LeafP(M, t, va)
    <2>1. PDPE(va) \in Index /\ PDX(va) \in Index
      BY AddressParts
    <2>2. CASE M2.mem[t][PDPE(va)] = M.mem[t][PDPE(va)] /\ Present(M, t, PDPE(va))
      <3> DEFINE c == M.mem[t][PDPE(va)].addr
      <3>1. c \in PAGE /\ lev[c] = "dir"
        <4>1. Points(M, lev, t, PDPE(va)) /\ c = M.mem[t][PDPE(va)].addr
          BY <1>2, <2>2 DEF Points
        <4> HIDE DEF c
        <4>2. c \in PAGE /\ lev[c] = Below(lev[t])
          BY <2>1, <4>1, Child
        <4> QED  BY <1>2, <4>2 DEF Below
      <3>2. LeafD(M2, c, va) = LeafD(M, c, va)
        BY <1>1, <3>1
      <3> QED  BY <2>2, <3>2 DEF LeafP, Present
    <2>3. CASE M2.mem[t][PDPE(va)] = M.mem[t][PDPE(va)] /\ ~Present(M, t, PDPE(va))
      BY <2>3 DEF LeafP, Present
    <2>4. CASE ~Present(M, t, PDPE(va)) /\ (Present(M2, t, PDPE(va)) => M2.mem[M2.mem[t][PDPE(va)].addr] = ZeroPage)
      <3>1. LeafP(M2, t, va) = Zero
        BY <2>1, <2>4, Entries, Zenon DEF LeafP, LeafD, Present
      <3> QED  BY <2>4, <3>1 DEF LeafP
    <2>5. \/ M2.mem[t][PDPE(va)] = M.mem[t][PDPE(va)]
          \/ ~Present(M, t, PDPE(va)) /\ (Present(M2, t, PDPE(va)) => M2.mem[M2.mem[t][PDPE(va)].addr] = ZeroPage)
      BY <1>2, <2>1 DEF Grown
    <2> QED  BY <2>2, <2>3, <2>4, <2>5
  <1>3. ASSUME NEW t \in PAGE, NEW va \in Address, lev[t] = "root", PML4(va) = 0
        PROVE  Leaf(M2, t, va) = Leaf(M, t, va)
    <2>1. 0 \in Index /\ PDPE(va) \in Index
      BY Constants, AddressParts
    <2>2. CASE M2.mem[t][0] = M.mem[t][0] /\ Present(M, t, 0)
      <3> DEFINE c == M.mem[t][0].addr
      <3>1. c \in PAGE /\ lev[c] = "pdpt"
        <4>1. Points(M, lev, t, 0) /\ c = M.mem[t][0].addr
          BY <1>3, <2>2 DEF Points
        <4> HIDE DEF c
        <4>2. c \in PAGE /\ lev[c] = Below(lev[t])
          BY <2>1, <4>1, Child
        <4> QED  BY <1>3, <4>2 DEF Below
      <3>2. LeafP(M2, c, va) = LeafP(M, c, va)
        BY <1>2, <3>1
      <3> QED  BY <1>3, <2>2, <3>2, LeafIs DEF Present
    <2>3. CASE M2.mem[t][0] = M.mem[t][0] /\ ~Present(M, t, 0)
      BY <1>3, <2>3, LeafIs DEF Present
    <2>4. CASE ~Present(M, t, 0) /\ (Present(M2, t, 0) => M2.mem[M2.mem[t][0].addr] = ZeroPage)
      <3>1. Present(M2, t, 0) => LeafP(M2, M2.mem[t][0].addr, va) = Zero
        BY <2>1, <2>4, Entries DEF LeafP, Present
      <3>2. Leaf(M2, t, va) = Zero
        BY <1>3, <3>1, LeafIs
      <3> QED  BY <1>3, <2>4, <3>2, LeafIs
    <2>5. \/ M2.mem[t][0] = M.mem[t][0]
          \/ ~Present(M, t, 0) /\ (Present(M2, t, 0) => M2.mem[M2.mem[t][0].addr] = ZeroPage)
      BY <1>3, <2>1 DEF Grown
    <2> QED  BY <2>2, <2>3, <2>4, <2>5
  <1> QED  BY <1>3 DEF SameMap

\* The tables on the way to an address.
LEMMA WayIs ==
    ASSUME NEW M, NEW lev, NEW ext, NEW out, Heap(M, lev, ext, out),
           NEW r \in PAGE, lev[r] = "root", NEW va \in Address, PML4(va) = 0, NEW pt, PathR(M, r, va, pt)
    PROVE  \E c, d \in PAGE :
              /\ lev[c] = "pdpt" /\ lev[d] = "dir" /\ pt \in PAGE /\ lev[pt] = "pt"
              /\ Points(M, lev, r, 0) /\ M.mem[r][0].addr = c
              /\ Points(M, lev, c, PDPE(va)) /\ M.mem[c][PDPE(va)].addr = d
              /\ Points(M, lev, d, PDX(va)) /\ M.mem[d][PDX(va)].addr = pt
  <1> DEFINE c == M.mem[r][0].addr
             d == M.mem[c][PDPE(va)].addr
  <1>1. 0 \in Index /\ PDPE(va) \in Index /\ PDX(va) \in Index
    BY AddressParts, Constants
  <1>2. Present(M, r, 0) /\ Present(M, c, PDPE(va)) /\ Present(M, d, PDX(va)) /\ M.mem[d][PDX(va)].addr = pt
    BY Zenon DEF PathR, PathP, PathD
  <1>3. c = M.mem[r][0].addr /\ d = M.mem[c][PDPE(va)].addr
    OBVIOUS
  <1> HIDE DEF c, d
  <1>4. Points(M, lev, r, 0)
    BY <1>2 DEF Points
  <1>5. c \in PAGE /\ lev[c] = "pdpt"
    <2>1. c \in PAGE /\ lev[c] = Below(lev[r])
      BY <1>1, <1>3, <1>4, Child
    <2> QED  BY <2>1 DEF Below
  <1>6. Points(M, lev, c, PDPE(va))
    BY <1>2, <1>5 DEF Points
  <1>7. d \in PAGE /\ lev[d] = "dir"
    <2>1. d \in PAGE /\ lev[d] = Below(lev[c])
      <3>1. c \in PAGE /\ PDPE(va) \in Index
        BY <1>1, <1>5
      <3>2. d = M.mem[c][PDPE(va)].addr
        BY <1>3, Zenon
      <3> QED  BY <1>6, <3>1, <3>2, Child
    <2> QED  BY <1>5, <2>1 DEF Below
  <1>8. Points(M, lev, d, PDX(va))
    BY <1>2, <1>7 DEF Points
  <1>9. pt \in PAGE /\ lev[pt] = "pt"
    <2>1. pt \in PAGE /\ lev[pt] = Below(lev[d])
      BY <1>1, <1>2, <1>7, <1>8, Child
    <2> QED  BY <1>7, <2>1 DEF Below
  <1> QED  BY <1>2, <1>3, <1>4, <1>5, <1>6, <1>7, <1>8, <1>9, Zenon

\* A table has one place.
LEMMA OnePlace ==
    ASSUME NEW M, NEW lev, NEW ext, NEW out, Heap(M, lev, ext, out),
           NEW t \in PAGE, NEW i \in Index, Points(M, lev, t, i),
           NEW u \in PAGE, NEW k \in Index, Points(M, lev, u, k),
           M.mem[t][i].addr = M.mem[u][k].addr, lev[t] # "pt"
    PROVE  t = u /\ i = k
  <1> DEFINE p == M.mem[t][i].addr
  <1>1. p \in UserPages /\ lev[p] = Below(lev[t]) /\ (lev[p] # "no" => M.ref[p] = 1)
    BY Child
  <1>2. lev[t] \in Level /\ lev[t] # "no"
    BY HeapParts DEF Points
  <1>3. M.ref[p] = 1
    BY <1>1, <1>2 DEF Below, Level
  <1>4. p \in UserPages /\ M.ref[p] <= 1
    BY <1>1, <1>3
  <1> HIDE DEF p
  <1> QED  BY <1>4, OneParent DEF p

\* Two addresses, or two address spaces, do not share an entry of a page table.
LEMMA OneWay ==
    ASSUME NEW M, NEW lev, NEW ext, NEW out, Heap(M, lev, ext, out),
           NEW r \in PAGE, lev[r] = "root", NEW va \in Address, PML4(va) = 0, NEW pt, PathR(M, r, va, pt),
           NEW s \in PAGE, lev[s] = "root", NEW a \in Address, PML4(a) = 0, PathR(M, s, a, pt), PTX(a) = PTX(va)
    PROVE  s = r /\ a = va
  <1>1. PICK c, d \in PAGE : /\ lev[c] = "pdpt" /\ lev[d] = "dir"
                             /\ Points(M, lev, r, 0) /\ M.mem[r][0].addr = c
                             /\ Points(M, lev, c, PDPE(va)) /\ M.mem[c][PDPE(va)].addr = d
                             /\ Points(M, lev, d, PDX(va)) /\ M.mem[d][PDX(va)].addr = pt
    BY WayIs
  <1>2. PICK f, g \in PAGE : /\ lev[f] = "pdpt" /\ lev[g] = "dir"
                             /\ Points(M, lev, s, 0) /\ M.mem[s][0].addr = f
                             /\ Points(M, lev, f, PDPE(a)) /\ M.mem[f][PDPE(a)].addr = g
                             /\ Points(M, lev, g, PDX(a)) /\ M.mem[g][PDX(a)].addr = pt
    BY WayIs
  <1>3. 0 \in Index /\ PDPE(va) \in Index /\ PDX(va) \in Index /\ PDPE(a) \in Index /\ PDX(a) \in Index
    BY AddressParts, Constants
  <1>4. d = g /\ PDX(va) = PDX(a)
    BY <1>1, <1>2, <1>3, OnePlace
  <1>5. c = f /\ PDPE(va) = PDPE(a)
    BY <1>1, <1>2, <1>3, <1>4, OnePlace
  <1>6. r = s
    BY <1>1, <1>2, <1>3, <1>5, OnePlace
  <1>7. va = <<va[1], va[2], va[3], va[4]>> /\ a = <<a[1], a[2], a[3], a[4]>>
    BY DEF Address
  <1> QED  BY <1>4, <1>5, <1>6, <1>7 DEF PML4, PDPE, PDX, PTX

LEMMA LeafAt ==
    ASSUME NEW M, NEW r, NEW va, NEW pt, PathR(M, r, va, pt)
    PROVE  Leaf(M, r, va) = M.mem[pt][PTX(va)]
  BY Zenon DEF Leaf, PathR, PathP, PathD

LEMMA LeafNone ==
    ASSUME NEW M, NEW r, NEW va, \A pt : ~PathR(M, r, va, pt)
    PROVE  Leaf(M, r, va) = Zero
  BY Zenon DEF Leaf, PathR, PathP, PathD

\* The tables of the address space at r: its PDPT, its page directories, its
\* page tables, and the top-level table itself.
Below1(M, lev, r, t) == Points(M, lev, r, 0) /\ M.mem[r][0].addr = t
Below2(M, lev, r, t) ==
    \E c \in PAGE, i \in Index : Below1(M, lev, r, c) /\ Points(M, lev, c, i) /\ M.mem[c][i].addr = t
Below3(M, lev, r, t) ==
    \E d \in PAGE, i \in Index : Below2(M, lev, r, d) /\ Points(M, lev, d, i) /\ M.mem[d][i].addr = t
OfSpace(M, lev, r, t) == t = r \/ Below1(M, lev, r, t) \/ Below2(M, lev, r, t) \/ Below3(M, lev, r, t)

LEMMA SpaceLevels ==
    ASSUME NEW M, NEW lev, NEW ext, NEW out, Heap(M, lev, ext, out), NEW r \in PAGE, lev[r] = "root", NEW t
    PROVE  /\ Below1(M, lev, r, t) => t \in PAGE /\ lev[t] = "pdpt"
           /\ Below2(M, lev, r, t) => t \in PAGE /\ lev[t] = "dir"
           /\ Below3(M, lev, r, t) => t \in PAGE /\ lev[t] = "pt"
  <1>1. ASSUME NEW u, Below1(M, lev, r, u) PROVE u \in PAGE /\ lev[u] = "pdpt"
    <2>1. Points(M, lev, r, 0) /\ u = M.mem[r][0].addr /\ 0 \in Index
      BY <1>1, Constants DEF Below1
    <2>2. u \in PAGE /\ lev[u] = Below(lev[r])
      BY <2>1, Child
    <2> QED  BY <2>2 DEF Below
  <1>2. ASSUME NEW u, Below2(M, lev, r, u) PROVE u \in PAGE /\ lev[u] = "dir"
    <2>1. PICK c \in PAGE, i \in Index : Below1(M, lev, r, c) /\ Points(M, lev, c, i) /\ u = M.mem[c][i].addr
      BY <1>2 DEF Below2
    <2>2. lev[c] = "pdpt"
      BY <1>1, <2>1
    <2>3. u \in PAGE /\ lev[u] = Below(lev[c])
      BY <2>1, Child
    <2> QED  BY <2>2, <2>3 DEF Below
  <1>3. ASSUME Below3(M, lev, r, t) PROVE t \in PAGE /\ lev[t] = "pt"
    <2>1. PICK c \in PAGE, i \in Index : Below2(M, lev, r, c) /\ Points(M, lev, c, i) /\ t = M.mem[c][i].addr
      BY <1>3 DEF Below3
    <2>2. lev[c] = "dir"
      BY <1>2, <2>1
    <2>3. t \in PAGE /\ lev[t] = Below(lev[c])
      BY <2>1, Child
    <2> QED  BY <2>2, <2>3 DEF Below
  <1> QED  BY <1>1, <1>2, <1>3

\* No table belongs to two address spaces.
LEMMA SpacesApart ==
    ASSUME NEW M, NEW lev, NEW ext, NEW out, Heap(M, lev, ext, out),
           NEW r \in PAGE, lev[r] = "root", NEW s \in PAGE, lev[s] = "root",
           NEW t, OfSpace(M, lev, r, t), OfSpace(M, lev, s, t)
    PROVE  r = s
  <1>0. 0 \in Index
    BY Constants
  <1>1. ASSUME NEW u, Below1(M, lev, r, u), Below1(M, lev, s, u) PROVE r = s
    <2>1. Points(M, lev, r, 0) /\ Points(M, lev, s, 0) /\ M.mem[r][0].addr = M.mem[s][0].addr
      BY <1>1 DEF Below1
    <2> QED  BY <1>0, <2>1, OnePlace
  <1>2. ASSUME NEW u, Below2(M, lev, r, u), Below2(M, lev, s, u) PROVE r = s
    <2>1. PICK c \in PAGE, i \in Index : Below1(M, lev, r, c) /\ Points(M, lev, c, i) /\ M.mem[c][i].addr = u
      BY <1>2 DEF Below2
    <2>2. PICK d \in PAGE, j \in Index : Below1(M, lev, s, d) /\ Points(M, lev, d, j) /\ M.mem[d][j].addr = u
      BY <1>2 DEF Below2
    <2>3. lev[c] = "pdpt"
      BY <2>1, SpaceLevels
    <2>4. c = d
      BY <2>1, <2>2, <2>3, OnePlace
    <2> QED  BY <1>1, <2>1, <2>2, <2>4
  <1>3. ASSUME Below3(M, lev, r, t), Below3(M, lev, s, t) PROVE r = s
    <2>1. PICK c \in PAGE, i \in Index : Below2(M, lev, r, c) /\ Points(M, lev, c, i) /\ M.mem[c][i].addr = t
      BY <1>3 DEF Below3
    <2>2. PICK d \in PAGE, j \in Index : Below2(M, lev, s, d) /\ Points(M, lev, d, j) /\ M.mem[d][j].addr = t
      BY <1>3 DEF Below3
    <2>3. lev[c] = "dir"
      BY <2>1, SpaceLevels
    <2>4. c = d
      BY <2>1, <2>2, <2>3, OnePlace
    <2> QED  BY <1>2, <2>1, <2>2, <2>4
  <1>4. /\ Below1(M, lev, r, t) => lev[t] = "pdpt"
        /\ Below2(M, lev, r, t) => lev[t] = "dir"
        /\ Below3(M, lev, r, t) => lev[t] = "pt"
    BY SpaceLevels
  <1>5. /\ Below1(M, lev, s, t) => lev[t] = "pdpt"
        /\ Below2(M, lev, s, t) => lev[t] = "dir"
        /\ Below3(M, lev, s, t) => lev[t] = "pt"
    BY SpaceLevels
  <1>6. CASE t = r
    BY <1>5, <1>6 DEF OfSpace
  <1>7. CASE t = s
    BY <1>4, <1>7 DEF OfSpace
  <1>8. CASE Below1(M, lev, r, t) /\ t # s
    BY <1>1, <1>4, <1>5, <1>8 DEF OfSpace
  <1>9. CASE Below2(M, lev, r, t) /\ t # s
    BY <1>2, <1>4, <1>5, <1>9 DEF OfSpace
  <1>10. CASE Below3(M, lev, r, t) /\ t # s
    BY <1>3, <1>4, <1>5, <1>10 DEF OfSpace
  <1> QED  BY <1>6, <1>7, <1>8, <1>9, <1>10 DEF OfSpace

\* The way to an address is the same as long as the tables above the page
\* tables are.
LEMMA WayKept ==
    ASSUME NEW M, NEW lev, NEW ext, NEW out, Heap(M, lev, ext, out),
           NEW s \in PAGE, lev[s] = "root", NEW a \in Address, PML4(a) = 0, NEW M2,
           \A t \in PAGE : OfSpace(M, lev, s, t) /\ lev[t] # "pt" => M2.mem[t] = M.mem[t], NEW q
    PROVE  PathR(M2, s, a, q) <=> PathR(M, s, a, q)
  <1> DEFINE c == M.mem[s][0].addr
             d == M.mem[c][PDPE(a)].addr
  <1>1. 0 \in Index /\ PDPE(a) \in Index /\ PDX(a) \in Index
    BY AddressParts, Constants
  <1>2. M2.mem[s] = M.mem[s]
    BY DEF OfSpace
  <1>3. c = M.mem[s][0].addr /\ d = M.mem[c][PDPE(a)].addr
    OBVIOUS
  <1> HIDE DEF c, d
  <1>4. CASE ~Present(M, s, 0)
    BY <1>2, <1>4 DEF PathR, Present
  <1>5. CASE Present(M, s, 0)
    <2>1. Below1(M, lev, s, c)
      BY <1>3, <1>5 DEF Below1, Points
    <2>2. c \in PAGE /\ lev[c] = "pdpt"
      BY <2>1, SpaceLevels
    <2>3. M2.mem[c] = M.mem[c]
      BY <2>1, <2>2 DEF OfSpace
    <2>4. Present(M2, s, 0) /\ M2.mem[s][0].addr = c
      BY <1>2, <1>3, <1>5 DEF Present
    <2>5. (PathR(M, s, a, q) <=> PathP(M, c, a, q)) /\ (PathR(M2, s, a, q) <=> PathP(M2, c, a, q))
      BY <1>3, <1>5, <2>4 DEF PathR
    <2>6. CASE ~Present(M, c, PDPE(a))
      BY <2>3, <2>5, <2>6 DEF PathP, Present
    <2>7. CASE Present(M, c, PDPE(a))
      <3>1. Points(M, lev, c, PDPE(a))
        BY <2>2, <2>7 DEF Points
      <3>2. Below2(M, lev, s, d)
        BY <1>1, <1>3, <2>1, <2>2, <3>1 DEF Below2
      <3>3. d \in PAGE /\ lev[d] = "dir"
        BY <3>2, SpaceLevels
      <3>4. M2.mem[d] = M.mem[d]
        BY <3>2, <3>3 DEF OfSpace
      <3>5. Present(M2, c, PDPE(a)) /\ M2.mem[c][PDPE(a)].addr = d
        BY <1>3, <2>3, <2>7 DEF Present
      <3>6. PathP(M, c, a, q) <=> PathD(M, d, a, q)
        BY <1>3, <2>7 DEF PathP
      <3>7. PathP(M2, c, a, q) <=> PathD(M2, d, a, q)
        BY <3>5 DEF PathP
      <3>8. PathD(M2, d, a, q) <=> PathD(M, d, a, q)
        BY <3>4 DEF PathD, Present
      <3> QED  BY <2>5, <3>6, <3>7, <3>8
    <2> QED  BY <2>6, <2>7
  <1> QED  BY <1>4, <1>5

\* One entry of a page table is one address of one address space.
LEMMA SetMap ==
    ASSUME NEW M, NEW lev, NEW ext, NEW out, Heap(M, lev, ext, out),
           NEW r \in PAGE, lev[r] = "root", NEW va \in Address, PML4(va) = 0, NEW pt, PathR(M, r, va, pt),
           NEW x, NEW M2, \A u \in PAGE : u # pt => M2.mem[u] = M.mem[u], M2.mem[pt][PTX(va)] = x,
           \A j \in Index : j # PTX(va) => M2.mem[pt][j] = M.mem[pt][j]
    PROVE  Maps(M, lev, r, va, x, M2)
  <1>1. pt \in PAGE /\ lev[pt] = "pt" /\ PTX(va) \in Index
    BY WayIs, AddressParts
  <1>3. /\ \A u \in PAGE : u # pt => M2.mem[u] = M.mem[u]
        /\ M2.mem[pt][PTX(va)] = x /\ \A j \in Index : j # PTX(va) => M2.mem[pt][j] = M.mem[pt][j]
    OBVIOUS
  <1>4. ASSUME NEW s \in PAGE, lev[s] = "root", NEW a \in Address, PML4(a) = 0, NEW q
        PROVE  PathR(M2, s, a, q) <=> PathR(M, s, a, q)
    <2>1. \A t \in PAGE : OfSpace(M, lev, s, t) /\ lev[t] # "pt" => M2.mem[t] = M.mem[t]
      BY <1>1, <1>3
    <2> QED  BY <1>4, <2>1, WayKept
  <1>5. Leaf(M2, r, va) = x
    <2>1. PathR(M2, r, va, pt)
      BY <1>4
    <2>2. Leaf(M2, r, va) = M2.mem[pt][PTX(va)]
      BY <2>1, LeafAt
    <2> QED  BY <1>3, <2>2
  <1>6. ASSUME NEW s \in PAGE, NEW a \in Address, lev[s] = "root", PML4(a) = 0, s # r \/ a # va
        PROVE  Leaf(M2, s, a) = Leaf(M, s, a)
    <2>1. CASE \A q : ~PathR(M, s, a, q)
      <3>1. \A q : ~PathR(M2, s, a, q)
        BY <1>4, <1>6, <2>1
      <3> QED  BY <2>1, <3>1, LeafNone
    <2>2. ASSUME NEW q, PathR(M, s, a, q) PROVE Leaf(M2, s, a) = Leaf(M, s, a)
      <3>1. Leaf(M, s, a) = M.mem[q][PTX(a)]
        BY <2>2, LeafAt
      <3>2. Leaf(M2, s, a) = M2.mem[q][PTX(a)]
        <4>1. PathR(M2, s, a, q)
          BY <1>4, <1>6, <2>2
        <4> QED  BY <4>1, LeafAt
      <3>3. q \in PAGE /\ PTX(a) \in Index
        BY <1>6, <2>2, WayIs, AddressParts
      <3>4. q # pt \/ PTX(a) # PTX(va)
        <4> SUFFICES ASSUME q = pt, PTX(a) = PTX(va) PROVE FALSE
          OBVIOUS
        <4>1. PathR(M, s, a, pt)
          BY <2>2
        <4>2. s = r /\ a = va
          BY <1>6, <4>1, OneWay
        <4> QED  BY <1>6, <4>2
      <3> QED  BY <1>3, <3>1, <3>2, <3>3, <3>4
    <2> QED  BY <2>1, <2>2
  <1> QED  BY <1>5, <1>6 DEF Maps

\* A table of one address space is none of another's.
LEMMA OthersKept ==
    ASSUME NEW M, NEW lev, NEW ext, NEW out, Heap(M, lev, ext, out),
           NEW r \in PAGE, lev[r] = "root", NEW t \in PAGE, OfSpace(M, lev, r, t),
           NEW M2, \A u \in PAGE : u # t => M2.mem[u] = M.mem[u]
    PROVE  OtherMaps(M, lev, r, M2)
  <1> SUFFICES ASSUME NEW s \in PAGE, NEW a \in Address, lev[s] = "root", PML4(a) = 0, s # r
               PROVE  Leaf(M2, s, a) = Leaf(M, s, a)
    BY DEF OtherMaps
  <1>1. \A u \in PAGE : OfSpace(M, lev, s, u) => M2.mem[u] = M.mem[u]
    BY SpacesApart
  <1>2. \A q : PathR(M2, s, a, q) <=> PathR(M, s, a, q)
    BY <1>1, WayKept
  <1>3. CASE \A q : ~PathR(M, s, a, q)
    BY <1>2, <1>3, LeafNone
  <1>4. ASSUME NEW q, PathR(M, s, a, q) PROVE Leaf(M2, s, a) = Leaf(M, s, a)
    <2>1. Leaf(M, s, a) = M.mem[q][PTX(a)] /\ Leaf(M2, s, a) = M2.mem[q][PTX(a)]
      BY <1>2, <1>4, LeafAt
    <2>2. PICK c, d \in PAGE : /\ q \in PAGE
                               /\ Points(M, lev, s, 0) /\ M.mem[s][0].addr = c
                               /\ Points(M, lev, c, PDPE(a)) /\ M.mem[c][PDPE(a)].addr = d
                               /\ Points(M, lev, d, PDX(a)) /\ M.mem[d][PDX(a)].addr = q
      BY <1>4, WayIs
    <2>3. PDPE(a) \in Index /\ PDX(a) \in Index
      BY AddressParts
    <2>4. Below1(M, lev, s, c)
      BY <2>2 DEF Below1
    <2>5. Below2(M, lev, s, d)
      BY <2>2, <2>3, <2>4 DEF Below2
    <2>6. Below3(M, lev, s, q)
      BY <2>2, <2>3, <2>5 DEF Below3
    <2>7. M2.mem[q] = M.mem[q]
      BY <1>1, <2>2, <2>6 DEF OfSpace
    <2> QED  BY <2>1, <2>7
  <1> QED  BY <1>3, <1>4

LEMMA OthersTwice ==
    ASSUME NEW M, NEW lev, NEW r, NEW M2, NEW lev2, NEW M3, OtherMaps(M, lev, r, M2), OtherMaps(M2, lev2, r, M3),
           \A u \in PAGE : lev[u] = "root" => lev2[u] = "root"
    PROVE  OtherMaps(M, lev, r, M3)
  BY DEF OtherMaps

(***************************************************************************)
(* The walks.                                                              *)
(***************************************************************************)
\* What was there is still there; pages that were free may be tables now.
Extends(M, lev, M2, lev2) ==
    /\ \A u \in PAGE : lev[u] # "no" \/ M.ref[u] > 0 => lev2[u] = lev[u] /\ M2.ref[u] = M.ref[u]
    /\ \A u \in PAGE, j \in Index : Points(M, lev, u, j) => M2.mem[u][j] = M.mem[u][j]

\* The tables are what they were, the counts and the free list.
Untouched(M, lev, M2, lev2) ==
    /\ lev2 = lev /\ M2.ref = M.ref /\ M2.free = M.free
    /\ \A u \in PAGE : lev[u] = "pt" => M2.mem[u] = M.mem[u]
    /\ \A u \in PAGE, j \in Index : lev[u] # "no" =>
          /\ Present(M2, u, j) <=> Present(M, u, j)
          /\ Present(M, u, j) => M2.mem[u][j] = M.mem[u][j]

LEMMA ExtendsTwice ==
    ASSUME NEW M, NEW lev, NEW M2, NEW lev2, NEW M3, NEW lev3,
           Extends(M, lev, M2, lev2), Extends(M2, lev2, M3, lev3)
    PROVE  Extends(M, lev, M3, lev3)
  <1>1. \A u \in PAGE : lev[u] # "no" \/ M.ref[u] > 0 => lev3[u] = lev[u] /\ M3.ref[u] = M.ref[u]
    BY DEF Extends
  <1>2. ASSUME NEW u \in PAGE, NEW j \in Index, Points(M, lev, u, j) PROVE M3.mem[u][j] = M.mem[u][j]
    <2>1. M2.mem[u][j] = M.mem[u][j] /\ lev2[u] = lev[u]
      BY <1>2 DEF Extends, Points
    <2>2. Points(M2, lev2, u, j)
      BY <1>2, <2>1 DEF Points, Present
    <2> QED  BY <2>1, <2>2 DEF Extends
  <1> QED  BY <1>1, <1>2 DEF Extends

\* new_table() has room for a table at entry i of table t ...
Room(M, lev, t, i) ==
    /\ lev[t] \in {"root", "pdpt", "dir"} /\ ~Present(M, t, i) /\ Allowed(M, lev, t, i)
    /\ M.free # <<>>

\* ... and makes one of page h.
Adds(M, lev, t, i, h, M2, lev2) ==
    h = Head(M.free) /\ M2 = new_table(M, t, i) /\ lev2 = Down1(lev, t, h)

Added(M, lev, t, i, h, M2, lev2) ==
    /\ h \in UserPages /\ M.ref[h] = 0 /\ lev[h] = "no"
    /\ M2.mem[t][i] = Link(h) /\ M2.mem[h] = ZeroPage /\ lev2[h] = Below(lev[t])
    /\ \A u \in PAGE : u # h /\ u # t => M2.mem[u] = M.mem[u]
    /\ \A j \in Index : j # i => M2.mem[t][j] = M.mem[t][j]
    /\ M2.ref = [M.ref EXCEPT ![h] = 1] /\ M2.free = Tail(M.free)
    /\ \A u \in PAGE : u # h => lev2[u] = lev[u]

\* new_table(): page_alloc(), pp_ref++, and the entry.
LEMMA NewTable ==
    ASSUME NEW M, NEW lev, NEW ext, NEW out, Heap(M, lev, ext, out),
           NEW t \in PAGE, NEW i \in Index, Room(M, lev, t, i),
           NEW h, NEW M2, NEW lev2, Adds(M, lev, t, i, h, M2, lev2)
    PROVE  Heap(M2, lev2, ext, out) /\ Extends(M, lev, M2, lev2) /\ Added(M, lev, t, i, h, M2, lev2)
  <1>0. /\ h = Head(M.free) /\ M2 = new_table(M, t, i) /\ lev2 = Down1(lev, t, h)
        /\ lev[t] \in {"root", "pdpt", "dir"} /\ ~Present(M, t, i) /\ Allowed(M, lev, t, i) /\ M.free # <<>>
    BY DEF Room, Adds
  <1> DEFINE A == page_alloc(M)
             B == incref(A, h)
             more == [ext EXCEPT ![h] = ext[h] + 1]
  <1>1. /\ M \in MemType /\ lev \in [PAGE -> Level] /\ ext \in [PAGE -> Nat] /\ M.free \in Seq(PAGE)
        /\ M.ref \in [PAGE -> 0 .. RefMod - 1] /\ M.mem \in [PAGE -> [Index -> Entry]]
    BY HeapParts, Parts
  <1>2. h \in UserPages /\ h \notin out /\ M.ref[h] = 0 /\ lev[h] = "no" /\ Heap(A, lev, ext, out \cup {h})
    BY <1>0, AllocKeeps
  <1>3. /\ A \in MemType /\ A.ref = M.ref /\ A.free = Tail(M.free) /\ A.mem = [M.mem EXCEPT ![h] = ZeroPage]
    BY <1>0, <1>1, AllocParts
  <1>4. h \in PAGE /\ t # h /\ ext[h] = 0
    <2>1. h \in PAGE
      BY <1>2 DEF UserPages
    <2> QED  BY <1>0, <1>2, <2>1, Unreferenced
  <1> HIDE DEF A
  <1>5. 0 + 1 < RefMod /\ A.ref[h] = 0
    BY <1>2, <1>3, Constants
  <1>6. Heap(B, lev, more, (out \cup {h}) \ {h})
    <2>1. h \in out \cup {h} /\ A.ref[h] + 1 < RefMod
      BY <1>5
    <2> QED  BY <1>2, <2>1, IncrefKeeps
  <1>7. (out \cup {h}) \ {h} = out
    BY <1>2
  <1>8. B \in MemType /\ B.mem = A.mem /\ B.ref = [M.ref EXCEPT ![h] = 1] /\ B.free = A.free
    <2>1. B.ref = [A.ref EXCEPT ![h] = A.ref[h] + 1]
      BY <1>3, <1>4, <1>5, CountUp
    <2>2. B \in MemType /\ B.mem = A.mem /\ B.free = A.free
      BY <1>3, <1>4, IncrefParts
    <2> QED  BY <1>3, <1>5, <2>1, <2>2
  <1>9. B.mem[h] = ZeroPage /\ B.ref[h] = 1 /\ \A u \in PAGE : u # h => B.mem[u] = M.mem[u]
    BY <1>1, <1>3, <1>4, <1>8
  <1>10. more[h] = 1 /\ [more EXCEPT ![h] = more[h] - 1] = ext
    <2>1. more[h] = 1
      BY <1>1, <1>4
    <2>2. [more EXCEPT ![h] = 0] = ext
      BY <1>1, <1>4
    <2> QED  BY <2>1, <2>2
  <1>11. M2 = [B EXCEPT !.mem[t][i] = Link(h)]
    BY <1>0 DEF new_table, A, Link
  <1> HIDE DEF B, more
  <1>12. ~Present(B, t, i)
    BY <1>0, <1>4, <1>9 DEF Present
  <1>13. ASSUME NEW u \in PAGE, NEW k \in Index, Points(B, lev, u, k)
         PROVE  Points(M, lev, u, k) /\ M.mem[u][k].addr = B.mem[u][k].addr
    <2>1. u # h
      BY <1>2, <1>13 DEF Points
    <2> QED  BY <1>9, <1>13, <2>1 DEF Points, Present
  <1>14. Allowed(B, lev, t, i)
    BY <1>0, <1>13 DEF Allowed
  <1>15. Link(h) \in Entry /\ "P" \in Link(h).perm /\ Link(h).addr = h
    BY <1>4, Entries
  <1>16. Heap(M2, lev2, ext, out)
    <2>1. lev[t] # "no" /\ more[h] > 0 /\ Heap(B, lev, more, out)
      <3>1. lev[t] # "no"
        BY <1>0
      <3>2. more[h] > 0
        BY <1>10
      <3> QED  BY <1>6, <1>7, <3>1, <3>2
    <2>2. Heap([B EXCEPT !.mem[t][i] = Link(h)], Down1(lev, t, Link(h).addr),
               [more EXCEPT ![Link(h).addr] = more[Link(h).addr] - 1], out)
      BY <1>2, <1>9, <1>12, <1>14, <1>15, <2>1, SetKeeps
    <2> QED  BY <1>0, <1>10, <1>11, <1>15, <2>2
  <1>17. /\ M2.mem[t][i] = Link(h) /\ M2.ref = B.ref /\ M2.free = B.free
         /\ \A u \in PAGE, j \in Index : u # t \/ j # i => M2.mem[u][j] = B.mem[u][j]
         /\ \A u \in PAGE : u # t => M2.mem[u] = B.mem[u]
    BY <1>8, <1>11, <1>15, EntryParts, EntryValues
  <1>18. lev2[h] = Below(lev[t]) /\ \A u \in PAGE : u # h => lev2[u] = lev[u]
    BY <1>0, <1>1, <1>4 DEF Down1
  <1>19. M2.mem[h] = ZeroPage /\ (\A u \in PAGE : u # h /\ u # t => M2.mem[u] = M.mem[u])
         /\ \A j \in Index : j # i => M2.mem[t][j] = M.mem[t][j]
    BY <1>4, <1>9, <1>17
  <1>20. M2.ref = [M.ref EXCEPT ![h] = 1] /\ M2.free = Tail(M.free)
    BY <1>3, <1>8, <1>17
  <1>21. Extends(M, lev, M2, lev2)
    <2>1. \A u \in PAGE : lev[u] # "no" \/ M.ref[u] > 0 => lev2[u] = lev[u] /\ M2.ref[u] = M.ref[u]
      BY <1>1, <1>2, <1>18, <1>20
    <2>2. ASSUME NEW u \in PAGE, NEW j \in Index, Points(M, lev, u, j) PROVE M2.mem[u][j] = M.mem[u][j]
      <3>1. u # h /\ (u # t \/ j # i)
        BY <1>0, <1>2, <2>2 DEF Points
      <3> QED  BY <1>9, <1>17, <3>1
    <2> QED  BY <2>1, <2>2 DEF Extends
  <1>22. Added(M, lev, t, i, h, M2, lev2)
    BY <1>2, <1>17, <1>18, <1>19, <1>20 DEF Added
  <1> QED  BY <1>16, <1>21, <1>22

\* A walk that gives up has left every mapping what it was; so does a new table.
LEMMA UntouchedMap ==
    ASSUME NEW M, NEW lev, NEW ext, NEW out, Heap(M, lev, ext, out), NEW M2, Untouched(M, lev, M2, lev)
    PROVE  SameMap(M, lev, M2)
  <1>1. \A t \in PAGE : lev[t] = "pt" => M2.mem[t] = M.mem[t]
    BY DEF Untouched
  <1>2. ASSUME NEW t \in PAGE, NEW i \in Index, lev[t] # "no"
        PROVE  \/ M2.mem[t][i] = M.mem[t][i]
               \/ ~Present(M, t, i) /\ (Present(M2, t, i) => M2.mem[M2.mem[t][i].addr] = ZeroPage)
    BY <1>2 DEF Untouched
  <1> QED  BY <1>1, <1>2, GrownMap DEF Grown

LEMMA AddedMap ==
    ASSUME NEW M, NEW lev, NEW ext, NEW out, Heap(M, lev, ext, out),
           NEW t \in PAGE, NEW i \in Index, Room(M, lev, t, i), NEW h, NEW M2, NEW lev2, Added(M, lev, t, i, h, M2, lev2)
    PROVE  SameMap(M, lev, M2)
  <1>1. /\ h \in PAGE /\ lev[h] = "no" /\ M2.mem[t][i] = Link(h) /\ M2.mem[h] = ZeroPage
        /\ \A u \in PAGE : u # h /\ u # t => M2.mem[u] = M.mem[u]
        /\ \A j \in Index : j # i => M2.mem[t][j] = M.mem[t][j]
        /\ lev[t] # "pt" /\ ~Present(M, t, i)
    BY DEF Added, Room, UserPages
  <1>2. \A u \in PAGE : lev[u] = "pt" => M2.mem[u] = M.mem[u]
    BY <1>1
  <1>3. ASSUME NEW u \in PAGE, NEW j \in Index, lev[u] # "no"
        PROVE  \/ M2.mem[u][j] = M.mem[u][j]
               \/ ~Present(M, u, j) /\ (Present(M2, u, j) => M2.mem[M2.mem[u][j].addr] = ZeroPage)
    <2>1. CASE u = t /\ j = i
      BY <1>1, <2>1, Entries
    <2>2. CASE ~(u = t /\ j = i)
      BY <1>1, <1>3, <2>2
    <2> QED  BY <2>1, <2>2
  <1> QED  BY <1>2, <1>3, GrownMap DEF Grown

\* One change after the other; top-level tables stay what they are.
LEMMA SameTwice ==
    ASSUME NEW M, NEW lev, NEW M2, NEW lev2, NEW M3, SameMap(M, lev, M2), SameMap(M2, lev2, M3),
           \A u \in PAGE : lev[u] = "root" => lev2[u] = "root"
    PROVE  SameMap(M, lev, M3)
  BY DEF SameMap

\* What each walk leaves.
WalkEnds(M, lev, ext, out, W, lev2) ==
    /\ Heap(W.m, lev2, ext, out) /\ Extends(M, lev, W.m, lev2) /\ SameMap(M, lev, W.m)
    /\ W.pte = NULL => Untouched(M, lev, W.m, lev2)

\* The walks that create what is missing.
WalkD(M, t, va) == pgdir_walk(M, t, va, TRUE)
WalkP(M, t, va) == pdpe_walk(M, t, va, TRUE)
WalkR(M, t, va) == pml4e_walk(M, t, va, TRUE)

LEMMA ExtendsSame ==
    ASSUME NEW M, NEW lev
    PROVE  Extends(M, lev, M, lev) /\ Untouched(M, lev, M, lev) /\ SameMap(M, lev, M)
  BY DEF Extends, Untouched, SameMap

\* pgdir_walk() returns the entry for va, or changes no entry.
LEMMA PgdirWalk ==
    ASSUME NEW M, NEW lev, NEW ext, NEW out, Heap(M, lev, ext, out),
           NEW t \in PAGE, lev[t] = "dir", NEW va \in Address, Allowed(M, lev, t, PDX(va)),
           NEW W, W = WalkD(M, t, va)
    PROVE  \E lev2 : /\ WalkEnds(M, lev, ext, out, W, lev2)
                     /\ W.pte # NULL => \E pt \in PAGE : /\ W.pte = <<pt, PTX(va)>> /\ lev2[pt] = "pt"
                                                        /\ PathD(W.m, t, va, pt)
  <1> DEFINE i == PDX(va)
             a == M.mem[t][i].addr
  <1>1. i \in Index /\ PTX(va) \in Index
    BY AddressParts
  <1>2. CASE Present(M, t, i)
    <2>1. W = Walked(M, <<a, PTX(va)>>)
      BY <1>2 DEF WalkD, pgdir_walk
    <2>2. W.m = M /\ W.pte = <<a, PTX(va)>>
      BY <2>1 DEF Walked
    <2>3. Points(M, lev, t, i)
      BY <1>2 DEF Points
    <2>4. TreeShape(M, lev)
      BY HeapParts
    <2>5. a \in PAGE /\ lev[a] = "pt"
      BY <1>1, <2>3, <2>4 DEF TreeShape, UserPages, Below
    <2>6. W.pte # NULL
      BY <1>1, <2>2, <2>5, Constants
    <2>7. WalkEnds(M, lev, ext, out, W, lev)
      BY <2>2, <2>6, ExtendsSame DEF WalkEnds
    <2>8. PathD(W.m, t, va, a)
      BY <1>2, <2>2 DEF PathD
    <2> HIDE DEF a
    <2> QED  BY <2>2, <2>5, <2>7, <2>8
  <1>3. CASE ~Present(M, t, i) /\ M.free = <<>>
    <2>1. W = Walked(M, NULL)
      BY <1>3 DEF WalkD, pgdir_walk
    <2>2. W.m = M /\ W.pte = NULL
      BY <2>1 DEF Walked
    <2>3. WalkEnds(M, lev, ext, out, W, lev)
      BY <2>2, ExtendsSame DEF WalkEnds
    <2> QED  BY <2>2, <2>3
  <1>4. CASE ~Present(M, t, i) /\ M.free # <<>>
    <2> DEFINE h == Head(M.free)
               M2 == new_table(M, t, i)
               lev2 == Down1(lev, t, h)
    <2>1. W = Walked(M2, <<M2.mem[t][i].addr, PTX(va)>>)
      BY <1>4 DEF WalkD, pgdir_walk
    <2>9. Room(M, lev, t, i) /\ Adds(M, lev, t, i, h, M2, lev2)
      BY <1>4 DEF Room, Adds
    <2> HIDE DEF h, M2, lev2, i
    <2>10. Heap(M2, lev2, ext, out) /\ Extends(M, lev, M2, lev2) /\ Added(M, lev, t, i, h, M2, lev2)
      BY <1>1, <2>9, NewTable
    <2>2. /\ h \in UserPages /\ Heap(M2, lev2, ext, out) /\ Extends(M, lev, M2, lev2)
          /\ M2.mem[t][i] = Link(h) /\ lev2[h] = Below(lev[t])
      BY <2>10 DEF Added
    <2>3. h \in PAGE /\ Link(h).addr = h /\ "P" \in Link(h).perm /\ lev2[h] = "pt"
      BY <2>2, Entries DEF UserPages, Below
    <2>4. W.m = M2 /\ W.pte = <<h, PTX(va)>>
      BY <2>1, <2>2, <2>3 DEF Walked
    <2>5. W.pte # NULL
      BY <1>1, <2>3, <2>4, Constants
    <2>6. WalkEnds(M, lev, ext, out, W, lev2)
      <3>1. SameMap(M, lev, M2)
        BY <1>1, <2>9, <2>10, AddedMap
      <3> QED  BY <2>2, <2>4, <2>5, <3>1 DEF WalkEnds
    <2>7. PathD(W.m, t, va, h)
      BY <2>2, <2>3, <2>4 DEF PathD, Present, i
    <2> QED  BY <2>3, <2>4, <2>6, <2>7
  <1> QED  BY <1>2, <1>3, <1>4

LEMMA PutBack ==
    ASSUME NEW f \in Seq(PAGE), f # <<>>
    PROVE  <<Head(f)>> \o Tail(f) = f
  OBVIOUS

\* drop_table() takes back an empty table that new_table() has just added, and
\* the lower walk, which failed, has left as it was.
LEMMA Undone ==
    ASSUME NEW M, NEW lev, NEW ext, NEW out, Heap(M, lev, ext, out),
           NEW t \in PAGE, NEW i \in Index, Room(M, lev, t, i),
           NEW h, NEW M2, NEW lev2, Adds(M, lev, t, i, h, M2, lev2),
           NEW M3, Heap(M3, lev2, ext, out), Untouched(M2, lev2, M3, lev2),
           NEW M4, M4 = drop_table(M3, t, i)
    PROVE  Heap(M4, lev, ext, out) /\ Untouched(M, lev, M4, lev)
  <1> DEFINE A == [M3 EXCEPT !.mem[t][i] = Zero]
             more == [ext EXCEPT ![h] = ext[h] + 1]
  <1>0. Added(M, lev, t, i, h, M2, lev2)
    BY NewTable
  <1>19. /\ lev[t] \in {"root", "pdpt", "dir"} /\ ~Present(M, t, i) /\ Allowed(M, lev, t, i)
         /\ lev2 = Down1(lev, t, h)
    BY DEF Room, Adds
  <1>1. /\ h \in UserPages /\ M.ref[h] = 0 /\ lev[h] = "no" /\ M2.mem[t][i] = Link(h) /\ M2.mem[h] = ZeroPage
        /\ lev2[h] = Below(lev[t]) /\ \A u \in PAGE : u # h => lev2[u] = lev[u]
    BY <1>0 DEF Added
  <1>13. /\ \A u \in PAGE : u # h /\ u # t => M2.mem[u] = M.mem[u]
         /\ \A j \in Index : j # i => M2.mem[t][j] = M.mem[t][j]
         /\ M2.ref = [M.ref EXCEPT ![h] = 1] /\ M2.free = Tail(M.free)
    BY <1>0 DEF Added
  <1>2. h \in PAGE /\ t # h /\ lev2[h] # "no" /\ lev2[t] # "no" /\ lev2[t] = lev[t]
    BY <1>1, <1>19 DEF UserPages, Below
  <1>3. /\ Present(M3, t, i) /\ M3.mem[t][i] = Link(h) /\ \A j \in Index : ~Present(M3, h, j)
    <2>1. Present(M2, t, i) /\ \A j \in Index : ~Present(M2, h, j)
      BY <1>1, <1>2, Entries DEF Present
    <2> QED  BY <1>1, <1>2, <2>1 DEF Untouched
  <1>4. M3.mem[t][i].addr = h /\ Points(M3, lev2, t, i)
    BY <1>2, <1>3, <1>19, Entries DEF Points, Allowed
  <1>14. M3 \in MemType /\ Zero \in Entry /\ M \in MemType
    BY HeapParts, Entries
  <1>5. Heap(A, lev2, more, out)
    BY <1>4, ClearKeeps
  <1>6. M4 = page_decref(A, h)
    BY <1>4 DEF drop_table
  <1>7. /\ A.mem[t][i] = Zero /\ A.ref = M3.ref /\ A.free = M3.free
        /\ \A u \in PAGE, j \in Index : u # t \/ j # i => A.mem[u][j] = M3.mem[u][j]
        /\ \A u \in PAGE : u # t => A.mem[u] = M3.mem[u]
    BY <1>14, EntryParts, EntryValues
  <1> HIDE DEF A
  <1>8. \A j \in Index : ~Points(A, lev2, h, j)
    BY <1>2, <1>3, <1>7 DEF Points, Present
  <1>9. ext \in [PAGE -> Nat] /\ lev \in [PAGE -> Level] /\ lev2 \in [PAGE -> Level] /\ A \in MemType
    BY <1>5, HeapParts
  <1>10. more[h] > 0 /\ [more EXCEPT ![h] = more[h] - 1] = ext
    <2>1. more[h] = ext[h] + 1 /\ more[h] - 1 = ext[h] /\ more[h] > 0
      BY <1>2, <1>9
    <2>2. [more EXCEPT ![h] = ext[h]] = ext
      BY <1>2, <1>9
    <2> QED  BY <2>1, <2>2
  <1> HIDE DEF more
  <1>11. [lev2 EXCEPT ![h] = "no"] = lev
    BY <1>1, <1>2, <1>9, <1>19 DEF Down1
  <1>12. /\ Heap(page_decref(A, h), [lev2 EXCEPT ![h] = "no"], [more EXCEPT ![h] = more[h] - 1], out)
         /\ A.ref[h] > 0 /\ ~Listed(A, h)
    BY <1>1, <1>5, <1>8, <1>10, DropKeeps
  <1>15. /\ M4.ref = [A.ref EXCEPT ![h] = A.ref[h] - 1] /\ M4.mem = A.mem
         /\ M4.free = IF A.ref[h] = 1 THEN <<h>> \o A.free ELSE A.free
    <2>1. A \in MemType /\ h \in PAGE /\ A.ref[h] > 0 /\ ~Listed(A, h)
      BY <1>2, <1>9, <1>12
    <2>2. /\ page_decref(A, h).ref = [A.ref EXCEPT ![h] = A.ref[h] - 1] /\ page_decref(A, h).mem = A.mem
          /\ page_decref(A, h).free = IF A.ref[h] = 1 THEN <<h>> \o A.free ELSE A.free
      BY <2>1, DecrefParts
    <2> QED  BY <1>6, <2>2
  <1>16. M4.ref = M.ref
    <2>1. M.ref \in [PAGE -> 0 .. RefMod - 1]
      BY <1>14, Parts
    <2>2. A.ref = [M.ref EXCEPT ![h] = 1]
      BY <1>7, <1>13 DEF Untouched
    <2> QED  BY <1>1, <1>2, <1>15, <2>1, <2>2
  <1>17. ASSUME NEW u \in PAGE, NEW j \in Index, lev[u] # "no"
         PROVE  /\ Present(M4, u, j) <=> Present(M, u, j)
                /\ Present(M, u, j) => M4.mem[u][j] = M.mem[u][j]
    <2>1. CASE u = t /\ j = i
      BY <1>7, <1>15, <1>19, <2>1, Entries DEF Present
    <2>2. CASE ~(u = t /\ j = i)
      <3>1. u # h /\ lev2[u] # "no"
        BY <1>1, <1>17
      <3>2. M2.mem[u][j] = M.mem[u][j] /\ M4.mem[u][j] = M3.mem[u][j]
        BY <1>7, <1>13, <1>15, <2>2, <3>1
      <3>3. /\ Present(M3, u, j) <=> Present(M2, u, j)
            /\ Present(M2, u, j) => M3.mem[u][j] = M2.mem[u][j]
        BY <3>1 DEF Untouched
      <3> QED  BY <3>2, <3>3 DEF Present
    <2> QED  BY <2>1, <2>2
  <1>20. M4.free = M.free
    <2>1. A.ref[h] = 1
      <3>1. A.ref = [M.ref EXCEPT ![h] = 1] /\ M.ref \in [PAGE -> 0 .. RefMod - 1]
        BY <1>7, <1>13, <1>14, Parts DEF Untouched
      <3> QED  BY <1>2, <3>1
    <2>2. A.free = Tail(M.free)
      BY <1>7, <1>13 DEF Untouched
    <2>3. h = Head(M.free) /\ M.free \in Seq(PAGE) /\ M.free # <<>>
      BY <1>14, Parts DEF Room, Adds
    <2>4. M4.free = <<Head(M.free)>> \o Tail(M.free)
      BY <1>15, <2>1, <2>2, <2>3
    <2> QED  BY <2>3, <2>4, PutBack
  <1>21. ASSUME NEW u \in PAGE, lev[u] = "pt" PROVE M4.mem[u] = M.mem[u]
    <2>1. u # t /\ u # h /\ lev2[u] = "pt"
      BY <1>1, <1>19, <1>21
    <2>2. M3.mem[u] = M2.mem[u]
      BY <2>1 DEF Untouched
    <2> QED  BY <1>7, <1>13, <1>15, <2>1, <2>2
  <1>18. Untouched(M, lev, M4, lev)
    BY <1>16, <1>17, <1>20, <1>21 DEF Untouched
  <1> QED  BY <1>6, <1>10, <1>11, <1>12, <1>18

LEMMA UntouchedExtends ==
    ASSUME NEW M, NEW lev, NEW M2, NEW lev2, Untouched(M, lev, M2, lev2)
    PROVE  Extends(M, lev, M2, lev2)
  BY DEF Untouched, Extends, Points

\* A page directory may get the table for an address that env_free() gets to.
LEMMA DirectoryAllowed ==
    ASSUME NEW M, NEW lev, NEW ext, NEW out, Heap(M, lev, ext, out),
           NEW va \in Address, Reached(va), NEW t \in PAGE, NEW c,
           Points(M, lev, t, PDPE(va)), c = M.mem[t][PDPE(va)].addr, lev[c] = "dir"
    PROVE  Allowed(M, lev, c, PDX(va))
  <1>1. PDPE(va) \in Index /\ PDX(va) < TableLimit(PDPE(va))
    BY AddressParts DEF Reached
  <1>2. c \in UserPages /\ M.ref[c] <= 1
    <2>1. c \in UserPages /\ M.ref[c] = 1
      BY <1>1, Child
    <2> QED  BY <2>1
  <1>3. ASSUME NEW u \in PAGE, NEW k \in Index, Points(M, lev, u, k), M.mem[u][k].addr = c
        PROVE  PDX(va) < TableLimit(k)
    <2>1. k = PDPE(va)
      BY <1>1, <1>2, <1>3, OneParent
    <2> QED  BY <1>1, <2>1
  <1> QED  BY <1>3 DEF Allowed

\* pdpe_walk() does, with a directory given back that it made in vain.
LEMMA PdpeWalk ==
    ASSUME NEW M, NEW lev, NEW ext, NEW out, Heap(M, lev, ext, out),
           NEW t \in PAGE, lev[t] = "pdpt", NEW va \in Address, Reached(va),
           NEW W, W = WalkP(M, t, va)
    PROVE  \E lev2 : /\ WalkEnds(M, lev, ext, out, W, lev2)
                     /\ W.pte # NULL => \E pt \in PAGE : /\ W.pte = <<pt, PTX(va)>> /\ lev2[pt] = "pt"
                                                        /\ PathP(W.m, t, va, pt)
  <1> DEFINE i == PDPE(va)
  <1>1. i \in Index /\ PDX(va) \in Index
    BY AddressParts
  <1>2. CASE Present(M, t, i)
    <2> DEFINE c == M.mem[t][i].addr
    <2>1. W = WalkD(M, c, va)
      BY <1>2 DEF WalkP, WalkD, pdpe_walk
    <2>2. Points(M, lev, t, i) /\ c = M.mem[t][i].addr
      BY <1>2 DEF Points
    <2> HIDE DEF c
    <2>3. c \in PAGE /\ lev[c] = "dir"
      <3>1. c \in PAGE /\ lev[c] = Below(lev[t])
        BY <1>1, <2>2, Child
      <3> QED  BY <3>1 DEF Below
    <2>4. Allowed(M, lev, c, PDX(va))
      BY <2>2, <2>3, DirectoryAllowed
    <2>5. PICK lev2 : /\ WalkEnds(M, lev, ext, out, W, lev2)
                      /\ W.pte # NULL => \E pt \in PAGE : /\ W.pte = <<pt, PTX(va)>> /\ lev2[pt] = "pt"
                                                         /\ PathD(W.m, c, va, pt)
      BY <2>1, <2>3, <2>4, PgdirWalk
    <2>6. W.m.mem[t][i] = M.mem[t][i]
      BY <1>1, <2>2, <2>5 DEF WalkEnds, Extends
    <2>7. \A pt : PathD(W.m, c, va, pt) => PathP(W.m, t, va, pt)
      BY <1>2, <2>2, <2>6 DEF PathP, Present
    <2> QED  BY <2>5, <2>7
  <1>3. CASE ~Present(M, t, i) /\ M.free = <<>>
    <2>1. W = Walked(M, NULL)
      BY <1>3 DEF WalkP, pdpe_walk
    <2>2. W.m = M /\ W.pte = NULL
      BY <2>1 DEF Walked
    <2>3. WalkEnds(M, lev, ext, out, W, lev)
      BY <2>2, ExtendsSame DEF WalkEnds
    <2> QED  BY <2>2, <2>3
  <1>4. CASE ~Present(M, t, i) /\ M.free # <<>>
    <2> DEFINE h == Head(M.free)
               M2 == new_table(M, t, i)
               lev2 == Down1(lev, t, h)
               V == WalkD(M2, M2.mem[t][i].addr, va)
    <2>1. W = IF V.pte = NULL THEN Walked(drop_table(V.m, t, i), NULL) ELSE V
      BY <1>4 DEF WalkP, WalkD, pdpe_walk
    <2>2. Room(M, lev, t, i) /\ Adds(M, lev, t, i, h, M2, lev2)
      BY <1>4 DEF Room, Adds, Allowed, Reached
    <2>3. V = WalkD(M2, M2.mem[t][i].addr, va)
      OBVIOUS
    <2> HIDE DEF h, M2, lev2, V
    <2>4. Heap(M2, lev2, ext, out) /\ Extends(M, lev, M2, lev2) /\ Added(M, lev, t, i, h, M2, lev2)
      BY <1>1, <2>2, NewTable
    <2>5. h \in PAGE /\ M2.mem[t][i] = Link(h) /\ lev2[h] = "dir" /\ lev2[t] = "pdpt"
      BY <2>4 DEF Added, UserPages, Below
    <2>6. M2.mem[t][i].addr = h /\ Points(M2, lev2, t, i)
      BY <2>5, Entries DEF Points, Present
    <2>7. Allowed(M2, lev2, h, PDX(va))
      BY <2>4, <2>5, <2>6, DirectoryAllowed
    <2>8. V = WalkD(M2, h, va)
      BY <2>3, <2>6
    <2>9. PICK lev3 : /\ WalkEnds(M2, lev2, ext, out, V, lev3)
                      /\ V.pte # NULL => \E pt \in PAGE : /\ V.pte = <<pt, PTX(va)>> /\ lev3[pt] = "pt"
                                                         /\ PathD(V.m, h, va, pt)
      BY <2>4, <2>5, <2>7, <2>8, PgdirWalk
    <2>10. CASE V.pte = NULL
      <3>1. Heap(V.m, lev2, ext, out) /\ Untouched(M2, lev2, V.m, lev2)
        BY <2>9, <2>10 DEF WalkEnds, Untouched
      <3> DEFINE M4 == drop_table(V.m, t, i)
      <3>2. W = Walked(M4, NULL) /\ M4 = drop_table(V.m, t, i)
        BY <2>1, <2>10
      <3> HIDE DEF M4
      <3>3. Heap(M4, lev, ext, out) /\ Untouched(M, lev, M4, lev)
        BY <1>1, <2>2, <3>1, <3>2, Undone
      <3>4. W.m = M4 /\ W.pte = NULL
        BY <3>2 DEF Walked
      <3>5. WalkEnds(M, lev, ext, out, W, lev)
        BY <3>3, <3>4, UntouchedExtends, UntouchedMap DEF WalkEnds
      <3> QED  BY <3>4, <3>5
    <2>11. CASE V.pte # NULL
      <3>1. W = V
        BY <2>1, <2>11
      <3>2. Heap(V.m, lev3, ext, out) /\ Extends(M2, lev2, V.m, lev3) /\ SameMap(M2, lev2, V.m)
        BY <2>9 DEF WalkEnds
      <3>3. Extends(M, lev, V.m, lev3)
        BY <2>4, <3>2, ExtendsTwice
      <3>7. SameMap(M, lev, V.m)
        <4>1. SameMap(M, lev, M2)
          BY <1>1, <2>2, <2>4, AddedMap
        <4>2. \A u \in PAGE : lev[u] = "root" => lev2[u] = "root"
          BY <2>4 DEF Extends
        <4> QED  BY <3>2, <4>1, <4>2, SameTwice
      <3>4. WalkEnds(M, lev, ext, out, W, lev3)
        BY <2>11, <3>1, <3>2, <3>3, <3>7 DEF WalkEnds
      <3>5. V.m.mem[t][i] = M2.mem[t][i]
        BY <1>1, <2>6, <3>2 DEF Extends
      <3>6. \A pt : PathD(V.m, h, va, pt) => PathP(V.m, t, va, pt)
        BY <2>6, <3>5 DEF PathP, Present, Points
      <3> QED  BY <2>9, <3>1, <3>4, <3>6
    <2> QED  BY <2>10, <2>11
  <1> QED  BY <1>2, <1>3, <1>4

\* pml4e_walk() does, from the top-level table.
LEMMA Pml4eWalk ==
    ASSUME NEW M, NEW lev, NEW ext, NEW out, Heap(M, lev, ext, out),
           NEW t \in PAGE, lev[t] = "root", NEW va \in Address, Reached(va),
           NEW W, W = WalkR(M, t, va)
    PROVE  \E lev2 : /\ WalkEnds(M, lev, ext, out, W, lev2)
                     /\ W.pte # NULL => \E pt \in PAGE : /\ W.pte = <<pt, PTX(va)>> /\ lev2[pt] = "pt"
                                                        /\ PathR(W.m, t, va, pt)
  <1> DEFINE i == PML4(va)
  <1>1. i \in Index /\ i = 0
    BY AddressParts DEF Reached
  <1>2. CASE Present(M, t, i)
    <2> DEFINE c == M.mem[t][i].addr
    <2>1. W = WalkP(M, c, va)
      BY <1>2 DEF WalkR, WalkP, pml4e_walk
    <2>2. Points(M, lev, t, i) /\ c = M.mem[t][i].addr
      BY <1>1, <1>2 DEF Points
    <2> HIDE DEF c
    <2>3. c \in PAGE /\ lev[c] = "pdpt"
      <3>1. c \in PAGE /\ lev[c] = Below(lev[t])
        BY <1>1, <2>2, Child
      <3> QED  BY <3>1 DEF Below
    <2>5. PICK lev2 : /\ WalkEnds(M, lev, ext, out, W, lev2)
                      /\ W.pte # NULL => \E pt \in PAGE : /\ W.pte = <<pt, PTX(va)>> /\ lev2[pt] = "pt"
                                                         /\ PathP(W.m, c, va, pt)
      BY <2>1, <2>3, PdpeWalk
    <2>6. W.m.mem[t][i] = M.mem[t][i]
      BY <1>1, <2>2, <2>5 DEF WalkEnds, Extends
    <2>7. \A pt : PathP(W.m, c, va, pt) => PathR(W.m, t, va, pt)
      BY <1>2, <2>2, <2>6 DEF PathR, Present
    <2> QED  BY <2>5, <2>7
  <1>3. CASE ~Present(M, t, i) /\ M.free = <<>>
    <2>1. W = Walked(M, NULL)
      BY <1>3 DEF WalkR, pml4e_walk
    <2>2. W.m = M /\ W.pte = NULL
      BY <2>1 DEF Walked
    <2>3. WalkEnds(M, lev, ext, out, W, lev)
      BY <2>2, ExtendsSame DEF WalkEnds
    <2> QED  BY <2>2, <2>3
  <1>4. CASE ~Present(M, t, i) /\ M.free # <<>>
    <2> DEFINE h == Head(M.free)
               M2 == new_table(M, t, i)
               lev2 == Down1(lev, t, h)
               V == WalkP(M2, M2.mem[t][i].addr, va)
    <2>1. W = IF V.pte = NULL THEN Walked(drop_table(V.m, t, i), NULL) ELSE V
      BY <1>4 DEF WalkR, WalkP, pml4e_walk
    <2>2. Room(M, lev, t, i) /\ Adds(M, lev, t, i, h, M2, lev2)
      BY <1>1, <1>4 DEF Room, Adds, Allowed
    <2>3. V = WalkP(M2, M2.mem[t][i].addr, va)
      OBVIOUS
    <2> HIDE DEF h, M2, lev2, V
    <2>4. Heap(M2, lev2, ext, out) /\ Extends(M, lev, M2, lev2) /\ Added(M, lev, t, i, h, M2, lev2)
      BY <1>1, <2>2, NewTable
    <2>5. h \in PAGE /\ M2.mem[t][i] = Link(h) /\ lev2[h] = "pdpt" /\ lev2[t] = "root"
      BY <2>4 DEF Added, UserPages, Below
    <2>6. M2.mem[t][i].addr = h /\ Points(M2, lev2, t, i)
      BY <1>1, <2>5, Entries DEF Points, Present
    <2>8. V = WalkP(M2, h, va)
      BY <2>3, <2>6
    <2>9. PICK lev3 : /\ WalkEnds(M2, lev2, ext, out, V, lev3)
                      /\ V.pte # NULL => \E pt \in PAGE : /\ V.pte = <<pt, PTX(va)>> /\ lev3[pt] = "pt"
                                                         /\ PathP(V.m, h, va, pt)
      BY <2>4, <2>5, <2>8, PdpeWalk
    <2>10. CASE V.pte = NULL
      <3>1. Heap(V.m, lev2, ext, out) /\ Untouched(M2, lev2, V.m, lev2)
        BY <2>9, <2>10 DEF WalkEnds, Untouched
      <3> DEFINE M4 == drop_table(V.m, t, i)
      <3>2. W = Walked(M4, NULL) /\ M4 = drop_table(V.m, t, i)
        BY <2>1, <2>10
      <3> HIDE DEF M4
      <3>3. Heap(M4, lev, ext, out) /\ Untouched(M, lev, M4, lev)
        BY <1>1, <2>2, <3>1, <3>2, Undone
      <3>4. W.m = M4 /\ W.pte = NULL
        BY <3>2 DEF Walked
      <3>5. WalkEnds(M, lev, ext, out, W, lev)
        BY <3>3, <3>4, UntouchedExtends, UntouchedMap DEF WalkEnds
      <3> QED  BY <3>4, <3>5
    <2>11. CASE V.pte # NULL
      <3>1. W = V
        BY <2>1, <2>11
      <3>2. Heap(V.m, lev3, ext, out) /\ Extends(M2, lev2, V.m, lev3) /\ SameMap(M2, lev2, V.m)
        BY <2>9 DEF WalkEnds
      <3>3. Extends(M, lev, V.m, lev3)
        BY <2>4, <3>2, ExtendsTwice
      <3>7. SameMap(M, lev, V.m)
        <4>1. SameMap(M, lev, M2)
          BY <1>1, <2>2, <2>4, AddedMap
        <4>2. \A u \in PAGE : lev[u] = "root" => lev2[u] = "root"
          BY <2>4 DEF Extends
        <4> QED  BY <3>2, <4>1, <4>2, SameTwice
      <3>4. WalkEnds(M, lev, ext, out, W, lev3)
        BY <2>11, <3>1, <3>2, <3>3, <3>7 DEF WalkEnds
      <3>5. V.m.mem[t][i] = M2.mem[t][i]
        BY <1>1, <2>6, <3>2 DEF Extends
      <3>6. \A pt : PathP(V.m, h, va, pt) => PathR(V.m, t, va, pt)
        BY <2>6, <3>5 DEF PathR, Present, Points
      <3> QED  BY <2>9, <3>1, <3>4, <3>6
    <2> QED  BY <2>10, <2>11
  <1> QED  BY <1>2, <1>3, <1>4

(***************************************************************************)
(* page_remove(), page_insert() and page_free().                           *)
(***************************************************************************)
LEMMA SameMemory ==
    ASSUME NEW M \in MemType, NEW M2 \in MemType, M2.ref = M.ref, M2.free = M.free,
           M2.mem = M.mem, M2.panic = M.panic
    PROVE  M2 = M
  <1>1. /\ M = [ref |-> M.ref, free |-> M.free, mem |-> M.mem, panic |-> M.panic]
        /\ M2 = [ref |-> M2.ref, free |-> M2.free, mem |-> M2.mem, panic |-> M2.panic]
    BY DEF MemType
  <1> QED  BY <1>1

\* A walk along tables that exist creates nothing.
LEMMA WalkExisting ==
    ASSUME NEW M, NEW r, NEW va, NEW pt, PathR(M, r, va, pt)
    PROVE  WalkR(M, r, va) = Walked(M, <<pt, PTX(va)>>)
  <1> DEFINE c == M.mem[r][PML4(va)].addr
             d == M.mem[c][PDPE(va)].addr
  <1>1. Present(M, r, PML4(va)) /\ Present(M, c, PDPE(va)) /\ Present(M, d, PDX(va)) /\ M.mem[d][PDX(va)].addr = pt
    BY Zenon DEF PathR, PathP, PathD
  <1>2. WalkD(M, d, va) = Walked(M, <<pt, PTX(va)>>)
    BY <1>1, Zenon DEF WalkD, pgdir_walk
  <1>3. WalkP(M, c, va) = WalkD(M, d, va)
    BY <1>1, Zenon DEF WalkD, WalkP, pdpe_walk
  <1>4. WalkR(M, r, va) = WalkP(M, c, va)
    BY <1>1, Zenon DEF WalkR, WalkP, pml4e_walk
  <1> QED  BY <1>2, <1>3, <1>4

\* What page_remove() makes of entry i of table t, which points to page p.
Removed(M, t, i, p) == [page_decref(M, p) EXCEPT !.mem[t][i] = Zero]

\* page_remove() of a mapped address creates no table: it clears the entry
\* and gives the reference back.
LEMMA RemovedIs ==
    ASSUME NEW M, NEW r, NEW va \in Address, NEW pt \in PAGE, PathR(M, r, va, pt)
    PROVE  page_remove(M, r, va) = Removed(M, pt, PTX(va), M.mem[pt][PTX(va)].addr)
  <1> DEFINE W == WalkR(M, r, va)
  <1>1. W = Walked(M, <<pt, PTX(va)>>)
    BY WalkExisting
  <1>2. page_remove(M, r, va) = IF W.pte = NULL THEN W.m
                                ELSE Removed(W.m, W.pte[1], W.pte[2], At(W.m, W.pte).addr)
    BY DEF page_remove, page_lookup, WalkR, Removed
  <1> HIDE DEF W
  <1>3. W.m = M /\ W.pte = <<pt, PTX(va)>>
    BY <1>1 DEF Walked
  <1>4. W.pte # NULL
    BY <1>3, AddressParts, Constants
  <1>5. W.pte[1] = pt /\ W.pte[2] = PTX(va) /\ At(W.m, W.pte) = M.mem[pt][PTX(va)]
    BY <1>3 DEF At
  <1>6. page_remove(M, r, va) = Removed(W.m, W.pte[1], W.pte[2], At(W.m, W.pte).addr)
    BY <1>2, <1>4, Zenon
  <1> QED  BY <1>3, <1>5, <1>6, Zenon

\* Page p is no table, or one without entries that count.
Empty(M, lev, p) == \A j \in Index : ~Points(M, lev, p, j)

Detached(M, lev, ext, out, t, i, p, R) ==
    /\ Heap(R, [lev EXCEPT ![p] = "no"], ext, out)
    /\ R = page_decref([M EXCEPT !.mem[t][i] = Zero], p)
    /\ R.mem = [M.mem EXCEPT ![t] = [M.mem[t] EXCEPT ![i] = Zero]]

\* An entry is emptied and its page given back, in either order.
LEMMA DetachKeeps ==
    ASSUME NEW M, NEW lev, NEW ext, NEW out, Heap(M, lev, ext, out),
           NEW t \in PAGE, NEW i \in Index, Points(M, lev, t, i),
           NEW p, p = M.mem[t][i].addr, Empty(M, lev, p),
           NEW R, R = Removed(M, t, i, p)
    PROVE  Detached(M, lev, ext, out, t, i, p, R)
  <1> DEFINE A == [M EXCEPT !.mem[t][i] = Zero]
             more == [ext EXCEPT ![p] = ext[p] + 1]
             D == page_decref(M, p)
             B == page_decref(A, p)
  <1>2. p \in UserPages /\ p \in PAGE
    BY Child
  <1>3. Heap(A, lev, more, out)
    BY ClearKeeps
  <1>4. M \in MemType /\ Zero \in Entry /\ lev \in [PAGE -> Level] /\ ext \in [PAGE -> Nat]
    BY HeapParts, Entries
  <1>5. /\ A.ref = M.ref /\ A.free = M.free /\ A.panic = M.panic
        /\ A.mem = [M.mem EXCEPT ![t] = [M.mem[t] EXCEPT ![i] = Zero]]
    BY <1>4, EntryParts
  <1>6. A \in MemType
    BY <1>3, HeapParts
  <1>7. \A j \in Index : ~Points(A, lev, p, j)
    <2>1. p # t
      BY DEF Empty
    <2>2. A.mem[p] = M.mem[p]
      BY <1>2, <1>4, <2>1, EntryValues
    <2> HIDE DEF A
    <2> QED  BY <2>2, Zenon DEF Points, Present, Empty
  <1> HIDE DEF A
  <1>8. more[p] > 0 /\ [more EXCEPT ![p] = more[p] - 1] = ext
    <2>1. more[p] = ext[p] + 1 /\ more[p] - 1 = ext[p] /\ more[p] > 0
      BY <1>2, <1>4
    <2>2. [more EXCEPT ![p] = ext[p]] = ext
      BY <1>2, <1>4
    <2> QED  BY <2>1, <2>2
  <1> HIDE DEF more
  <1>9. /\ Heap(B, [lev EXCEPT ![p] = "no"], [more EXCEPT ![p] = more[p] - 1], out)
        /\ A.ref[p] > 0 /\ ~Listed(A, p)
    BY <1>2, <1>3, <1>7, <1>8, DropKeeps
  <1>10. Heap(B, [lev EXCEPT ![p] = "no"], ext, out)
    BY <1>8, <1>9
  <1>11. M.ref[p] > 0 /\ ~Listed(M, p)
    BY <1>5, <1>9, Zenon DEF Listed
  <1>12. /\ B \in MemType /\ B.ref = [A.ref EXCEPT ![p] = A.ref[p] - 1]
         /\ B.free = IF A.ref[p] = 1 THEN <<p>> \o A.free ELSE A.free
         /\ B.mem = A.mem /\ B.panic = A.panic
    <2>1. A.ref[p] > 0 /\ ~Listed(A, p)
      BY <1>9
    <2> QED  BY <1>2, <1>6, <2>1, DecrefParts
  <1>13. /\ D \in MemType /\ D.ref = [M.ref EXCEPT ![p] = M.ref[p] - 1]
         /\ D.free = IF M.ref[p] = 1 THEN <<p>> \o M.free ELSE M.free
         /\ D.mem = M.mem /\ D.panic = M.panic
    BY <1>2, <1>4, <1>11, DecrefParts
  <1>14. R = [D EXCEPT !.mem[t][i] = Zero]
    BY DEF Removed
  <1> HIDE DEF B, D
  <1>15. /\ R \in MemType /\ R.ref = D.ref /\ R.free = D.free /\ R.panic = D.panic
         /\ R.mem = [D.mem EXCEPT ![t] = [D.mem[t] EXCEPT ![i] = Zero]]
    <2> DEFINE X == [D EXCEPT !.mem[t][i] = Zero]
    <2>1. D \in MemType /\ Zero \in Entry
      BY <1>4, <1>13
    <2>2. /\ X \in MemType /\ X.ref = D.ref /\ X.free = D.free /\ X.panic = D.panic
          /\ X.mem = [D.mem EXCEPT ![t] = [D.mem[t] EXCEPT ![i] = Zero]]
      BY <2>1, EntryParts
    <2>3. R = X
      BY <1>14
    <2> HIDE DEF X
    <2> QED  BY <2>2, <2>3
  <1>16. R.ref = B.ref /\ R.free = B.free /\ R.mem = B.mem /\ R.panic = B.panic
    <2>1. R.ref = B.ref
      <3>1. R.ref = [M.ref EXCEPT ![p] = M.ref[p] - 1]
        BY <1>13, <1>15
      <3>2. B.ref = [A.ref EXCEPT ![p] = A.ref[p] - 1] /\ A.ref = M.ref
        BY <1>5, <1>12
      <3> QED  BY <3>1, <3>2, Zenon
    <2>2. R.free = B.free
      <3>1. R.free = D.free /\ D.free = IF M.ref[p] = 1 THEN <<p>> \o M.free ELSE M.free
        BY <1>13, <1>15
      <3>2. B.free = IF A.ref[p] = 1 THEN <<p>> \o A.free ELSE A.free
        BY <1>12
      <3>3. A.ref[p] = M.ref[p] /\ A.free = M.free
        BY <1>5
      <3> QED  BY <3>1, <3>2, <3>3, Zenon
    <2>3. R.mem = B.mem /\ R.panic = B.panic
      <3>1. R.mem = [M.mem EXCEPT ![t] = [M.mem[t] EXCEPT ![i] = Zero]] /\ R.panic = M.panic
        BY <1>13, <1>15
      <3>2. B.mem = [M.mem EXCEPT ![t] = [M.mem[t] EXCEPT ![i] = Zero]] /\ B.panic = M.panic
        BY <1>5, <1>12
      <3> QED  BY <3>1, <3>2
    <2> QED  BY <2>1, <2>2, <2>3
  <1>17. R = B
    BY <1>12, <1>15, <1>16, SameMemory, Zenon
  <1>18. R.mem = [M.mem EXCEPT ![t] = [M.mem[t] EXCEPT ![i] = Zero]]
    BY <1>5, <1>12, <1>17
  <1> QED  BY <1>10, <1>17, <1>18 DEF A, B, Detached

\* The entry of a page table is emptied and its page given back.
LEMMA RemoveKeeps ==
    ASSUME NEW M, NEW lev, NEW ext, NEW out, Heap(M, lev, ext, out),
           NEW t \in PAGE, lev[t] = "pt", NEW i \in Index, Present(M, t, i),
           NEW p, p = M.mem[t][i].addr,
           NEW R, R = Removed(M, t, i, p)
    PROVE  /\ Heap(R, lev, ext, out)
           /\ R.mem = [M.mem EXCEPT ![t] = [M.mem[t] EXCEPT ![i] = Zero]]
  <1>1. Points(M, lev, t, i)
    BY DEF Points
  <1>2. p \in PAGE /\ lev[p] = "no"
    <2>1. p \in PAGE /\ lev[p] = Below(lev[t])
      BY <1>1, Child
    <2> QED  BY <2>1 DEF Below
  <1>3. Empty(M, lev, p)
    BY <1>2 DEF Points, Empty
  <1>4. [lev EXCEPT ![p] = "no"] = lev
    <2>1. lev \in [PAGE -> Level]
      BY HeapParts
    <2> QED  BY <1>2, <2>1
  <1>5. /\ Heap(R, [lev EXCEPT ![p] = "no"], ext, out)
        /\ R = page_decref([M EXCEPT !.mem[t][i] = Zero], p)
        /\ R.mem = [M.mem EXCEPT ![t] = [M.mem[t] EXCEPT ![i] = Zero]]
    <2>1. Detached(M, lev, ext, out, t, i, p, R)
      BY <1>1, <1>3, DetachKeeps
    <2> QED  BY <2>1 DEF Detached
  <1> QED  BY <1>4, <1>5

\* What page_free() of a page that is not on the list leaves of the memory.
Given(M, p, R) == R.ref = M.ref /\ R.mem = M.mem /\ R.free = <<p>> \o M.free

\* page_free() of a page that page_alloc() has just given.
LEMMA FreeKeeps ==
    ASSUME NEW M, NEW lev, NEW ext, NEW out, Heap(M, lev, ext, out), NEW p \in out
    PROVE  /\ Heap(page_free(M, p), lev, ext, out \ {p})
           /\ Given(M, p, page_free(M, p))
  <1> DEFINE A == page_free(M, p)
             f == <<p>> \o M.free
  <1>1. /\ M \in MemType /\ M.panic = FALSE /\ lev \in [PAGE -> Level] /\ ext \in [PAGE -> Nat]
        /\ out \in SUBSET UserPages /\ M.free \in Seq(PAGE) /\ p \in PAGE /\ p \in UserPages
    BY HeapParts, Parts DEF UserPages
  <1>2. CountsExact(M, lev, ext) /\ FreeExact(M, lev, out) /\ TablesOnce(M, lev, ext)
    BY HeapParts
  <1>3. TreeShape(M, lev) /\ KernelKept(M, lev) /\ WithinReach(M, lev)
    BY HeapParts
  <1>4. M.ref[p] = 0 /\ ~Listed(M, p)
    BY <1>1, <1>2 DEF FreeExact
  <1>5. ~Linked(M, p)
    <2>1. Len(M.free) \in Nat
      BY <1>1
    <2> QED  BY <1>4, <2>1 DEF Linked, Listed
  <1>6. M = [ref |-> M.ref, free |-> M.free, mem |-> M.mem, panic |-> M.panic]
    BY <1>1 DEF MemType
  <1>7. A = [M EXCEPT !.free = f]
    BY <1>4, <1>5 DEF page_free
  <1> HIDE DEF A, f
  <1>8. A = [[ref |-> M.ref, free |-> M.free, mem |-> M.mem, panic |-> M.panic] EXCEPT !.free = f]
    BY <1>6, <1>7
  <1>9. A = [ref |-> M.ref, free |-> f, mem |-> M.mem, panic |-> M.panic]
    BY <1>8
  <1>10. A.ref = M.ref /\ A.free = f /\ A.mem = M.mem /\ A.panic = M.panic
    BY <1>9
  <1>11. f \in Seq(PAGE)
    BY <1>1 DEF f
  <1>12. A \in MemType
    BY <1>1, <1>9, <1>11, Parts DEF MemType
  <1>13. Agree(M, lev, A)
    BY <1>10 DEF Agree, Points, Present
  <1>14. (\A q : Slots(A, lev, q) = Slots(M, lev, q)) /\ TreeShape(A, lev) /\ WithinReach(A, lev)
    BY <1>1, <1>3, <1>13, AgreeKeeps
  <1>15. CountsExact(A, lev, ext)
    BY <1>2, <1>10, <1>14 DEF CountsExact
  <1>16. TablesOnce(A, lev, ext)
    BY <1>2, <1>10 DEF TablesOnce
  <1>17. KernelKept(A, lev)
    BY <1>3, <1>10 DEF KernelKept
  <1>18. FreeExact(A, lev, out \ {p})
    <2>1. /\ \A i, j \in 1 .. Len(M.free) : M.free[i] = M.free[j] => i = j
          /\ ~ \E i \in 1 .. Len(M.free) : M.free[i] = p
      BY <1>2, <1>4 DEF FreeExact, Listed
    <2>2. /\ \A i, j \in 1 .. Len(f) : f[i] = f[j] => i = j
          /\ \A q : (\E i \in 1 .. Len(f) : f[i] = q) <=> (\E i \in 1 .. Len(M.free) : M.free[i] = q) \/ q = p
      BY <1>1, <2>1, ConsList DEF f
    <2>3. /\ \A i, j \in 1 .. Len(A.free) : A.free[i] = A.free[j] => i = j
          /\ \A q : Listed(A, q) <=> Listed(M, q) \/ q = p
      BY <1>10, <2>2 DEF Listed
    <2> QED  BY <1>1, <1>2, <1>4, <1>10, <2>3 DEF FreeExact
  <1>19. out \ {p} \in SUBSET UserPages
    BY <1>1
  <1>20. A.panic = FALSE
    BY <1>1, <1>10
  <1>21. Heap(A, lev, ext, out \ {p})
    BY <1>1, <1>12, <1>14, <1>15, <1>16, <1>17, <1>18, <1>19, <1>20, HeapIs
  <1> QED  BY <1>10, <1>21 DEF A, f, Given

LEMMA PathSame ==
    ASSUME NEW M, NEW M2, M2.mem = M.mem, NEW r, NEW va, NEW pt, PathR(M, r, va, pt)
    PROVE  PathR(M2, r, va, pt)
  BY Zenon DEF PathR, PathP, PathD, Present

\* page_remove() keeps the invariant, and the tables on the way.
LEMMA RemoveAt ==
    ASSUME NEW M, NEW lev, NEW ext, NEW out, Heap(M, lev, ext, out),
           NEW r, NEW va \in Address, NEW pt \in PAGE, lev[pt] = "pt",
           PathR(M, r, va, pt), Present(M, pt, PTX(va)), NEW R, R = page_remove(M, r, va)
    PROVE  /\ Heap(R, lev, ext, out)
           /\ R.mem = [M.mem EXCEPT ![pt] = [M.mem[pt] EXCEPT ![PTX(va)] = Zero]]
  <1> DEFINE i == PTX(va)
             p == M.mem[pt][i].addr
  <1>1. R = Removed(M, pt, i, p)
    BY RemovedIs, Zenon
  <1>2. i \in Index /\ Present(M, pt, i) /\ p = M.mem[pt][i].addr
    BY AddressParts
  <1>3. R.mem = [M.mem EXCEPT ![pt] = [M.mem[pt] EXCEPT ![i] = Zero]] /\ Heap(R, lev, ext, out)
    <2> HIDE DEF i, p
    <2> QED  BY <1>1, <1>2, RemoveKeeps
  <1> QED  BY <1>3

\* A page whose count page_insert() may raise: a fresh one, or one with data.
Countable(M, lev, out, p) ==
    /\ p \in UserPages
    /\ p \in out \/ (M.ref[p] > 0 /\ lev[p] = "no" /\ M.ref[p] + 1 < RefMod)

LEMMA CountableKept ==
    ASSUME NEW M, NEW lev, NEW ext, NEW out, NEW p, Countable(M, lev, out, p),
           NEW M2, NEW lev2, Heap(M2, lev2, ext, out), Extends(M, lev, M2, lev2)
    PROVE  /\ p \in UserPages /\ p \in PAGE /\ lev2[p] = "no" /\ M2.ref[p] + 1 < RefMod
           /\ p \in out \/ M2.ref[p] > 0
  <1>1. p \in UserPages /\ p \in PAGE
    BY DEF Countable, UserPages
  <1>2. CASE p \in out
    <2>1. M2.ref[p] = 0
      BY <1>2, HeapParts DEF FreeExact
    <2>2. lev2[p] = "no"
      BY <1>1, <2>1, Unreferenced
    <2>3. 0 + 1 < RefMod
      BY Constants
    <2> QED  BY <1>1, <1>2, <2>1, <2>2, <2>3
  <1>3. CASE p \notin out
    <2>1. M.ref[p] > 0 /\ lev[p] = "no" /\ M.ref[p] + 1 < RefMod
      BY <1>3 DEF Countable
    <2> QED  BY <1>1, <2>1 DEF Extends
  <1> QED  BY <1>2, <1>3

Ok(m) == [m |-> m, ok |-> TRUE]
Failed(m) == [m |-> m, ok |-> FALSE]

\* Tables stay tables.
Kept(lev, lev2) == \A u \in PAGE : lev[u] # "no" => lev2[u] = lev[u]

\* A page that is inserted again where it is: the reference that page_insert()
\* adds first is the one that page_remove() gives back.
LEMMA InsertAgain ==
    ASSUME NEW M, NEW lev, NEW ext, NEW out, Heap(M, lev, ext, out),
           NEW r \in PAGE, NEW va \in Address, NEW pt \in PAGE, PathR(M, r, va, pt),
           NEW p \in PAGE, p = M.mem[pt][PTX(va)].addr, M.ref[p] > 0, M.ref[p] + 1 < RefMod
    PROVE  /\ page_remove(incref(M, p), r, va).ref = M.ref
           /\ page_remove(incref(M, p), r, va).free = M.free
  <1> DEFINE C == incref(M, p)
             D == page_remove(C, r, va)
             E == page_decref(C, p)
  <1>1. M \in MemType /\ FreeExact(M, lev, out)
    BY HeapParts
  <1>2. C \in MemType /\ C.mem = M.mem /\ C.free = M.free /\ C.ref = [M.ref EXCEPT ![p] = M.ref[p] + 1]
    BY <1>1, IncrefParts, CountUp
  <1> HIDE DEF C
  <1>3. M.ref \in [PAGE -> 0 .. RefMod - 1] /\ RefMod \in Nat
    BY <1>1, Parts, Constants
  <1>4. C.ref[p] = M.ref[p] + 1 /\ C.ref[p] > 0 /\ C.ref[p] # 1
    <2>1. M.ref[p] \in Nat
      BY <1>3
    <2>2. C.ref[p] = M.ref[p] + 1
      BY <1>2, <1>3, Zenon
    <2> QED  BY <2>1, <2>2
  <1>5. ~Listed(C, p)
    BY <1>1, <1>2 DEF FreeExact, Listed
  <1>6. D = [E EXCEPT !.mem[pt][PTX(va)] = Zero]
    <2>1. PathR(C, r, va, pt)
      BY <1>2, PathSame
    <2>2. C.mem[pt][PTX(va)].addr = p
      BY <1>2
    <2>3. page_remove(C, r, va) = Removed(C, pt, PTX(va), C.mem[pt][PTX(va)].addr)
      BY <2>1, RemovedIs
    <2>4. D = Removed(C, pt, PTX(va), p)
      BY <2>2, <2>3
    <2> QED  BY <2>4, Zenon DEF Removed
  <1>7. E \in MemType /\ E.ref = [C.ref EXCEPT ![p] = C.ref[p] - 1] /\ E.free = C.free
    <2>1. C \in MemType /\ C.ref[p] > 0 /\ ~Listed(C, p)
      BY <1>2, <1>4, <1>5, Zenon
    <2>2. /\ E \in MemType /\ E.ref = [C.ref EXCEPT ![p] = C.ref[p] - 1]
          /\ E.free = IF C.ref[p] = 1 THEN <<p>> \o C.free ELSE C.free
      BY <2>1, DecrefParts, Zenon
    <2> QED  BY <1>4, <2>2, Zenon
  <1> HIDE DEF D, E
  <1>8. D.ref = E.ref /\ D.free = E.free
    BY <1>6, <1>7, AddressParts, Entries, EntryParts
  <1>9. E.ref = M.ref
    <2>1. E.ref = [C.ref EXCEPT ![p] = M.ref[p]]
      <3>1. C.ref[p] - 1 = M.ref[p]
        BY <1>3, <1>4
      <3> QED  BY <1>7, <3>1, Zenon
    <2> QED  BY <1>2, <1>3, <2>1
  <1> QED  BY <1>2, <1>7, <1>8, <1>9, Zenon DEF C, D

\* What page_insert() leaves, with entry x for va, ...
Inserted(M, lev, out, r, va, x, m) ==
    /\ Maps(M, lev, r, va, x, m)
    /\ Leaf(M, r, va) = x /\ x.addr \notin out => m.ref = M.ref /\ m.free = M.free

\* ... and when there was no memory for the tables.
GaveUp(M, lev, m) == SameMap(M, lev, m) /\ m.ref = M.ref /\ m.free = M.free

\* page_insert() keeps the invariant: the page has one reference more, or,
\* when there was no memory for the tables, none.
LEMMA InsertKeeps ==
    ASSUME NEW M, NEW lev, NEW ext, NEW out, Heap(M, lev, ext, out),
           NEW r \in PAGE, lev[r] = "root", NEW va \in Address, Reached(va),
           NEW p, Countable(M, lev, out, p), NEW perm \in SUBSET {"W"},
           NEW x, x = [addr |-> p, perm |-> perm \cup {"P"}],
           NEW I, I = page_insert(M, r, p, va, perm)
    PROVE  \E lev2, m : /\ Kept(lev, lev2)
                        /\ \/ I = Ok(m) /\ Heap(m, lev2, ext, out \ {p}) /\ Inserted(M, lev, out, r, va, x, m)
                           \/ I = Failed(m) /\ Heap(m, lev2, ext, out) /\ GaveUp(M, lev, m)
  <1> DEFINE W == WalkR(M, r, va)
             C == incref(W.m, p)
             D == IF "P" \in At(C, W.pte).perm THEN page_remove(C, r, va) ELSE C
             k == PTX(va)
             less == out \ {p}
  <1>1. I = IF W.pte = NULL THEN Failed(W.m) ELSE Ok([D EXCEPT !.mem[W.pte[1]][W.pte[2]] = x])
    BY DEF page_insert, WalkR, Ok, Failed
  <1>2. W = WalkR(M, r, va) /\ C = incref(W.m, p)
    OBVIOUS
  <1>3. D = IF "P" \in At(C, W.pte).perm THEN page_remove(C, r, va) ELSE C
    OBVIOUS
  <1> HIDE DEF W, C, D
  <1>4. PICK lev2 : /\ WalkEnds(M, lev, ext, out, W, lev2)
                    /\ W.pte # NULL => \E pt \in PAGE : /\ W.pte = <<pt, k>> /\ lev2[pt] = "pt"
                                                       /\ PathR(W.m, r, va, pt)
    BY <1>2, Pml4eWalk
  <1>5. Heap(W.m, lev2, ext, out) /\ Extends(M, lev, W.m, lev2) /\ Kept(lev, lev2) /\ SameMap(M, lev, W.m)
    BY <1>4 DEF WalkEnds, Extends, Kept
  <1>6. CASE W.pte = NULL
    <2>1. W.m.ref = M.ref /\ W.m.free = M.free
      BY <1>4, <1>6 DEF WalkEnds, Untouched
    <2>2. GaveUp(M, lev, W.m)
      BY <1>5, <2>1 DEF GaveUp
    <2> QED  BY <1>1, <1>5, <1>6, <2>2
  <1>7. CASE W.pte # NULL
    <2>1. PICK pt \in PAGE : W.pte = <<pt, k>> /\ lev2[pt] = "pt" /\ PathR(W.m, r, va, pt)
      BY <1>4, <1>7
    <2>2. k \in Index /\ k < N - 1
      BY AddressParts DEF Reached
    <2>3. /\ p \in UserPages /\ p \in PAGE /\ lev2[p] = "no" /\ W.m.ref[p] + 1 < RefMod
          /\ p \in out \/ W.m.ref[p] > 0
      BY <1>5, CountableKept
    <2> DEFINE more == [ext EXCEPT ![p] = ext[p] + 1]
    <2>4. Heap(C, lev2, more, less)
      BY <1>2, <1>5, <2>3, IncrefKeeps
    <2>5. C.mem = W.m.mem
      <3>1. W.m \in MemType
        BY <1>5, HeapParts
      <3> QED  BY <1>2, <2>3, <3>1, IncrefParts
    <2>6. ext \in [PAGE -> Nat] /\ lev2 \in [PAGE -> Level]
      BY <1>5, HeapParts
    <2>7. more[p] > 0 /\ [more EXCEPT ![p] = more[p] - 1] = ext /\ Down1(lev2, pt, p) = lev2
      <3>1. more[p] = ext[p] + 1 /\ more[p] - 1 = ext[p] /\ more[p] > 0
        BY <2>3, <2>6
      <3>2. [more EXCEPT ![p] = ext[p]] = ext /\ [lev2 EXCEPT ![p] = "no"] = lev2
        BY <2>3, <2>6
      <3> QED  BY <2>1, <3>1, <3>2 DEF Down1, Below
    <2> HIDE DEF k, less, more
    <2>8. W.pte[1] = pt /\ W.pte[2] = k /\ ("P" \in At(C, W.pte).perm <=> Present(C, pt, k))
      BY <2>1 DEF At, Present
    <2>9. /\ Heap(D, lev2, more, less) /\ ~Present(D, pt, k)
          /\ \A u \in PAGE : u # pt => D.mem[u] = W.m.mem[u]
          /\ \A j \in Index : j # k => D.mem[pt][j] = W.m.mem[pt][j]
      <3>1. CASE Present(C, pt, k)
        <4>1. D = page_remove(C, r, va)
          BY <1>3, <2>8, <3>1
        <4>2. PathR(C, r, va, pt)
          BY <2>1, <2>5, PathSame
        <4>3. Present(C, pt, PTX(va))
          BY <3>1 DEF k
        <4>4. Heap(D, lev2, more, less) /\ D.mem = [C.mem EXCEPT ![pt] = [C.mem[pt] EXCEPT ![PTX(va)] = Zero]]
          BY <2>1, <2>4, <4>1, <4>2, <4>3, RemoveAt
        <4>5. /\ D.mem[pt][k] = Zero /\ \A u \in PAGE : u # pt => D.mem[u] = C.mem[u]
              /\ \A j \in Index : j # k => D.mem[pt][j] = C.mem[pt][j]
          <5>1. C.mem \in [PAGE -> [Index -> Entry]]
            BY <2>4, HeapParts, Parts
          <5> QED  BY <2>1, <2>2, <4>4, <5>1 DEF k
        <4>6. ~Present(D, pt, k)
          BY <4>5, Entries DEF Present
        <4> QED  BY <2>5, <4>4, <4>5, <4>6
      <3>2. CASE ~Present(C, pt, k)
        BY <1>3, <2>4, <2>5, <2>8, <3>2
      <3> QED  BY <3>1, <3>2
    <2>10. x \in Entry /\ "P" \in x.perm /\ x.addr = p
      BY <2>3 DEF Entry
    <2>11. I = Ok([D EXCEPT !.mem[pt][k] = x])
      BY <1>1, <1>7, <2>8
    <2>12. Heap([D EXCEPT !.mem[pt][k] = x], Down1(lev2, pt, x.addr),
                [more EXCEPT ![x.addr] = more[x.addr] - 1], less)
      <3>1. lev2[pt] # "no" /\ Allowed(D, lev2, pt, k)
        BY <2>1, <2>2 DEF Allowed
      <3>2. x.addr \in UserPages /\ lev2[x.addr] = "no" /\ more[x.addr] > 0
        BY <2>3, <2>7, <2>10
      <3> QED  BY <2>1, <2>2, <2>9, <2>10, <3>1, <3>2, SetKeeps
    <2>13. Heap([D EXCEPT !.mem[pt][k] = x], lev2, ext, less)
      BY <2>7, <2>10, <2>12
    <2> DEFINE m == [D EXCEPT !.mem[pt][k] = x]
    <2>14. D \in MemType /\ m.ref = D.ref /\ m.free = D.free
      <3>1. D \in MemType
        BY <2>9, HeapParts
      <3> QED  BY <2>2, <2>10, <3>1, EntryParts
    <2>15. /\ m.mem[pt][k] = x /\ \A u \in PAGE : u # pt => m.mem[u] = W.m.mem[u]
           /\ \A j \in Index : j # k => m.mem[pt][j] = W.m.mem[pt][j]
      <3>1. /\ m.mem[pt][k] = x /\ \A u \in PAGE : u # pt => m.mem[u] = D.mem[u]
            /\ \A u \in PAGE, j \in Index : u # pt \/ j # k => m.mem[u][j] = D.mem[u][j]
        BY <2>2, <2>10, <2>14, EntryValues
      <3> HIDE DEF m
      <3> QED  BY <2>9, <3>1
    <2>16. I = Ok(m) /\ Heap(m, lev2, ext, out \ {p})
      BY <2>11, <2>13 DEF less
    <2> HIDE DEF m
    <2>17. PML4(va) = 0
      BY DEF Reached
    <2>18. Maps(M, lev, r, va, x, m)
      <3>1. lev2[r] = "root" /\ \A s \in PAGE : lev[s] = "root" => lev2[s] = "root"
        BY <1>5 DEF Kept
      <3>2. Maps(W.m, lev2, r, va, x, m)
        BY <1>5, <2>1, <2>15, <2>17, <3>1, SetMap DEF k
      <3> QED  BY <1>5, <3>1, <3>2 DEF Maps, SameMap
    <2>19. ASSUME Leaf(M, r, va) = x, p \notin out PROVE m.ref = M.ref /\ m.free = M.free
      <3>1. PICK q : PathR(M, r, va, q)
        BY <2>10, <2>19, LeafNone, Entries
      <3>2. W = Walked(M, <<q, PTX(va)>>)
        BY <1>2, <3>1, WalkExisting
      <3>3. W.m = M /\ q = pt /\ PathR(M, r, va, pt)
        BY <2>1, <3>1, <3>2 DEF Walked
      <3>4. M.mem[pt][PTX(va)] = x
        BY <2>19, <3>3, LeafAt
      <3>5. Present(C, pt, k) /\ M.mem[pt][PTX(va)].addr = p
        BY <2>5, <2>10, <3>3, <3>4 DEF Present, k
      <3>6. D = page_remove(C, r, va) /\ C = incref(M, p)
        BY <1>2, <1>3, <2>8, <3>3, <3>5
      <3>7. M.ref[p] > 0 /\ M.ref[p] + 1 < RefMod
        BY <2>3, <2>19, <3>3
      <3>8. D.ref = M.ref /\ D.free = M.free
        BY <2>3, <3>3, <3>5, <3>6, <3>7, InsertAgain
      <3> QED  BY <2>14, <3>8
    <2>20. Inserted(M, lev, out, r, va, x, m)
      BY <2>10, <2>18, <2>19 DEF Inserted
    <2> QED  BY <1>5, <2>16, <2>20
  <1> QED  BY <1>6, <1>7

(***************************************************************************)
(* The loops of env_free().                                                *)
(***************************************************************************)
LEMMA NumbersByInduction ==
    ASSUME NEW S \in SUBSET Nat, 0 \in S, \A n \in S : n + 1 \in S
    PROVE  Nat \subseteq S
  <1> DEFINE T == Nat \ S
             R == OpToRel(<, Nat)
  <1>1. SUFFICES ASSUME T # {} PROVE FALSE
    OBVIOUS
  <1>2. PICK x \in T : \A y \in T : ~(<<y, x>> \in R)
    <2>1. IsWellFoundedOn(R, Nat)
      BY NatLessThanWellFounded
    <2>2. T \subseteq Nat
      OBVIOUS
    <2> HIDE DEF R, T
    <2> QED  BY <1>1, <2>1, <2>2, WFMin
  <1>3. \A y \in T : ~(y < x)
    BY <1>2 DEF OpToRel
  <1>4. x \in Nat /\ x # 0 /\ x - 1 \in Nat
    OBVIOUS
  <1>5. x - 1 \in S
    BY <1>3, <1>4
  <1> QED  BY <1>4, <1>5

Leads(G, n, next) == \A k \in 0 .. n - 1 : \A m \in G[k] : next[<<m, k>>] \in G[k + 1]

\* Steps that lead from each set to the next one can be taken one after the other.
LEMMA Iterates ==
    ASSUME NEW n \in Nat, NEW G, NEW M, M \in G[0], NEW next, Leads(G, n, next)
    PROVE  \E f : /\ f = [k \in 0 .. n |-> f[k]] /\ f[0] = M
                  /\ \A k \in 1 .. n : f[k - 1] \in G[k - 1] /\ f[k] = next[<<f[k - 1], k - 1>>]
  <1> DEFINE Upto(m, g) == /\ g = [k \in 0 .. m |-> g[k]] /\ g[0] = M /\ g[m] \in G[m]
                           /\ \A k \in 1 .. m : g[k - 1] \in G[k - 1] /\ g[k] = next[<<g[k - 1], k - 1>>]
             S == {m \in Nat : m <= n => \E g : Upto(m, g)}
  <1>1. 0 \in S
    <2> DEFINE g == [k \in 0 .. 0 |-> M]
    <2>1. g = [k \in 0 .. 0 |-> g[k]] /\ g[0] = M
      OBVIOUS
    <2>2. \A k \in 1 .. 0 : FALSE
      OBVIOUS
    <2> HIDE DEF g
    <2>3. Upto(0, g)
      BY <2>1, <2>2
    <2> QED  BY <2>3
  <1>2. ASSUME NEW m \in S PROVE m + 1 \in S
    <2> SUFFICES ASSUME m + 1 <= n PROVE \E g : Upto(m + 1, g)
      OBVIOUS
    <2>1. m \in Nat /\ m <= n /\ m \in 0 .. n - 1
      OBVIOUS
    <2>2. PICK g : Upto(m, g)
      BY <2>1
    <2> DEFINE v == next[<<g[m], m>>]
               h == [k \in 0 .. m + 1 |-> IF k = m + 1 THEN v ELSE g[k]]
    <2>3. v \in G[m + 1]
      BY <2>1, <2>2 DEF Leads
    <2> HIDE DEF v
    <2>4. h = [k \in 0 .. m + 1 |-> h[k]] /\ h[m + 1] = v /\ \A k \in 0 .. m : h[k] = g[k]
      BY <2>1
    <2> HIDE DEF h
    <2>5. ASSUME NEW k \in 1 .. m + 1 PROVE h[k - 1] \in G[k - 1] /\ h[k] = next[<<h[k - 1], k - 1>>]
      <3>1. CASE k = m + 1
        <4>1. k - 1 = m /\ m \in 0 .. m
          BY <2>1, <3>1
        <4>2. h[k - 1] = g[m]
          BY <2>4, <4>1
        <4> QED  BY <2>2, <2>4, <3>1, <4>1, <4>2 DEF v
      <3>2. CASE k # m + 1
        <4>1. k \in 1 .. m /\ k \in 0 .. m /\ k - 1 \in 0 .. m
          BY <2>1, <3>2
        <4> QED  BY <2>2, <2>4, <4>1
      <3> QED  BY <3>1, <3>2
    <2>6. h[0] = M /\ h[m + 1] \in G[m + 1]
      <3>1. 0 \in 0 .. m
        BY <2>1
      <3> QED  BY <2>2, <2>3, <2>4, <3>1
    <2>7. Upto(m + 1, h)
      BY <2>4, <2>5, <2>6
    <2> QED  BY <2>7
  <1>3. n \in S
    <2> HIDE DEF S
    <2>1. S \in SUBSET Nat
      BY DEF S
    <2> QED  BY <1>1, <1>2, <2>1, NumbersByInduction
  <1> QED  BY <1>3

\* What one step of a loop keeps, the whole loop keeps.
LEMMA Along ==
    ASSUME NEW n \in Nat, NEW G, NEW f, f[0] \in G[0],
           \A k \in 1 .. n : f[k - 1] \in G[k - 1] => f[k] \in G[k]
    PROVE  f[n] \in G[n]
  <1> DEFINE S == {m \in Nat : m <= n => f[m] \in G[m]}
  <1>1. ASSUME NEW m \in S PROVE m + 1 \in S
    <2> SUFFICES ASSUME m + 1 <= n PROVE f[m + 1] \in G[m + 1]
      OBVIOUS
    <2>1. m + 1 \in 1 .. n /\ (m + 1) - 1 = m /\ f[m] \in G[m]
      OBVIOUS
    <2> QED  BY <2>1
  <1>2. 0 \in S /\ S \in SUBSET Nat
    OBVIOUS
  <1>3. n \in S
    <2> HIDE DEF S
    <2> QED  BY <1>1, <1>2, NumbersByInduction
  <1> QED  BY <1>3

EntriesUpTo(M, r, pt, d, i, n) == Loop(LAMBDA m, j : unmap_entry(m, r, pt, d, i, j), M, n)
TablesUpTo(M, r, pd, d, n) == Loop(LAMBDA m, i : free_table(m, r, pd, d, i), M, n)
DirectoriesUpTo(M, r, pdpt, n) == Loop(LAMBDA m, d : free_directory(m, r, pdpt, d), M, n)

\* The loop of env_free() over the entries of a page table.
LEMMA EntryLoop ==
    ASSUME NEW n \in Nat, NEW G, NEW M, M \in G[0], NEW r, NEW pt, NEW d, NEW i,
           \A k \in 0 .. n - 1 : \A m \in G[k] : unmap_entry(m, r, pt, d, i, k) \in G[k + 1]
    PROVE  EntriesUpTo(M, r, pt, d, i, n) \in G[n]
  <1> DEFINE B(m, k) == unmap_entry(m, r, pt, d, i, k)
             Body(f, k) == IF k = 0 THEN M ELSE B(f[k - 1], k - 1)
             Fits(f) == f = [k \in 0 .. n |-> Body(f, k)]
             F == CHOOSE f : Fits(f)
             next == [x \in (UNION {G[k] : k \in 0 .. n}) \X (0 .. n) |-> B(x[1], x[2])]
  <1>1. EntriesUpTo(M, r, pt, d, i, n) = F[n]
    BY DEF Loop, EntriesUpTo
  <1> HIDE DEF B
  <1>2. \A k \in 0 .. n - 1 : \A m \in G[k] : B(m, k) \in G[k + 1]
    BY DEF B
  <1>3. \A k \in 0 .. n - 1 : \A m \in G[k] : next[<<m, k>>] = B(m, k)
    OBVIOUS
  <1> HIDE DEF next
  <1>12. Leads(G, n, next)
    BY <1>2, <1>3 DEF Leads
  <1>4. PICK f : /\ f = [k \in 0 .. n |-> f[k]] /\ f[0] = M
                 /\ \A k \in 1 .. n : f[k - 1] \in G[k - 1] /\ f[k] = next[<<f[k - 1], k - 1>>]
    BY <1>12, Iterates
  <1>5. \A k \in 0 .. n : f[k] = Body(f, k)
    <2> SUFFICES ASSUME NEW k \in 0 .. n PROVE f[k] = Body(f, k)
      OBVIOUS
    <2>1. CASE k = 0
      BY <1>4, <2>1
    <2>2. CASE k # 0
      <3>1. k \in 1 .. n /\ k - 1 \in 0 .. n - 1
        BY <2>2
      <3> QED  BY <1>3, <1>4, <2>2, <3>1
    <2> QED  BY <2>1, <2>2
  <1>6. Fits(f)
    <2> HIDE DEF Body
    <2> QED  BY <1>4, <1>5
  <1>7. Fits(F)
    <2> HIDE DEF Fits
    <2> QED  BY <1>6
  <1> HIDE DEF F
  <1>8. \A k \in 0 .. n : F[k] = Body(F, k)
    <2> HIDE DEF Body
    <2> QED  BY <1>7
  <1>9. F[0] \in G[0]
    BY <1>8
  <1>10. ASSUME NEW k \in 1 .. n, F[k - 1] \in G[k - 1] PROVE F[k] \in G[k]
    <2>1. k \in 0 .. n /\ k # 0 /\ k - 1 \in 0 .. n - 1 /\ (k - 1) + 1 = k
      OBVIOUS
    <2>2. F[k] = B(F[k - 1], k - 1)
      BY <1>8, <2>1
    <2> QED  BY <1>2, <1>10, <2>1, <2>2
  <1>11. F[n] \in G[n]
    BY <1>9, <1>10, Along
  <1> QED  BY <1>1, <1>11

\* The loop of env_free() over the entries of a page directory.
LEMMA TableLoop ==
    ASSUME NEW n \in Nat, NEW G, NEW M, M \in G[0], NEW r, NEW pd, NEW d,
           \A k \in 0 .. n - 1 : \A m \in G[k] : free_table(m, r, pd, d, k) \in G[k + 1]
    PROVE  TablesUpTo(M, r, pd, d, n) \in G[n]
  <1> DEFINE B(m, k) == free_table(m, r, pd, d, k)
             Body(f, k) == IF k = 0 THEN M ELSE B(f[k - 1], k - 1)
             Fits(f) == f = [k \in 0 .. n |-> Body(f, k)]
             F == CHOOSE f : Fits(f)
             next == [x \in (UNION {G[k] : k \in 0 .. n}) \X (0 .. n) |-> B(x[1], x[2])]
  <1>1. TablesUpTo(M, r, pd, d, n) = F[n]
    BY DEF Loop, TablesUpTo
  <1> HIDE DEF B
  <1>2. \A k \in 0 .. n - 1 : \A m \in G[k] : B(m, k) \in G[k + 1]
    BY DEF B
  <1>3. \A k \in 0 .. n - 1 : \A m \in G[k] : next[<<m, k>>] = B(m, k)
    OBVIOUS
  <1> HIDE DEF next
  <1>12. Leads(G, n, next)
    BY <1>2, <1>3 DEF Leads
  <1>4. PICK f : /\ f = [k \in 0 .. n |-> f[k]] /\ f[0] = M
                 /\ \A k \in 1 .. n : f[k - 1] \in G[k - 1] /\ f[k] = next[<<f[k - 1], k - 1>>]
    BY <1>12, Iterates
  <1>5. \A k \in 0 .. n : f[k] = Body(f, k)
    <2> SUFFICES ASSUME NEW k \in 0 .. n PROVE f[k] = Body(f, k)
      OBVIOUS
    <2>1. CASE k = 0
      BY <1>4, <2>1
    <2>2. CASE k # 0
      <3>1. k \in 1 .. n /\ k - 1 \in 0 .. n - 1
        BY <2>2
      <3> QED  BY <1>3, <1>4, <2>2, <3>1
    <2> QED  BY <2>1, <2>2
  <1>6. Fits(f)
    <2> HIDE DEF Body
    <2> QED  BY <1>4, <1>5
  <1>7. Fits(F)
    <2> HIDE DEF Fits
    <2> QED  BY <1>6
  <1> HIDE DEF F
  <1>8. \A k \in 0 .. n : F[k] = Body(F, k)
    <2> HIDE DEF Body
    <2> QED  BY <1>7
  <1>9. F[0] \in G[0]
    BY <1>8
  <1>10. ASSUME NEW k \in 1 .. n, F[k - 1] \in G[k - 1] PROVE F[k] \in G[k]
    <2>1. k \in 0 .. n /\ k # 0 /\ k - 1 \in 0 .. n - 1 /\ (k - 1) + 1 = k
      OBVIOUS
    <2>2. F[k] = B(F[k - 1], k - 1)
      BY <1>8, <2>1
    <2> QED  BY <1>2, <1>10, <2>1, <2>2
  <1>11. F[n] \in G[n]
    BY <1>9, <1>10, Along
  <1> QED  BY <1>1, <1>11

\* The loop of env_free() over the page directories.
LEMMA DirectoryLoop ==
    ASSUME NEW n \in Nat, NEW G, NEW M, M \in G[0], NEW r, NEW pdpt,
           \A k \in 0 .. n - 1 : \A m \in G[k] : free_directory(m, r, pdpt, k) \in G[k + 1]
    PROVE  DirectoriesUpTo(M, r, pdpt, n) \in G[n]
  <1> DEFINE B(m, k) == free_directory(m, r, pdpt, k)
             Body(f, k) == IF k = 0 THEN M ELSE B(f[k - 1], k - 1)
             Fits(f) == f = [k \in 0 .. n |-> Body(f, k)]
             F == CHOOSE f : Fits(f)
             next == [x \in (UNION {G[k] : k \in 0 .. n}) \X (0 .. n) |-> B(x[1], x[2])]
  <1>1. DirectoriesUpTo(M, r, pdpt, n) = F[n]
    BY DEF Loop, DirectoriesUpTo
  <1> HIDE DEF B
  <1>2. \A k \in 0 .. n - 1 : \A m \in G[k] : B(m, k) \in G[k + 1]
    BY DEF B
  <1>3. \A k \in 0 .. n - 1 : \A m \in G[k] : next[<<m, k>>] = B(m, k)
    OBVIOUS
  <1> HIDE DEF next
  <1>12. Leads(G, n, next)
    BY <1>2, <1>3 DEF Leads
  <1>4. PICK f : /\ f = [k \in 0 .. n |-> f[k]] /\ f[0] = M
                 /\ \A k \in 1 .. n : f[k - 1] \in G[k - 1] /\ f[k] = next[<<f[k - 1], k - 1>>]
    BY <1>12, Iterates
  <1>5. \A k \in 0 .. n : f[k] = Body(f, k)
    <2> SUFFICES ASSUME NEW k \in 0 .. n PROVE f[k] = Body(f, k)
      OBVIOUS
    <2>1. CASE k = 0
      BY <1>4, <2>1
    <2>2. CASE k # 0
      <3>1. k \in 1 .. n /\ k - 1 \in 0 .. n - 1
        BY <2>2
      <3> QED  BY <1>3, <1>4, <2>2, <3>1
    <2> QED  BY <2>1, <2>2
  <1>6. Fits(f)
    <2> HIDE DEF Body
    <2> QED  BY <1>4, <1>5
  <1>7. Fits(F)
    <2> HIDE DEF Fits
    <2> QED  BY <1>6
  <1> HIDE DEF F
  <1>8. \A k \in 0 .. n : F[k] = Body(F, k)
    <2> HIDE DEF Body
    <2> QED  BY <1>7
  <1>9. F[0] \in G[0]
    BY <1>8
  <1>10. ASSUME NEW k \in 1 .. n, F[k - 1] \in G[k - 1] PROVE F[k] \in G[k]
    <2>1. k \in 0 .. n /\ k # 0 /\ k - 1 \in 0 .. n - 1 /\ (k - 1) + 1 = k
      OBVIOUS
    <2>2. F[k] = B(F[k - 1], k - 1)
      BY <1>8, <2>1
    <2> QED  BY <1>2, <1>10, <2>1, <2>2
  <1>11. F[n] \in G[n]
    BY <1>9, <1>10, Along
  <1> QED  BY <1>1, <1>11

\* env_free()'s innermost loop is at page table pt: <<0, d, i, ...>>.
OnWay(M, r, pdpt, d, pd, i, pt) ==
    /\ Present(M, r, 0) /\ M.mem[r][0].addr = pdpt
    /\ Present(M, pdpt, d) /\ M.mem[pdpt][d].addr = pd
    /\ Present(M, pd, i) /\ M.mem[pd][i].addr = pt

\* The entries of a table below k are empty.
Emptied(M, t, k) == \A j \in Index : j < k => ~Present(M, t, j)

\* env_free(): after entry j the page table is empty up to there.
LEMMA EntryStep ==
    ASSUME NEW M, NEW lev, NEW ext, NEW out, Heap(M, lev, ext, out),
           NEW r \in PAGE, NEW pdpt \in PAGE, NEW pd \in PAGE, NEW pt \in PAGE, lev[pt] = "pt",
           NEW d \in Index, NEW i \in Index, OnWay(M, r, pdpt, d, pd, i, pt),
           NEW k \in Index, Emptied(M, pt, k), NEW M2, M2 = unmap_entry(M, r, pt, d, i, k)
    PROVE  /\ Heap(M2, lev, ext, out) /\ Emptied(M2, pt, k + 1)
           /\ \A u \in PAGE : u # pt => M2.mem[u] = M.mem[u]
  <1> DEFINE va == <<0, d, i, k>>
  <1>1. /\ va \in Address /\ PML4(va) = 0 /\ PDPE(va) = d /\ PDX(va) = i /\ PTX(va) = k
    BY Constants DEF Address, PML4, PDPE, PDX, PTX
  <1>2. M2 = IF Present(M, pt, k) THEN page_remove(M, r, va) ELSE M
    BY DEF unmap_entry
  <1> HIDE DEF va
  <1>3. PathR(M, r, va, pt)
    BY <1>1, Zenon DEF PathR, PathP, PathD, OnWay
  <1>4. M.mem \in [PAGE -> [Index -> Entry]]
    BY HeapParts, Parts
  <1>5. \A j \in Index : j < k + 1 => j < k \/ j = k
    BY Constants DEF Index
  <1>6. CASE Present(M, pt, k)
    <2>1. /\ Heap(M2, lev, ext, out)
          /\ M2.mem = [M.mem EXCEPT ![pt] = [M.mem[pt] EXCEPT ![PTX(va)] = Zero]]
      BY <1>1, <1>2, <1>3, <1>6, RemoveAt
    <2>2. /\ M2.mem[pt][k] = Zero /\ \A j \in Index : j # k => M2.mem[pt][j] = M.mem[pt][j]
      BY <1>1, <1>4, <2>1
    <2>3. \A u \in PAGE : u # pt => M2.mem[u] = M.mem[u]
      BY <1>4, <2>1
    <2>4. ~Present(M2, pt, k)
      BY <2>2, Entries DEF Present
    <2>5. Emptied(M2, pt, k + 1)
      BY <1>5, <2>2, <2>4 DEF Emptied, Present
    <2> QED  BY <2>1, <2>3, <2>5
  <1>7. CASE ~Present(M, pt, k)
    <2>1. M2 = M
      BY <1>2, <1>7
    <2>2. Emptied(M2, pt, k + 1)
      BY <1>5, <1>7, <2>1 DEF Emptied
    <2> QED  BY <2>1, <2>2
  <1> QED  BY <1>6, <1>7

\* The page table is empty then.
LEMMA TableEmptied ==
    ASSUME NEW M, NEW lev, NEW ext, NEW out, Heap(M, lev, ext, out),
           NEW r \in PAGE, NEW pdpt \in PAGE, NEW pd \in PAGE, NEW pt \in PAGE,
           lev[r] # "pt", lev[pdpt] # "pt", lev[pd] # "pt", lev[pt] = "pt",
           NEW d \in Index, NEW i \in Index, OnWay(M, r, pdpt, d, pd, i, pt),
           NEW M2, M2 = EntriesUpTo(M, r, pt, d, i, N - 1)
    PROVE  /\ Heap(M2, lev, ext, out) /\ Empty(M2, lev, pt)
           /\ \A u \in PAGE : u # pt => M2.mem[u] = M.mem[u]
  <1> DEFINE Good(m, k) == /\ Heap(m, lev, ext, out) /\ Emptied(m, pt, k)
                           /\ \A u \in PAGE : u # pt => m.mem[u] = M.mem[u]
             G == [k \in 0 .. N - 1 |-> {m \in MemType : Good(m, k)}]
  <1>1. N \in Nat /\ N > 2 /\ N - 1 \in Nat /\ M \in MemType
    <2>1. N \in Nat /\ N > 2
      BY Constants
    <2>2. M \in MemType
      BY HeapParts
    <2> QED  BY <2>1, <2>2
  <1>2. Good(M, 0)
    BY Constants DEF Emptied, Index
  <1>3. ASSUME NEW k \in 0 .. N - 2, NEW m, Good(m, k)
        PROVE  Good(unmap_entry(m, r, pt, d, i, k), k + 1)
    <2> DEFINE m2 == unmap_entry(m, r, pt, d, i, k)
    <2>1. k \in Index
      BY Constants DEF Index
    <2>2. m.mem[r] = M.mem[r] /\ m.mem[pdpt] = M.mem[pdpt] /\ m.mem[pd] = M.mem[pd]
      BY <1>3
    <2>3. OnWay(m, r, pdpt, d, pd, i, pt)
      BY <2>2 DEF OnWay, Present
    <2>4. m2 = unmap_entry(m, r, pt, d, i, k)
      OBVIOUS
    <2> HIDE DEF m2
    <2>5. /\ Heap(m2, lev, ext, out) /\ Emptied(m2, pt, k + 1)
          /\ \A u \in PAGE : u # pt => m2.mem[u] = m.mem[u]
      BY <1>3, <2>1, <2>3, <2>4, EntryStep
    <2> QED  BY <1>3, <2>4, <2>5
  <1> HIDE DEF Good
  <1>4. M \in G[0]
    BY <1>1, <1>2
  <1>5. \A k \in 0 .. (N - 1) - 1 : \A m \in G[k] : unmap_entry(m, r, pt, d, i, k) \in G[k + 1]
    <2> SUFFICES ASSUME NEW k \in 0 .. (N - 1) - 1, NEW m \in G[k]
                 PROVE  unmap_entry(m, r, pt, d, i, k) \in G[k + 1]
      OBVIOUS
    <2>1. k \in 0 .. N - 2 /\ k \in 0 .. N - 1 /\ k + 1 \in 0 .. N - 1
      BY <1>1
    <2>2. Good(m, k)
      BY <2>1
    <2>3. Good(unmap_entry(m, r, pt, d, i, k), k + 1)
      BY <1>3, <2>1, <2>2
    <2>4. unmap_entry(m, r, pt, d, i, k) \in MemType
      BY <2>3, HeapParts DEF Good
    <2> QED  BY <2>1, <2>3, <2>4
  <1> HIDE DEF G
  <1>6. M2 \in G[N - 1]
    BY <1>1, <1>4, <1>5, EntryLoop
  <1>7. Good(M2, N - 1)
    BY <1>1, <1>6 DEF G
  <1>8. Empty(M2, lev, pt)
    <2> SUFFICES ASSUME NEW j \in Index, Points(M2, lev, pt, j) PROVE FALSE
      BY DEF Empty
    <2>1. Present(M2, pt, j) /\ WithinReach(M2, lev) /\ Emptied(M2, pt, N - 1)
      BY <1>7, HeapParts DEF Points, Good
    <2>2. j < N - 1
      BY <2>1 DEF WithinReach
    <2> QED  BY <2>1, <2>2 DEF Emptied
  <1> QED  BY <1>7, <1>8 DEF Good

\* The same top-level tables and PDPTs.
KeepsTop(lev, lev2) ==
    \A u \in PAGE : (lev2[u] = "root" <=> lev[u] = "root") /\ (lev2[u] = "pdpt" <=> lev[u] = "pdpt")

\* The way to page directory pd: <<0, d, ...>>.
DirectoryWay(M, r, pdpt, d, pd) ==
    Present(M, r, 0) /\ M.mem[r][0].addr = pdpt /\ Present(M, pdpt, d) /\ M.mem[pdpt][d].addr = pd

LEMMA DirectoryOfSpace ==
    ASSUME NEW M, NEW lev, NEW r, NEW pdpt \in PAGE, NEW pd, lev[r] = "root", lev[pdpt] = "pdpt",
           NEW d \in Index, DirectoryWay(M, r, pdpt, d, pd)
    PROVE  Below1(M, lev, r, pdpt) /\ Below2(M, lev, r, pd)
  <1>1. Below1(M, lev, r, pdpt)
    BY DEF DirectoryWay, Below1, Points
  <1>2. Points(M, lev, pdpt, d) /\ M.mem[pdpt][d].addr = pd
    BY DEF DirectoryWay, Points
  <1> QED  BY <1>1, <1>2 DEF Below2

\* What the loop over the page directory keeps.
DirectoryFreed(M, lev, ext, out, r, pdpt, pd, M2, lev2) ==
    /\ Heap(M2, lev2, ext, out) /\ KeepsTop(lev, lev2) /\ lev2[pd] = "dir" /\ OtherMaps(M, lev, r, M2)
    /\ M2.mem[r] = M.mem[r] /\ M2.mem[pdpt] = M.mem[pdpt]

\* env_free(): the page table at i is emptied and given back.
LEMMA FreeTableStep ==
    ASSUME NEW M, NEW lev, NEW ext, NEW out, Heap(M, lev, ext, out),
           NEW r \in PAGE, NEW pdpt \in PAGE, NEW pd \in PAGE,
           lev[r] = "root", lev[pdpt] = "pdpt", lev[pd] = "dir",
           NEW d \in Index, NEW i \in Index, DirectoryWay(M, r, pdpt, d, pd),
           Emptied(M, pd, i), NEW M2, M2 = free_table(M, r, pd, d, i)
    PROVE  \E lev2 : DirectoryFreed(M, lev, ext, out, r, pdpt, pd, M2, lev2) /\ Emptied(M2, pd, i + 1)
  <1> DEFINE pt == M.mem[pd][i].addr
             U == EntriesUpTo(M, r, pt, d, i, N - 1)
             R == Removed(U, pd, i, pt)
             lev2 == [lev EXCEPT ![pt] = "no"]
  <1>1. M2 = IF ~Present(M, pd, i) THEN M ELSE page_decref([U EXCEPT !.mem[pd][i] = Zero], pt)
    BY DEF free_table, EntriesUpTo
  <1>2. pt = M.mem[pd][i].addr /\ U = EntriesUpTo(M, r, pt, d, i, N - 1) /\ R = Removed(U, pd, i, pt)
    OBVIOUS
  <1> HIDE DEF pt, U, R
  <1>3. \A j \in Index : j < i + 1 => j < i \/ j = i
    BY Constants DEF Index
  <1>4. CASE ~Present(M, pd, i)
    <2>1. M2 = M
      BY <1>1, <1>4
    <2>2. Emptied(M2, pd, i + 1)
      BY <1>3, <1>4, <2>1 DEF Emptied
    <2>3. DirectoryFreed(M, lev, ext, out, r, pdpt, pd, M2, lev)
      BY <2>1 DEF DirectoryFreed, KeepsTop, OtherMaps
    <2> QED  BY <2>2, <2>3
  <1>5. CASE Present(M, pd, i)
    <2>1. Points(M, lev, pd, i)
      BY <1>5 DEF Points
    <2>2. pt \in PAGE /\ lev[pt] = "pt"
      <3>1. pt \in PAGE /\ lev[pt] = Below(lev[pd])
        BY <1>2, <2>1, Child
      <3> QED  BY <3>1 DEF Below
    <2>3. OnWay(M, r, pdpt, d, pd, i, pt)
      BY <1>2, <1>5 DEF OnWay, DirectoryWay
    <2>4. lev[r] # "pt" /\ lev[pdpt] # "pt" /\ lev[pd] # "pt"
      OBVIOUS
    <2>5. /\ Heap(U, lev, ext, out) /\ Empty(U, lev, pt)
          /\ \A u \in PAGE : u # pt => U.mem[u] = M.mem[u]
      <3>1. U = EntriesUpTo(M, r, pt, d, i, N - 1)
        BY <1>2
      <3> QED  BY <2>2, <2>3, <2>4, <3>1, TableEmptied
    <2>6. U.mem[r] = M.mem[r] /\ U.mem[pdpt] = M.mem[pdpt] /\ U.mem[pd] = M.mem[pd]
      BY <2>2, <2>5
    <2>7. Points(U, lev, pd, i) /\ pt = U.mem[pd][i].addr
      BY <1>2, <2>1, <2>6, Zenon DEF Points, Present
    <2>8. /\ Heap(R, lev2, ext, out) /\ R = page_decref([U EXCEPT !.mem[pd][i] = Zero], pt)
          /\ R.mem = [U.mem EXCEPT ![pd] = [U.mem[pd] EXCEPT ![i] = Zero]]
      <3>1. Heap(U, lev, ext, out) /\ Empty(U, lev, pt)
        BY <2>5
      <3>2. Points(U, lev, pd, i) /\ pt = U.mem[pd][i].addr /\ R = Removed(U, pd, i, pt)
        BY <1>2, <2>7, Zenon
      <3>3. Detached(U, lev, ext, out, pd, i, pt, R)
        BY <3>1, <3>2, DetachKeeps
      <3> QED  BY <3>3 DEF Detached
    <2>9. M2 = R
      BY <1>1, <1>5, <2>8
    <2>10. U.mem \in [PAGE -> [Index -> Entry]] /\ lev \in [PAGE -> Level]
      BY <2>5, HeapParts, Parts
    <2>11. r # pd /\ pdpt # pd /\ pd # pt
      BY <2>2
    <2>12. R.mem[r] = M.mem[r] /\ R.mem[pdpt] = M.mem[pdpt]
      BY <2>6, <2>8, <2>10, <2>11
    <2>13. R.mem[pd][i] = Zero /\ \A j \in Index : j # i => R.mem[pd][j] = M.mem[pd][j]
      <3>1. R.mem[pd] = [M.mem[pd] EXCEPT ![i] = Zero] /\ M.mem[pd] \in [Index -> Entry]
        BY <2>6, <2>8, <2>10
      <3> QED  BY <3>1
    <2>14. ~Present(R, pd, i)
      BY <2>13, Entries DEF Present
    <2>15. Emptied(R, pd, i + 1)
      BY <1>3, <2>13, <2>14 DEF Emptied, Present
    <2>16. KeepsTop(lev, lev2) /\ lev2[pd] = "dir"
      BY <2>2, <2>10, <2>11 DEF KeepsTop
    <2>17. OtherMaps(M, lev, r, R)
      <3> HIDE DEF lev2
      <3>1. Below2(M, lev, r, pd)
        BY DirectoryOfSpace
      <3>2. Below2(U, lev, r, pd)
        <4>1. DirectoryWay(U, r, pdpt, d, pd)
          BY <2>6 DEF DirectoryWay, Present
        <4> QED  BY <4>1, DirectoryOfSpace
      <3>3. OfSpace(M, lev, r, pt)
        <4>1. pt = M.mem[pd][i].addr
          BY <1>2
        <4> QED  BY <2>1, <3>1, <4>1 DEF Below3, OfSpace
      <3>4. OtherMaps(M, lev, r, U)
        BY <2>2, <2>5, <3>3, OthersKept
      <3>5. \A u \in PAGE : u # pd => R.mem[u] = U.mem[u]
        BY <2>8, <2>10
      <3>6. OtherMaps(U, lev, r, R)
        <4>1. OfSpace(U, lev, r, pd)
          BY <3>2 DEF OfSpace
        <4> QED  BY <2>5, <3>5, <4>1, OthersKept
      <3> QED  BY <3>4, <3>6, OthersTwice
    <2>18. DirectoryFreed(M, lev, ext, out, r, pdpt, pd, R, lev2)
      <3> HIDE DEF lev2
      <3> QED  BY <2>8, <2>12, <2>16, <2>17 DEF DirectoryFreed, lev2
    <2> QED  BY <2>9, <2>15, <2>18
  <1> QED  BY <1>4, <1>5

LEMMA TableLimitIs ==
    ASSUME NEW d \in Index
    PROVE  TableLimit(d) \in Nat /\ \A k \in 0 .. TableLimit(d) - 1 : k \in Index
  <1>1. N \in Nat /\ N > 2
    BY Constants
  <1>2. PDX(UTOP) \in 0 .. N - 1
    BY PmapAssumption DEF Address, PDX, Index
  <1>3. TableLimit(d) \in 0 .. N - 1
    BY <1>1, <1>2 DEF TableLimit
  <1> QED  BY <1>1, <1>3 DEF Index

\* env_free(): after its loop nothing is left in a page directory.
LEMMA DirectoryEmptied ==
    ASSUME NEW M, NEW lev, NEW ext, NEW out, Heap(M, lev, ext, out),
           NEW r \in PAGE, NEW pdpt \in PAGE, NEW pd \in PAGE,
           lev[r] = "root", lev[pdpt] = "pdpt", lev[pd] = "dir",
           NEW d \in Index, DirectoryWay(M, r, pdpt, d, pd),
           NEW M2, M2 = TablesUpTo(M, r, pd, d, TableLimit(d))
    PROVE  \E lev2 : DirectoryFreed(M, lev, ext, out, r, pdpt, pd, M2, lev2) /\ Empty(M2, lev2, pd)
  <1> DEFINE L == TableLimit(d)
             Good(m, k) == \E l : DirectoryFreed(M, lev, ext, out, r, pdpt, pd, m, l) /\ Emptied(m, pd, k)
             G == [k \in 0 .. L |-> {m \in MemType : Good(m, k)}]
  <1>1. L \in Nat /\ \A k \in 0 .. L - 1 : k \in Index
    BY TableLimitIs
  <1>2. M2 = TablesUpTo(M, r, pd, d, L) /\ L = TableLimit(d)
    OBVIOUS
  <1> HIDE DEF L
  <1>3. Good(M, 0)
    <2>1. DirectoryFreed(M, lev, ext, out, r, pdpt, pd, M, lev)
      BY DEF DirectoryFreed, KeepsTop, OtherMaps
    <2>2. Emptied(M, pd, 0)
      BY Constants DEF Emptied, Index
    <2> QED  BY <2>1, <2>2
  <1>4. ASSUME NEW k \in 0 .. L - 1, NEW m, Good(m, k)
        PROVE  Good(free_table(m, r, pd, d, k), k + 1)
    <2> DEFINE m2 == free_table(m, r, pd, d, k)
    <2>1. PICK l : DirectoryFreed(M, lev, ext, out, r, pdpt, pd, m, l) /\ Emptied(m, pd, k)
      BY <1>4
    <2>2. /\ Heap(m, l, ext, out) /\ KeepsTop(lev, l) /\ l[pd] = "dir"
          /\ m.mem[r] = M.mem[r] /\ m.mem[pdpt] = M.mem[pdpt] /\ OtherMaps(M, lev, r, m)
      BY <2>1 DEF DirectoryFreed
    <2>3. l[r] = "root" /\ l[pdpt] = "pdpt"
      BY <2>2 DEF KeepsTop
    <2>4. DirectoryWay(m, r, pdpt, d, pd)
      BY <2>2 DEF DirectoryWay, Present
    <2>5. m2 = free_table(m, r, pd, d, k) /\ k \in Index
      BY <1>1
    <2> HIDE DEF m2
    <2>6. PICK l2 : DirectoryFreed(m, l, ext, out, r, pdpt, pd, m2, l2) /\ Emptied(m2, pd, k + 1)
      BY <2>1, <2>2, <2>3, <2>4, <2>5, FreeTableStep
    <2>7. DirectoryFreed(M, lev, ext, out, r, pdpt, pd, m2, l2)
      <3>1. OtherMaps(M, lev, r, m2)
        BY <2>2, <2>6, OthersTwice DEF DirectoryFreed, KeepsTop
      <3> QED  BY <2>2, <2>6, <3>1 DEF DirectoryFreed, KeepsTop
    <2> QED  BY <2>5, <2>6, <2>7
  <1>5. \A m, k : Good(m, k) => m \in MemType
    BY HeapParts DEF DirectoryFreed
  <1> HIDE DEF Good
  <1>6. M \in G[0]
    BY <1>1, <1>3, <1>5
  <1>7. \A k \in 0 .. L - 1 : \A m \in G[k] : free_table(m, r, pd, d, k) \in G[k + 1]
    <2> SUFFICES ASSUME NEW k \in 0 .. L - 1, NEW m \in G[k]
                 PROVE  free_table(m, r, pd, d, k) \in G[k + 1]
      OBVIOUS
    <2>1. k \in 0 .. L /\ k + 1 \in 0 .. L
      BY <1>1
    <2>2. Good(m, k)
      BY <2>1
    <2>3. Good(free_table(m, r, pd, d, k), k + 1)
      BY <1>4, <2>2
    <2> QED  BY <1>5, <2>1, <2>3
  <1> HIDE DEF G
  <1>8. M2 \in G[L]
    BY <1>1, <1>2, <1>6, <1>7, TableLoop
  <1>9. Good(M2, L)
    BY <1>1, <1>8 DEF G
  <1>10. PICK l : DirectoryFreed(M, lev, ext, out, r, pdpt, pd, M2, l) /\ Emptied(M2, pd, L)
    BY <1>9 DEF Good
  <1>11. Empty(M2, l, pd)
    <2> SUFFICES ASSUME NEW j \in Index, Points(M2, l, pd, j) PROVE FALSE
      BY DEF Empty
    <2>1. /\ Heap(M2, l, ext, out) /\ KeepsTop(lev, l) /\ M2.mem[pdpt] = M.mem[pdpt]
      BY <1>10 DEF DirectoryFreed
    <2>2. l[pdpt] = "pdpt" /\ Present(M2, pdpt, d) /\ M2.mem[pdpt][d].addr = pd
      BY <2>1 DEF KeepsTop, DirectoryWay, Present
    <2>3. Present(M2, pd, j) /\ WithinReach(M2, l)
      BY <2>1, HeapParts DEF Points
    <2>4. j < L
      BY <1>2, <2>2, <2>3 DEF WithinReach
    <2> QED  BY <1>10, <2>3, <2>4 DEF Emptied
  <1> QED  BY <1>10, <1>11

\* What the loop over the PDPT keeps.
TreeFreed(M, lev, ext, out, r, M2, lev2) ==
    Heap(M2, lev2, ext, out) /\ KeepsTop(lev, lev2) /\ M2.mem[r] = M.mem[r] /\ OtherMaps(M, lev, r, M2)

\* env_free(): the page directory at d is emptied and given back.
LEMMA FreeDirectoryStep ==
    ASSUME NEW M, NEW lev, NEW ext, NEW out, Heap(M, lev, ext, out),
           NEW r \in PAGE, NEW pdpt \in PAGE, lev[r] = "root", lev[pdpt] = "pdpt",
           Present(M, r, 0), M.mem[r][0].addr = pdpt,
           NEW d \in Index, Emptied(M, pdpt, d), NEW M2, M2 = free_directory(M, r, pdpt, d)
    PROVE  \E lev2 : TreeFreed(M, lev, ext, out, r, M2, lev2) /\ Emptied(M2, pdpt, d + 1)
  <1> DEFINE pd == M.mem[pdpt][d].addr
             U == TablesUpTo(M, r, pd, d, TableLimit(d))
             R == Removed(U, pdpt, d, pd)
  <1>1. M2 = IF ~Present(M, pdpt, d) THEN M ELSE page_decref([U EXCEPT !.mem[pdpt][d] = Zero], pd)
    BY DEF free_directory, TablesUpTo
  <1>2. pd = M.mem[pdpt][d].addr /\ U = TablesUpTo(M, r, pd, d, TableLimit(d)) /\ R = Removed(U, pdpt, d, pd)
    OBVIOUS
  <1> HIDE DEF pd, U, R
  <1>3. \A j \in Index : j < d + 1 => j < d \/ j = d
    BY Constants DEF Index
  <1>4. CASE ~Present(M, pdpt, d)
    <2>1. M2 = M
      BY <1>1, <1>4
    <2>2. Emptied(M2, pdpt, d + 1)
      BY <1>3, <1>4, <2>1 DEF Emptied
    <2>3. TreeFreed(M, lev, ext, out, r, M2, lev)
      BY <2>1 DEF TreeFreed, KeepsTop, OtherMaps
    <2> QED  BY <2>2, <2>3
  <1>5. CASE Present(M, pdpt, d)
    <2>1. Points(M, lev, pdpt, d)
      BY <1>5 DEF Points
    <2>2. pd \in PAGE /\ lev[pd] = "dir"
      <3>1. pd \in PAGE /\ lev[pd] = Below(lev[pdpt])
        BY <1>2, <2>1, Child
      <3> QED  BY <3>1 DEF Below
    <2>3. DirectoryWay(M, r, pdpt, d, pd)
      BY <1>2, <1>5 DEF DirectoryWay
    <2>4. PICK l : DirectoryFreed(M, lev, ext, out, r, pdpt, pd, U, l) /\ Empty(U, l, pd)
      BY <1>2, <2>2, <2>3, DirectoryEmptied
    <2>5. /\ Heap(U, l, ext, out) /\ KeepsTop(lev, l) /\ l[pd] = "dir"
          /\ U.mem[r] = M.mem[r] /\ U.mem[pdpt] = M.mem[pdpt] /\ OtherMaps(M, lev, r, U)
      BY <2>4 DEF DirectoryFreed
    <2>6. Points(U, l, pdpt, d) /\ pd = U.mem[pdpt][d].addr
      <3>1. l[pdpt] = "pdpt"
        BY <2>5 DEF KeepsTop
      <3> QED  BY <1>2, <1>5, <2>5, <3>1 DEF Points, Present
    <2>7. Detached(U, l, ext, out, pdpt, d, pd, R)
      BY <1>2, <2>4, <2>5, <2>6, DetachKeeps, Zenon
    <2> DEFINE lev2 == [l EXCEPT ![pd] = "no"]
    <2>8. /\ Heap(R, lev2, ext, out) /\ R = page_decref([U EXCEPT !.mem[pdpt][d] = Zero], pd)
          /\ R.mem = [U.mem EXCEPT ![pdpt] = [U.mem[pdpt] EXCEPT ![d] = Zero]]
      BY <2>7 DEF Detached
    <2>9. M2 = R
      BY <1>1, <1>5, <2>8
    <2>10. U.mem \in [PAGE -> [Index -> Entry]] /\ l \in [PAGE -> Level]
      BY <2>5, HeapParts, Parts
    <2>11. R.mem[r] = M.mem[r]
      <3>1. r # pdpt
        OBVIOUS
      <3> QED  BY <2>5, <2>8, <2>10, <3>1
    <2>12. R.mem[pdpt][d] = Zero /\ \A j \in Index : j # d => R.mem[pdpt][j] = M.mem[pdpt][j]
      <3>1. R.mem[pdpt] = [M.mem[pdpt] EXCEPT ![d] = Zero] /\ M.mem[pdpt] \in [Index -> Entry]
        BY <2>5, <2>8, <2>10
      <3> QED  BY <3>1
    <2>13. ~Present(R, pdpt, d)
      BY <2>12, Entries DEF Present
    <2>14. Emptied(R, pdpt, d + 1)
      BY <1>3, <2>12, <2>13 DEF Emptied, Present
    <2>15. KeepsTop(lev, lev2)
      BY <2>2, <2>5, <2>10 DEF KeepsTop
    <2>16. OtherMaps(M, lev, r, R)
      <3> HIDE DEF lev2
      <3>1. l[r] = "root" /\ l[pdpt] = "pdpt" /\ \A u \in PAGE : lev[u] = "root" => l[u] = "root"
        BY <2>5 DEF KeepsTop
      <3>2. DirectoryWay(U, r, pdpt, d, pd)
        BY <2>3, <2>5 DEF DirectoryWay, Present
      <3>3. OfSpace(U, l, r, pdpt)
        BY <3>1, <3>2, DirectoryOfSpace DEF OfSpace
      <3>4. \A u \in PAGE : u # pdpt => R.mem[u] = U.mem[u]
        BY <2>8, <2>10
      <3>5. OtherMaps(U, l, r, R)
        BY <2>5, <3>1, <3>3, <3>4, OthersKept
      <3> QED  BY <2>5, <3>1, <3>5, OthersTwice
    <2>17. TreeFreed(M, lev, ext, out, r, R, lev2)
      <3> HIDE DEF lev2
      <3> QED  BY <2>8, <2>11, <2>15, <2>16 DEF TreeFreed, lev2
    <2> QED  BY <2>9, <2>14, <2>17
  <1> QED  BY <1>4, <1>5

\* env_free(): after its outer loop nothing is left in the user half.
LEMMA TreeEmptied ==
    ASSUME NEW M, NEW lev, NEW ext, NEW out, Heap(M, lev, ext, out),
           NEW r \in PAGE, NEW pdpt \in PAGE, lev[r] = "root", lev[pdpt] = "pdpt",
           Present(M, r, 0), M.mem[r][0].addr = pdpt,
           NEW M2, M2 = DirectoriesUpTo(M, r, pdpt, TopPdpe + 1)
    PROVE  \E lev2 : TreeFreed(M, lev, ext, out, r, M2, lev2) /\ Empty(M2, lev2, pdpt)
  <1> DEFINE L == TopPdpe + 1
             Good(m, k) == \E l : TreeFreed(M, lev, ext, out, r, m, l) /\ Emptied(m, pdpt, k)
             G == [k \in 0 .. L |-> {m \in MemType : Good(m, k)}]
  <1>1. L \in Nat /\ (\A k \in 0 .. L - 1 : k \in Index) /\ \A k \in Index : k <= TopPdpe => k < L
    <2>1. N \in Nat /\ TopPdpe \in Index
      BY Constants
    <2> QED  BY <2>1 DEF Index
  <1>2. M2 = DirectoriesUpTo(M, r, pdpt, L)
    OBVIOUS
  <1> HIDE DEF L
  <1>3. Good(M, 0)
    <2>1. TreeFreed(M, lev, ext, out, r, M, lev)
      BY DEF TreeFreed, KeepsTop, OtherMaps
    <2>2. Emptied(M, pdpt, 0)
      BY Constants DEF Emptied, Index
    <2> QED  BY <2>1, <2>2
  <1>4. ASSUME NEW k \in 0 .. L - 1, NEW m, Good(m, k)
        PROVE  Good(free_directory(m, r, pdpt, k), k + 1)
    <2> DEFINE m2 == free_directory(m, r, pdpt, k)
    <2>1. PICK l : TreeFreed(M, lev, ext, out, r, m, l) /\ Emptied(m, pdpt, k)
      BY <1>4
    <2>2. Heap(m, l, ext, out) /\ KeepsTop(lev, l) /\ m.mem[r] = M.mem[r] /\ OtherMaps(M, lev, r, m)
      BY <2>1 DEF TreeFreed
    <2>3. l[r] = "root" /\ l[pdpt] = "pdpt" /\ Present(m, r, 0) /\ m.mem[r][0].addr = pdpt
      BY <2>2 DEF KeepsTop, Present
    <2>4. m2 = free_directory(m, r, pdpt, k) /\ k \in Index
      BY <1>1
    <2> HIDE DEF m2
    <2>5. PICK l2 : TreeFreed(m, l, ext, out, r, m2, l2) /\ Emptied(m2, pdpt, k + 1)
      BY <2>1, <2>2, <2>3, <2>4, FreeDirectoryStep
    <2>6. TreeFreed(M, lev, ext, out, r, m2, l2)
      <3>1. OtherMaps(M, lev, r, m2)
        BY <2>2, <2>5, OthersTwice DEF TreeFreed, KeepsTop
      <3> QED  BY <2>2, <2>5, <3>1 DEF TreeFreed, KeepsTop
    <2> QED  BY <2>4, <2>5, <2>6
  <1>5. \A m, k : Good(m, k) => m \in MemType
    BY HeapParts DEF TreeFreed
  <1> HIDE DEF Good
  <1>6. M \in G[0]
    BY <1>1, <1>3, <1>5
  <1>7. \A k \in 0 .. L - 1 : \A m \in G[k] : free_directory(m, r, pdpt, k) \in G[k + 1]
    <2> SUFFICES ASSUME NEW k \in 0 .. L - 1, NEW m \in G[k]
                 PROVE  free_directory(m, r, pdpt, k) \in G[k + 1]
      OBVIOUS
    <2>1. k \in 0 .. L /\ k + 1 \in 0 .. L
      BY <1>1
    <2>2. Good(m, k)
      BY <2>1
    <2>3. Good(free_directory(m, r, pdpt, k), k + 1)
      BY <1>4, <2>2
    <2> QED  BY <1>5, <2>1, <2>3
  <1> HIDE DEF G
  <1>8. M2 \in G[L]
    BY <1>1, <1>2, <1>6, <1>7, DirectoryLoop
  <1>9. Good(M2, L)
    BY <1>1, <1>8 DEF G
  <1>10. PICK l : TreeFreed(M, lev, ext, out, r, M2, l) /\ Emptied(M2, pdpt, L)
    BY <1>9 DEF Good
  <1>11. Empty(M2, l, pdpt)
    <2> SUFFICES ASSUME NEW j \in Index, Points(M2, l, pdpt, j) PROVE FALSE
      BY DEF Empty
    <2>1. Heap(M2, l, ext, out) /\ KeepsTop(lev, l)
      BY <1>10 DEF TreeFreed
    <2>2. l[pdpt] = "pdpt" /\ Present(M2, pdpt, j) /\ WithinReach(M2, l)
      BY <2>1, HeapParts DEF KeepsTop, Points
    <2>3. j < L
      BY <1>1, <2>2 DEF WithinReach
    <2> QED  BY <1>10, <2>2, <2>3 DEF Emptied
  <1> QED  BY <1>10, <1>11

(***************************************************************************)
(* The actions.                                                            *)
(***************************************************************************)
\* An entry that does not count is cleared.
LEMMA ZeroKeeps ==
    ASSUME NEW M, NEW lev, NEW ext, NEW out, Heap(M, lev, ext, out),
           NEW r \in PAGE, lev[r] = "root", ~Present(M, r, 0),
           NEW A, A = [M EXCEPT !.mem[r][0] = Zero]
    PROVE  Heap(A, lev, ext, out)
  <1>1. /\ M \in MemType /\ M.panic = FALSE /\ lev \in [PAGE -> Level] /\ ext \in [PAGE -> Nat]
        /\ out \in SUBSET UserPages /\ Zero \in Entry /\ 0 \in Index
    BY HeapParts, Constants, Entries
  <1>2. CountsExact(M, lev, ext) /\ FreeExact(M, lev, out) /\ TablesOnce(M, lev, ext)
    BY HeapParts
  <1>3. TreeShape(M, lev) /\ KernelKept(M, lev) /\ WithinReach(M, lev)
    BY HeapParts
  <1>4. A \in MemType /\ A.ref = M.ref /\ A.free = M.free /\ A.panic = M.panic
    BY <1>1, EntryParts
  <1>5. /\ A.mem[r][0] = Zero
        /\ \A u \in PAGE, j \in Index : u # r \/ j # 0 => A.mem[u][j] = M.mem[u][j]
        /\ \A u \in PAGE : u # r => A.mem[u] = M.mem[u]
    BY <1>1, EntryValues
  <1>6. Agree(M, lev, A)
    BY <1>5, Entries DEF Agree, Points, Present
  <1>7. (\A p : Slots(A, lev, p) = Slots(M, lev, p)) /\ TreeShape(A, lev) /\ WithinReach(A, lev)
    BY <1>1, <1>3, <1>6, AgreeKeeps
  <1>8. CountsExact(A, lev, ext)
    BY <1>2, <1>4, <1>7 DEF CountsExact
  <1>9. FreeExact(A, lev, out)
    BY <1>2, <1>4 DEF FreeExact, Listed
  <1>10. TablesOnce(A, lev, ext)
    BY <1>2, <1>4 DEF TablesOnce
  <1>11. KernelKept(A, lev)
    <2>1. r \in UserPages
      BY <1>2 DEF TablesOnce
    <2>2. r \notin 1 .. 4 /\ 1 .. 4 \subseteq PAGE /\ 1 \in Index
      BY <2>1, Constants DEF UserPages, KernPages, PAGE
    <2> QED  BY <1>3, <1>5, <2>2 DEF KernelKept
  <1> QED  BY <1>1, <1>4, <1>7, <1>8, <1>9, <1>10, <1>11, HeapIs

\* The next state is the memory that an operation leaves.
LEMMA SetState ==
    ASSUME NEW M \in MemType, Set(M)
    PROVE  State' = M
  <1>1. M = [ref |-> M.ref, free |-> M.free, mem |-> M.mem, panic |-> M.panic]
    BY DEF MemType
  <1>2. State' = [ref |-> M.ref, free |-> M.free, mem |-> M.mem, panic |-> M.panic]
    BY DEF State, Set
  <1> QED  BY <1>1, <1>2

\* An operation that leaves a Heap and the right top-level tables keeps IInv.
LEMMA Settles ==
    ASSUME NEW M, NEW lev, Heap(M, lev, ExtOf(lev), {}), Set(M), RootsOf(lev)'
    PROVE  IInv'
  <1>1. M \in MemType
    BY HeapParts
  <1>2. State' = M
    BY <1>1, SetState
  <1>3. Heap(State', lev, ExtOf(lev), {})
    BY <1>2
  <1> QED  BY <1>3 DEF IInv

SameRoots(lev, lev2) == \A u \in PAGE : lev2[u] = "root" <=> lev[u] = "root"

\* As long as the same pages are top-level tables, their environments agree.
LEMMA RootsStay ==
    ASSUME NEW lev, NEW lev2, RootsOf(lev), SameRoots(lev, lev2), UNCHANGED env_pml4e
    PROVE  RootsOf(lev2)' /\ ExtOf(lev2) = ExtOf(lev)
  <1>1. ExtOf(lev2) = ExtOf(lev)
    BY DEF ExtOf, SameRoots
  <1>2. \A e \in Env : env_pml4e[e] # NULL => lev2[env_pml4e[e]] = "root"
    BY DEF RootsOf, SameRoots
  <1>3. RootsOf(lev2)
    BY <1>2 DEF RootsOf, SameRoots
  <1>4. RootsOf(lev2)'
    BY <1>3 DEF RootsOf
  <1> QED  BY <1>1, <1>4

\* The tables that a walk adds are no top-level tables.
LEMMA NoNewRoots ==
    ASSUME NEW lev, NEW M, NEW lev2, NEW out, Heap(M, lev2, ExtOf(lev), out), Kept(lev, lev2)
    PROVE  SameRoots(lev, lev2)
  <1>1. TablesOnce(M, lev2, ExtOf(lev))
    BY HeapParts
  <1>2. ASSUME NEW u \in PAGE, lev2[u] = "root" PROVE lev[u] = "root"
    <2>1. ExtOf(lev)[u] = 1
      BY <1>1, <1>2 DEF TablesOnce
    <2>2. ExtOf(lev)[u] = IF lev[u] = "root" THEN 1 ELSE 0
      BY DEF ExtOf
    <2> QED  BY <2>1, <2>2
  <1>3. ASSUME NEW u \in PAGE, lev[u] = "root" PROVE lev2[u] = "root"
    BY <1>3 DEF Kept
  <1> QED  BY <1>2, <1>3 DEF SameRoots

\* An address that is mapped has its tables.
LEMMA MappedPath ==
    ASSUME NEW M, NEW lev, NEW ext, NEW out, Heap(M, lev, ext, out),
           NEW r \in PAGE, lev[r] = "root", NEW va \in Address, PML4(va) = 0, "P" \in Leaf(M, r, va).perm
    PROVE  \E pt \in PAGE : /\ lev[pt] = "pt" /\ PathR(M, r, va, pt) /\ Present(M, pt, PTX(va))
                            /\ Leaf(M, r, va) = M.mem[pt][PTX(va)]
  <1> DEFINE c == M.mem[r][PML4(va)].addr
             d == M.mem[c][PDPE(va)].addr
             pt == M.mem[d][PDX(va)].addr
  <1>1. /\ Present(M, r, PML4(va)) /\ Present(M, c, PDPE(va)) /\ Present(M, d, PDX(va))
        /\ Leaf(M, r, va) = M.mem[pt][PTX(va)]
    BY Entries, Zenon DEF Leaf
  <1>2. PML4(va) \in Index /\ PDPE(va) \in Index /\ PDX(va) \in Index
    BY AddressParts
  <1>3. /\ c = M.mem[r][PML4(va)].addr /\ d = M.mem[c][PDPE(va)].addr /\ pt = M.mem[d][PDX(va)].addr
    OBVIOUS
  <1> HIDE DEF c, d, pt
  <1>4. c \in PAGE /\ lev[c] = "pdpt"
    <2>1. Points(M, lev, r, PML4(va))
      BY <1>1 DEF Points
    <2>2. c \in PAGE /\ lev[c] = Below(lev[r])
      <3>1. r \in PAGE /\ PML4(va) \in Index
        BY <1>2
      <3>2. c = M.mem[r][PML4(va)].addr
        BY <1>3, Zenon
      <3> QED  BY <2>1, <3>1, <3>2, Child
    <2> QED  BY <2>2 DEF Below
  <1>5. d \in PAGE /\ lev[d] = "dir"
    <2>1. Points(M, lev, c, PDPE(va))
      BY <1>1, <1>4 DEF Points
    <2>2. d \in PAGE /\ lev[d] = Below(lev[c])
      <3>1. c \in PAGE /\ PDPE(va) \in Index
        BY <1>2, <1>4
      <3>2. d = M.mem[c][PDPE(va)].addr
        BY <1>3, Zenon
      <3> QED  BY <2>1, <3>1, <3>2, Child
    <2> QED  BY <1>4, <2>2 DEF Below
  <1>6. pt \in PAGE /\ lev[pt] = "pt"
    <2>1. Points(M, lev, d, PDX(va))
      BY <1>1, <1>5 DEF Points
    <2>2. pt \in PAGE /\ lev[pt] = Below(lev[d])
      <3>1. d \in PAGE /\ PDX(va) \in Index
        BY <1>2, <1>5
      <3>2. pt = M.mem[d][PDX(va)].addr
        BY <1>3, Zenon
      <3> QED  BY <2>1, <3>1, <3>2, Child
    <2> QED  BY <1>5, <2>2 DEF Below
  <1>7. PathR(M, r, va, pt)
    BY <1>1, <1>3, Zenon DEF PathR, PathP, PathD
  <1>8. Present(M, pt, PTX(va))
    BY <1>1 DEF Present
  <1> QED  BY <1>1, <1>6, <1>7, <1>8

\* The page that an entry points to has a count, and is none of the tables
\* if the entry is one of a page table.
LEMMA DataCounted ==
    ASSUME NEW M, NEW lev, NEW ext, NEW out, Heap(M, lev, ext, out),
           NEW t \in PAGE, NEW i \in Index, lev[t] = "pt", Present(M, t, i), NEW p, p = M.mem[t][i].addr
    PROVE  p \in UserPages /\ lev[p] = "no" /\ M.ref[p] > 0
  <1>1. Points(M, lev, t, i)
    BY DEF Points
  <1>2. p \in UserPages /\ p \in PAGE /\ lev[p] = "no"
    <2>1. p \in UserPages /\ p \in PAGE /\ lev[p] = Below(lev[t])
      BY <1>1, Child
    <2> QED  BY <2>1 DEF Below
  <1>3. M.ref[p] # 0
    BY <1>1, <1>2, Unreferenced
  <1>4. M.ref[p] \in Nat
    <2>1. M \in MemType
      BY HeapParts
    <2>2. M.ref[p] \in 0 .. RefMod - 1
      BY <1>2, <2>1, Parts
    <2> QED  BY <2>2
  <1> QED  BY <1>2, <1>3, <1>4

\* The top-level table of an environment is one.
LEMMA Roots1 ==
    ASSUME NEW lev, RootsOf(lev), NEW e \in Env, env_pml4e[e] # NULL
    PROVE  env_pml4e[e] \in PAGE /\ lev[env_pml4e[e]] = "root"
  BY DEF RootsOf

(***************************************************************************)
(* What a step does to the mappings below UTOP: to none, ...               *)
(***************************************************************************)
Nowhere ==
    /\ UNCHANGED env_pml4e
    /\ \A f \in Env, a \in Address : env_pml4e[f] # NULL /\ PML4(a) = 0 =>
          Leaf(State', env_pml4e[f], a) = Leaf(State, env_pml4e[f], a)

\* ... to one address of one environment, where it puts the entry x, ...
Put(e, va, x) ==
    /\ UNCHANGED env_pml4e /\ env_pml4e[e] # NULL /\ Leaf(State', env_pml4e[e], va) = x
    /\ \A f \in Env, a \in Address : env_pml4e[f] # NULL /\ PML4(a) = 0 /\ (f # e \/ a # va) =>
          Leaf(State', env_pml4e[f], a) = Leaf(State, env_pml4e[f], a)

\* ... or to those of one environment, which begins, with none, or ends.
Replaced(e) ==
    /\ (env_pml4e[e] = NULL) # (env_pml4e'[e] = NULL)
    /\ \A f \in Env : f # e => env_pml4e'[f] = env_pml4e[f]
    /\ \A f \in Env, a \in Address : f # e /\ env_pml4e[f] # NULL /\ PML4(a) = 0 =>
          Leaf(State', env_pml4e[f], a) = Leaf(State, env_pml4e[f], a)
    /\ env_pml4e'[e] # NULL => \A a : PML4(a) = 0 => Leaf(State', env_pml4e'[e], a) = Zero

\* What may be put: nothing, where something was; a page that was free; or a
\* page that is mapped somewhere, writable only if it is there.  A page put
\* where it already is costs nothing.
Source(x) ==
    \E src \in Env, srcva \in VA :
       /\ env_pml4e[src] # NULL /\ "P" \in Leaf(State, env_pml4e[src], srcva).perm
       /\ x.addr = Leaf(State, env_pml4e[src], srcva).addr
       /\ "W" \in x.perm => "W" \in Leaf(State, env_pml4e[src], srcva).perm

Rightful(e, va, x) ==
    \/ x = Zero /\ "P" \in Leaf(State, env_pml4e[e], va).perm
    \/ "P" \in x.perm /\ x.addr \in UserPages /\ pp_ref[x.addr] = 0
    \/ Source(x) /\ (Leaf(State, env_pml4e[e], va) = x => UNCHANGED <<pp_ref, page_free_list>>)

Shift ==
    \/ Nowhere /\ UNCHANGED <<pp_ref, page_free_list>>
    \/ \E e \in Env, va \in VA : \E x : Put(e, va, x) /\ Rightful(e, va, x)
    \/ \E e \in Env : Replaced(e)

LEMMA SameNowhere ==
    ASSUME NEW lev, RootsOf(lev), NEW M2 \in MemType, Set(M2), SameMap(State, lev, M2), UNCHANGED env_pml4e
    PROVE  Nowhere
  <1>1. State' = M2
    BY SetState
  <1>2. ASSUME NEW f \in Env, NEW a \in Address, env_pml4e[f] # NULL, PML4(a) = 0
        PROVE  Leaf(M2, env_pml4e[f], a) = Leaf(State, env_pml4e[f], a)
    BY <1>2, Roots1 DEF SameMap
  <1> QED  BY <1>1, <1>2 DEF Nowhere

LEMMA MapsPut ==
    ASSUME NEW lev, RootsOf(lev), NEW M2 \in MemType, Set(M2), UNCHANGED env_pml4e, NEW e \in Env, env_pml4e[e] # NULL,
           NEW va, NEW x, Maps(State, lev, env_pml4e[e], va, x, M2)
    PROVE  Put(e, va, x)
  <1>1. State' = M2
    BY SetState
  <1>2. ASSUME NEW f \in Env, NEW a \in Address, env_pml4e[f] # NULL, PML4(a) = 0, f # e \/ a # va
        PROVE  Leaf(M2, env_pml4e[f], a) = Leaf(State, env_pml4e[f], a)
    <2>1. env_pml4e[f] \in PAGE /\ lev[env_pml4e[f]] = "root"
      BY <1>2, Roots1
    <2>2. env_pml4e[f] # env_pml4e[e] \/ a # va
      BY <1>2 DEF RootsOf
    <2> QED  BY <1>2, <2>1, <2>2 DEF Maps
  <1>3. Leaf(M2, env_pml4e[e], va) = x
    BY DEF Maps
  <1> QED  BY <1>1, <1>2, <1>3 DEF Put

\* sys_page_unmap()
LEMMA UnmapStep ==
    ASSUME Sound, IInv, NEW e \in Env, NEW va \in VA, sys_page_unmap(e, va)
    PROVE  IInv' /\ Shift
  <1> DEFINE r == env_pml4e[e]
             R == page_remove(State, r, va)
  <1>1. PICK lev : Heap(State, lev, ExtOf(lev), {}) /\ RootsOf(lev)
    BY DEF IInv
  <1>2. va \in Address /\ Reached(va)
    BY PmapAssumption DEF Sound
  <1>3. r # NULL /\ Mapped(e, va) /\ Set(R) /\ UNCHANGED env_pml4e
    BY DEF sys_page_unmap, Sound
  <1>4. r \in PAGE /\ lev[r] = "root"
    BY <1>1, <1>3, Roots1
  <1>5. "P" \in Leaf(State, r, va).perm
    BY <1>3 DEF Mapped
  <1>6. R = page_remove(State, r, va)
    OBVIOUS
  <1> HIDE DEF r, R
  <1>7. PICK pt \in PAGE : lev[pt] = "pt" /\ PathR(State, r, va, pt) /\ Present(State, pt, PTX(va))
    <2>1. PML4(va) = 0
      BY <1>2 DEF Reached
    <2> QED  BY <1>1, <1>2, <1>4, <1>5, <2>1, MappedPath
  <1>8. /\ Heap(R, lev, ExtOf(lev), {})
        /\ R.mem = [State.mem EXCEPT ![pt] = [State.mem[pt] EXCEPT ![PTX(va)] = Zero]]
    BY <1>1, <1>2, <1>6, <1>7, RemoveAt
  <1>9. SameRoots(lev, lev)
    BY DEF SameRoots
  <1>10. RootsOf(lev)'
    BY <1>1, <1>3, <1>9, RootsStay
  <1>11. IInv'
    BY <1>3, <1>8, <1>10, Settles
  <1>12. PML4(va) = 0 /\ PTX(va) \in Index /\ State.mem \in [PAGE -> [Index -> Entry]] /\ R \in MemType
    BY <1>1, <1>2, <1>8, AddressParts, HeapParts, Parts DEF Reached
  <1>13. /\ \A u \in PAGE : u # pt => R.mem[u] = State.mem[u]
         /\ R.mem[pt][PTX(va)] = Zero /\ \A j \in Index : j # PTX(va) => R.mem[pt][j] = State.mem[pt][j]
    BY <1>8, <1>12
  <1>14. Maps(State, lev, r, va, Zero, R)
    BY <1>1, <1>2, <1>4, <1>7, <1>12, <1>13, SetMap
  <1>15. Put(e, va, Zero)
    BY <1>1, <1>3, <1>12, <1>14, MapsPut DEF r
  <1>16. Rightful(e, va, Zero)
    BY <1>5 DEF Rightful, r
  <1> QED  BY <1>11, <1>15, <1>16 DEF Shift

\* sys_page_alloc(), with the page given back when it cannot be mapped.
LEMMA AllocStep ==
    ASSUME Sound, IInv, NEW e \in Env, NEW va \in VA, NEW perm \in SUBSET {"W"}, sys_page_alloc(e, va, perm)
    PROVE  IInv' /\ Shift
  <1> DEFINE r == env_pml4e[e]
             p == Head(page_free_list)
             A == page_alloc(State)
             I == page_insert(A, r, p, va, perm)
             M2 == IF I.ok THEN I.m ELSE page_free(I.m, p)
  <1>1. PICK lev : Heap(State, lev, ExtOf(lev), {}) /\ RootsOf(lev)
    BY DEF IInv
  <1>2. va \in Address /\ Reached(va)
    BY PmapAssumption DEF Sound
  <1>3. r # NULL /\ page_free_list # <<>> /\ Set(M2) /\ UNCHANGED env_pml4e
    BY DEF sys_page_alloc
  <1>4. r \in PAGE /\ lev[r] = "root"
    BY <1>1, <1>3, Roots1
  <1>5. p = Head(State.free) /\ State.free # <<>> /\ A = page_alloc(State) /\ I = page_insert(A, r, p, va, perm)
    BY <1>3 DEF State
  <1>6. (\A m : I = Ok(m) => M2 = m) /\ (\A m : I = Failed(m) => M2 = page_free(m, p))
    BY DEF Ok, Failed
  <1> HIDE DEF r, p, A, I, M2
  <1> DEFINE ext == ExtOf(lev)
             out == {} \cup {p}
  <1>7. p \in UserPages /\ Heap(A, lev, ext, out) /\ State.ref[p] = 0 /\ lev[p] = "no"
    BY <1>1, <1>5, AllocKeeps
  <1> HIDE DEF ext
  <1>8. p \in out /\ out \ {p} = {}
    OBVIOUS
  <1> HIDE DEF out
  <1>9. Countable(A, lev, out, p)
    <2>1. p \in UserPages /\ p \in out
      BY <1>7, <1>8
    <2> QED  BY <2>1 DEF Countable
  <1> DEFINE x == [addr |-> p, perm |-> perm \cup {"P"}]
  <1>15. x = [addr |-> p, perm |-> perm \cup {"P"}]
    OBVIOUS
  <1> HIDE DEF x
  <1>10. PICK lev2, m : /\ Kept(lev, lev2)
                        /\ \/ I = Ok(m) /\ Heap(m, lev2, ext, out \ {p}) /\ Inserted(A, lev, out, r, va, x, m)
                           \/ I = Failed(m) /\ Heap(m, lev2, ext, out) /\ GaveUp(A, lev, m)
    <2>1. Heap(A, lev, ext, out) /\ r \in PAGE /\ lev[r] = "root" /\ va \in Address /\ Reached(va)
      BY <1>2, <1>4, <1>7
    <2>2. I = page_insert(A, r, p, va, perm)
      BY <1>5
    <2> QED  BY <1>9, <1>15, <2>1, <2>2, InsertKeeps
  <1>11. Heap(M2, lev2, ext, {})
    <2>1. CASE I = Ok(m) /\ Heap(m, lev2, ext, out \ {p})
      BY <1>6, <1>8, <2>1
    <2>2. CASE I = Failed(m) /\ Heap(m, lev2, ext, out)
      <3>1. Heap(page_free(m, p), lev2, ext, out \ {p})
        BY <1>8, <2>2, FreeKeeps
      <3>2. M2 = page_free(m, p)
        BY <1>6, <2>2
      <3> QED  BY <1>8, <3>1, <3>2
    <2> QED  BY <1>10, <2>1, <2>2
  <1>12. SameRoots(lev, lev2)
    BY <1>10, <1>11, NoNewRoots DEF ext
  <1>13. RootsOf(lev2)' /\ ExtOf(lev2) = ExtOf(lev)
    BY <1>1, <1>3, <1>12, RootsStay
  <1>14. Heap(M2, lev2, ExtOf(lev2), {})
    BY <1>11, <1>13 DEF ext
  <1>16. IInv'
    BY <1>3, <1>13, <1>14, Settles
  <1>17. M2 \in MemType /\ State \in MemType
    BY <1>1, <1>11, HeapParts
  <1>18. /\ State.free \in Seq(PAGE) /\ A.ref = State.ref /\ A.free = Tail(State.free)
         /\ A.mem = [State.mem EXCEPT ![p] = ZeroPage] /\ State.mem \in [PAGE -> [Index -> Entry]]
    BY <1>5, <1>17, AllocParts, Parts
  <1>19. SameMap(State, lev, A)
    <2>1. \A u \in PAGE : u # p => A.mem[u] = State.mem[u]
      BY <1>18
    <2>2. Grown(State, lev, A)
      BY <1>7, <2>1 DEF Grown
    <2> QED  BY <1>1, <2>2, GrownMap
  <1>20. CASE I = Ok(m) /\ Inserted(A, lev, out, r, va, x, m)
    <2>1. Maps(State, lev, r, va, x, m)
      BY <1>19, <1>20 DEF Inserted, Maps, SameMap
    <2>2. Put(e, va, x)
      <3>1. M2 = m
        BY <1>6, <1>20
      <3> QED  BY <1>1, <1>3, <1>17, <2>1, <3>1, MapsPut DEF r
    <2>3. Rightful(e, va, x)
      <3>1. "P" \in x.perm /\ x.addr = p /\ pp_ref[p] = 0
        BY <1>7, <1>15 DEF State
      <3> QED  BY <1>7, <3>1 DEF Rightful
    <2> QED  BY <1>16, <2>2, <2>3 DEF Shift
  <1>21. CASE I = Failed(m) /\ Heap(m, lev2, ext, out) /\ GaveUp(A, lev, m)
    <2>1. M2 = page_free(m, p)
      BY <1>6, <1>21
    <2>2. M2.ref = m.ref /\ M2.mem = m.mem /\ M2.free = <<p>> \o m.free
      <3>1. Given(m, p, page_free(m, p))
        <4>1. Heap(m, lev2, ext, out) /\ p \in out
          BY <1>8, <1>21
        <4> QED  BY <4>1, FreeKeeps
      <3> QED  BY <2>1, <3>1 DEF Given
    <2>3. SameMap(A, lev, m) /\ m.ref = A.ref /\ m.free = A.free
      BY <1>21 DEF GaveUp
    <2>4. M2.ref = State.ref /\ M2.free = State.free
      <3>1. <<Head(State.free)>> \o Tail(State.free) = State.free
        BY <1>5, <1>18, PutBack
      <3> QED  BY <1>5, <1>18, <2>2, <2>3, <3>1
    <2>5. SameMap(State, lev, M2)
      <3>1. \A u, a : Leaf(M2, u, a) = Leaf(m, u, a)
        BY <2>2 DEF Leaf, Present
      <3> QED  BY <1>19, <2>3, <3>1 DEF SameMap
    <2>6. Nowhere
      BY <1>1, <1>3, <1>17, <2>5, SameNowhere
    <2>7. UNCHANGED <<pp_ref, page_free_list>>
      BY <1>3, <2>4 DEF Set, State
    <2> QED  BY <1>16, <2>6, <2>7 DEF Shift
  <1> QED  BY <1>10, <1>20, <1>21

\* sys_page_map(), and sys_ipc_try_send() to a receiver that wants a page.
LEMMA MapStep ==
    ASSUME Sound, IInv, NoOverflow, NEW src \in Env, NEW dst \in Env,
           NEW srcva \in VA, NEW dstva \in VA, NEW perm \in SUBSET {"W"},
           env_pml4e[src] # NULL, env_pml4e[dst] # NULL, Mapped(src, srcva),
           map_page(src, srcva, dst, dstva, perm), UNCHANGED env_pml4e
    PROVE  IInv' /\ Shift
  <1> DEFINE r == env_pml4e[src]
             s == env_pml4e[dst]
             W == WalkR(State, r, srcva)
             I == page_insert(W.m, s, At(W.m, W.pte).addr, dstva, perm)
  <1>1. PICK lev : Heap(State, lev, ExtOf(lev), {}) /\ RootsOf(lev)
    BY DEF IInv
  <1>2. srcva \in Address /\ Reached(srcva) /\ dstva \in Address /\ Reached(dstva)
    BY PmapAssumption DEF Sound
  <1>3. Set(IF W.pte = NULL THEN W.m
            ELSE IF "W" \in perm /\ "W" \notin At(W.m, W.pte).perm THEN W.m ELSE I.m)
    BY DEF map_page, page_lookup, WalkR
  <1>4. r \in PAGE /\ lev[r] = "root" /\ s \in PAGE /\ lev[s] = "root"
    BY <1>1, Roots1
  <1>5. "P" \in Leaf(State, r, srcva).perm
    BY DEF Mapped
  <1>6. W = WalkR(State, r, srcva) /\ I = page_insert(W.m, s, At(W.m, W.pte).addr, dstva, perm)
    OBVIOUS
  <1> HIDE DEF r, s, W, I
  <1>7. PICK pt \in PAGE : lev[pt] = "pt" /\ PathR(State, r, srcva, pt) /\ Present(State, pt, PTX(srcva))
    <2>1. PML4(srcva) = 0
      BY <1>2 DEF Reached
    <2> QED  BY <1>1, <1>2, <1>4, <1>5, <2>1, MappedPath
  <1> DEFINE p == State.mem[pt][PTX(srcva)].addr
  <1>8. W = Walked(State, <<pt, PTX(srcva)>>)
    BY <1>6, <1>7, WalkExisting
  <1>9. W.m = State /\ W.pte = <<pt, PTX(srcva)>> /\ At(W.m, W.pte).addr = p
    BY <1>8 DEF Walked, At
  <1>10. I = page_insert(State, s, p, dstva, perm) /\ p = State.mem[pt][PTX(srcva)].addr
    BY <1>6, <1>9
  <1> HIDE DEF p
  <1>11. Countable(State, lev, {}, p)
    <2>1. p \in UserPages /\ lev[p] = "no" /\ State.ref[p] > 0
      BY <1>1, <1>2, <1>7, <1>10, AddressParts, DataCounted
    <2>2. State.ref[p] + 1 < RefMod
      <3>1. pp_ref[p] < RefMod - 1 /\ State.ref = pp_ref
        BY <2>1 DEF NoOverflow, State
      <3>2. State.ref[p] \in 0 .. RefMod - 1
        <4>1. State \in MemType
          BY <1>1, HeapParts
        <4>2. p \in PAGE
          BY <2>1 DEF UserPages
        <4> QED  BY <4>1, <4>2, Parts
      <3>3. RefMod \in Nat
        BY Constants
      <3> QED  BY <3>1, <3>2, <3>3
    <2> QED  BY <2>1, <2>2 DEF Countable
  <1> DEFINE x == [addr |-> p, perm |-> perm \cup {"P"}]
  <1>17. x = [addr |-> p, perm |-> perm \cup {"P"}]
    OBVIOUS
  <1> HIDE DEF x
  <1>12. PICK lev2, m : /\ Kept(lev, lev2)
                        /\ \/ I = Ok(m) /\ Heap(m, lev2, ExtOf(lev), {} \ {p}) /\ Inserted(State, lev, {}, s, dstva, x, m)
                           \/ I = Failed(m) /\ Heap(m, lev2, ExtOf(lev), {}) /\ GaveUp(State, lev, m)
    <2> DEFINE out == {}
               ext == ExtOf(lev)
    <2>1. Heap(State, lev, ext, out) /\ Countable(State, lev, out, p)
      BY <1>1, <1>11
    <2> HIDE DEF out, ext
    <2>2. \E lev2, m : /\ Kept(lev, lev2)
                       /\ \/ I = Ok(m) /\ Heap(m, lev2, ext, out \ {p}) /\ Inserted(State, lev, out, s, dstva, x, m)
                          \/ I = Failed(m) /\ Heap(m, lev2, ext, out) /\ GaveUp(State, lev, m)
      BY <1>2, <1>4, <1>10, <1>17, <2>1, InsertKeeps
    <2> QED  BY <2>2 DEF out, ext
  <1>13. Heap(m, lev2, ExtOf(lev), {}) /\ I.m = m
    <2>1. {} \ {p} = {}
      OBVIOUS
    <2> QED  BY <1>12, <2>1 DEF Ok, Failed
  <1>14. CASE Set(State)
    <2>1. SameRoots(lev, lev)
      BY DEF SameRoots
    <2>2. RootsOf(lev)'
      BY <1>1, <2>1, RootsStay
    <2>3. IInv'
      BY <1>1, <1>14, <2>2, Settles
    <2>4. Nowhere
      <3>1. State \in MemType
        BY <1>1, HeapParts
      <3> QED  BY <1>1, <1>14, <3>1, SameNowhere DEF SameMap
    <2>5. UNCHANGED <<pp_ref, page_free_list>>
      BY <1>14 DEF Set, State
    <2> QED  BY <2>3, <2>4, <2>5 DEF Shift
  <1> DEFINE pte == State.mem[pt][PTX(srcva)]
  <1>15. CASE Set(m) /\ ("W" \in perm => "W" \in pte.perm)
    <2>1. SameRoots(lev, lev2)
      BY <1>12, <1>13, NoNewRoots
    <2>2. RootsOf(lev2)' /\ ExtOf(lev2) = ExtOf(lev)
      BY <1>1, <2>1, RootsStay
    <2>3. Heap(m, lev2, ExtOf(lev2), {})
      BY <1>13, <2>2
    <2>4. IInv'
      BY <1>15, <2>2, <2>3, Settles
    <2>5. m \in MemType
      BY <1>13, HeapParts
    <2>6. CASE GaveUp(State, lev, m)
      <3>1. SameMap(State, lev, m) /\ m.ref = State.ref /\ m.free = State.free
        BY <2>6 DEF GaveUp
      <3>2. Nowhere
        BY <1>1, <1>15, <2>5, <3>1, SameNowhere
      <3>3. UNCHANGED <<pp_ref, page_free_list>>
        BY <1>15, <3>1 DEF Set, State
      <3> QED  BY <2>4, <3>2, <3>3 DEF Shift
    <2>7. CASE Inserted(State, lev, {}, s, dstva, x, m)
      <3>1. Maps(State, lev, s, dstva, x, m)
        BY <2>7 DEF Inserted
      <3>2. Put(dst, dstva, x)
        BY <1>1, <1>15, <2>5, <3>1, MapsPut DEF s
      <3>3. Source(x)
        <4>1. Leaf(State, r, srcva) = pte /\ "P" \in pte.perm /\ pte.addr = p
          BY <1>7, <1>10, LeafAt DEF Present
        <4>2. x.addr = p /\ ("W" \in x.perm => "W" \in pte.perm)
          BY <1>15, <1>17
        <4> HIDE DEF pte
        <4> QED  BY <4>1, <4>2 DEF Source, r
      <3>4. ASSUME Leaf(State, s, dstva) = x PROVE UNCHANGED <<pp_ref, page_free_list>>
        <4>1. m.ref = State.ref /\ m.free = State.free
          BY <2>7, <3>4 DEF Inserted
        <4> QED  BY <1>15, <4>1 DEF Set, State
      <3>5. Rightful(dst, dstva, x)
        BY <3>3, <3>4 DEF Rightful, s
      <3> QED  BY <2>4, <3>2, <3>5 DEF Shift
    <2> QED  BY <1>12, <2>6, <2>7
  <1>16. Set(State) \/ (Set(m) /\ ("W" \in perm => "W" \in pte.perm))
    <2>4. At(W.m, W.pte) = pte
      BY <1>9 DEF At
    <2> HIDE DEF pte
    <2>1. CASE W.pte = NULL
      BY <1>3, <1>9, <2>1
    <2>2. CASE W.pte # NULL /\ "W" \in perm /\ "W" \notin At(W.m, W.pte).perm
      BY <1>3, <1>9, <2>2
    <2>3. CASE W.pte # NULL /\ ~("W" \in perm /\ "W" \notin At(W.m, W.pte).perm)
      BY <1>3, <1>13, <2>3, <2>4
    <2> QED  BY <2>1, <2>2, <2>3
  <1> QED  BY <1>14, <1>15, <1>16

\* A new address space, at p, has no mappings; the others have theirs.
Begun(M, lev, p, R) == SameMap(M, lev, R) /\ \A a : PML4(a) = 0 => Leaf(R, p, a) = Zero

\* env_setup_vm(): page_alloc(), pp_ref++ and the two kernel entries.
LEMMA SetupKeeps ==
    ASSUME NEW M, NEW lev, Heap(M, lev, ExtOf(lev), {}), M.free # <<>>,
           NEW p, p = Head(M.free), NEW R, R = setup_vm(M, p), NEW lev2, lev2 = [lev EXCEPT ![p] = "root"]
    PROVE  /\ Heap(R, lev2, ExtOf(lev2), {})
           /\ Begun(M, lev, p, R)
  <1> DEFINE ext == ExtOf(lev)
             out == {} \cup {p}
             more == [ext EXCEPT ![p] = ext[p] + 1]
             A == page_alloc(M)
             B == incref(A, p)
             x == [ZeroPage EXCEPT ![1] = Link(1), ![2] = [addr |-> p, perm |-> {"P"}]]
  <1>1. p \in UserPages /\ p \in PAGE /\ M.ref[p] = 0 /\ lev[p] = "no" /\ Heap(A, lev, ext, out)
    BY AllocKeeps DEF UserPages
  <1>2. R = [B EXCEPT !.mem[p] = x] /\ B = incref(A, p)
    BY DEF setup_vm, Link
  <1>3. M \in MemType /\ A \in MemType /\ A.ref = M.ref
    <2>1. M \in MemType
      BY HeapParts
    <2> QED  BY <2>1, AllocParts
  <1>4. x \in [Index -> Entry] /\ x[0] = Zero /\ x[1] = Link(1)
    <2>1. 1 \in PAGE /\ 0 \in Index /\ 1 \in Index /\ 2 \in Index
      <3>1. 1 \in PAGE
        BY Constants DEF PAGE
      <3> QED  BY <3>1, Constants
    <2>2. Link(1) \in Entry /\ [addr |-> p, perm |-> {"P"}] \in Entry
      BY <1>1, <2>1 DEF Link, Entry
    <2> QED  BY <2>1, <2>2, Entries
  <1>5. ext \in [PAGE -> Nat] /\ ext[p] = 0 /\ lev \in [PAGE -> Level]
    <2>1. ext \in [PAGE -> Nat] /\ lev \in [PAGE -> Level]
      BY HeapParts
    <2>2. ext[p] = 0
      BY <1>1 DEF ExtOf
    <2> QED  BY <2>1, <2>2
  <1>6. more[p] = 1 /\ more = ExtOf(lev2)
    BY <1>1, <1>5 DEF ExtOf
  <1> HIDE DEF A, B, x, ext, out, more
  <1>7. p \in out /\ out \ {p} = {}
    BY DEF out
  <1>8. A.ref[p] + 1 < RefMod /\ A.ref[p] = 0
    <2>1. 0 + 1 < RefMod
      BY Constants
    <2> QED  BY <1>1, <1>3, <2>1
  <1>9. Heap(B, lev, more, out \ {p})
    BY <1>1, <1>2, <1>7, <1>8, IncrefKeeps DEF more
  <1>10. B.ref[p] = 1
    <2>1. B.ref = [A.ref EXCEPT ![p] = A.ref[p] + 1]
      BY <1>1, <1>2, <1>3, <1>8, CountUp
    <2>2. A.ref \in [PAGE -> 0 .. RefMod - 1]
      BY <1>3, Parts
    <2> QED  BY <1>1, <1>8, <2>1, <2>2
  <1>11. Heap(B, lev, more, {})
    BY <1>7, <1>9
  <1>12. Heap([B EXCEPT !.mem[p] = x], [lev EXCEPT ![p] = "root"], more, {})
    BY <1>1, <1>4, <1>6, <1>10, <1>11, RootKeeps
  <1>13. Heap(R, lev2, ExtOf(lev2), {})
    BY <1>1, <1>2, <1>6, <1>12
  <1>14. R.mem[p] = x /\ \A u \in PAGE : u # p => R.mem[u] = M.mem[u]
    <2>1. M.mem \in [PAGE -> [Index -> Entry]] /\ A.mem = [M.mem EXCEPT ![p] = ZeroPage]
      BY <1>3, Parts, AllocParts DEF A
    <2>2. B.mem = A.mem
      BY <1>1, <1>2, <1>3, IncrefParts
    <2>3. R.mem = [B.mem EXCEPT ![p] = x]
      <3>1. B \in MemType
        BY <1>11, HeapParts
      <3> QED  BY <1>2, <3>1 DEF MemType
    <2> QED  BY <1>1, <2>1, <2>2, <2>3
  <1>15. SameMap(M, lev, R)
    <2>1. Grown(M, lev, R)
      BY <1>1, <1>14 DEF Grown
    <2> QED  BY <2>1, GrownMap
  <1>16. ASSUME NEW a, PML4(a) = 0 PROVE Leaf(R, p, a) = Zero
    <2>1. ~Present(R, p, PML4(a))
      BY <1>4, <1>14, <1>16, Entries DEF Present
    <2> QED  BY <2>1, LeafIs
  <1> QED  BY <1>13, <1>15, <1>16 DEF Begun

\* env_setup_vm()
LEMMA SetupStep ==
    ASSUME IInv, NEW e \in Env, env_setup_vm(e)
    PROVE  IInv' /\ Shift
  <1> DEFINE p == Head(page_free_list)
             R == setup_vm(State, p)
  <1>1. PICK lev : Heap(State, lev, ExtOf(lev), {}) /\ RootsOf(lev)
    BY DEF IInv
  <1>10. PICK lev2 : lev2 = [lev EXCEPT ![p] = "root"]
    OBVIOUS
  <1>2. /\ env_pml4e[e] = NULL /\ page_free_list # <<>> /\ Set(R)
        /\ env_pml4e' = [env_pml4e EXCEPT ![e] = p]
    BY DEF env_setup_vm
  <1>3. p = Head(State.free) /\ State.free # <<>> /\ R = setup_vm(State, p)
    BY <1>2 DEF State
  <1> HIDE DEF p, R
  <1>4. /\ p \in UserPages /\ lev[p] = "no" /\ Heap(R, lev2, ExtOf(lev2), {})
        /\ SameMap(State, lev, R) /\ \A a : PML4(a) = 0 => Leaf(R, p, a) = Zero
    <2>1. Heap(State, lev, ExtOf(lev), {})
      BY <1>1
    <2> DEFINE M == State
    <2>2. Heap(M, lev, ExtOf(lev), {}) /\ M.free # <<>> /\ p = Head(M.free)
      BY <1>3, <2>1
    <2>3. R = setup_vm(M, p)
      BY <1>3
    <2> HIDE DEF M
    <2>4. p \in UserPages /\ lev[p] = "no"
      BY <2>2, AllocKeeps
    <2>5. Heap(R, lev2, ExtOf(lev2), {}) /\ Begun(M, lev, p, R)
      BY <1>10, <2>2, <2>3, SetupKeeps
    <2> QED  BY <2>4, <2>5 DEF M, Begun
  <1>5. p \in PAGE /\ p # NULL /\ lev \in [PAGE -> Level]
    BY <1>1, <1>4, Constants, HeapParts DEF UserPages
  <1>6. lev2[p] = "root" /\ \A u \in PAGE : u # p => lev2[u] = lev[u]
    BY <1>5, <1>10
  <1>7. /\ env_pml4e \in [Env -> PAGE \cup {NULL}]
        /\ \A f \in Env : env_pml4e[f] # NULL => lev[env_pml4e[f]] = "root"
        /\ \A f, g \in Env : env_pml4e[f] # NULL /\ env_pml4e[f] = env_pml4e[g] => f = g
        /\ \A u \in PAGE : lev[u] = "root" => \E f \in Env : env_pml4e[f] = u
    BY <1>1 DEF RootsOf
  <1>8. \A f \in Env : env_pml4e[f] # p
    BY <1>4, <1>5, <1>7
  <1>9. RootsOf(lev2)'
    <2>1. env_pml4e' \in [Env -> PAGE \cup {NULL}] /\ env_pml4e'[e] = p
          /\ \A f \in Env : f # e => env_pml4e'[f] = env_pml4e[f]
      BY <1>2, <1>5, <1>7
    <2>2. \A f \in Env : env_pml4e'[f] # NULL => lev2[env_pml4e'[f]] = "root"
      BY <1>6, <1>7, <1>8, <2>1
    <2>3. \A f, g \in Env : env_pml4e'[f] # NULL /\ env_pml4e'[f] = env_pml4e'[g] => f = g
      BY <1>7, <1>8, <2>1
    <2>4. \A u \in PAGE : lev2[u] = "root" => \E f \in Env : env_pml4e'[f] = u
      <3> SUFFICES ASSUME NEW u \in PAGE, lev2[u] = "root" PROVE \E f \in Env : env_pml4e'[f] = u
        OBVIOUS
      <3>1. CASE u = p
        BY <2>1, <3>1
      <3>2. CASE u # p
        <4>1. PICK f \in Env : env_pml4e[f] = u
          BY <1>6, <1>7, <3>2
        <4>2. f # e
          BY <1>2, <4>1, Constants
        <4> QED  BY <2>1, <4>1, <4>2
      <3> QED  BY <3>1, <3>2
    <2> QED  BY <2>1, <2>2, <2>3, <2>4 DEF RootsOf
  <1>11. IInv'
    BY <1>2, <1>4, <1>9, Settles
  <1>12. Replaced(e)
    <2>1. env_pml4e'[e] = p /\ \A f \in Env : f # e => env_pml4e'[f] = env_pml4e[f]
      BY <1>2, <1>7
    <2>2. State' = R
      <3>1. R \in MemType
        BY <1>4, HeapParts
      <3> QED  BY <1>2, <3>1, SetState
    <2>3. ASSUME NEW f \in Env, NEW a \in Address, env_pml4e[f] # NULL, PML4(a) = 0
          PROVE  Leaf(R, env_pml4e[f], a) = Leaf(State, env_pml4e[f], a)
      <3>1. env_pml4e[f] \in PAGE /\ lev[env_pml4e[f]] = "root"
        BY <1>1, <2>3, Roots1
      <3> QED  BY <1>4, <2>3, <3>1 DEF SameMap
    <2> QED  BY <1>2, <1>4, <1>5, <2>1, <2>2, <2>3 DEF Replaced
  <1> QED  BY <1>11, <1>12 DEF Shift

\* env_free() gives back everything below the top-level table, ...
LEMMA UserPartFreed ==
    ASSUME NEW M, NEW lev, NEW ext, NEW out, Heap(M, lev, ext, out),
           NEW r \in PAGE, lev[r] = "root", Present(M, r, 0), NEW pdpt, pdpt = M.mem[r][0].addr,
           NEW U, U = DirectoriesUpTo(M, r, pdpt, TopPdpe + 1),
           NEW R, R = Removed(U, r, 0, pdpt)
    PROVE  /\ \E lev2 : Heap(R, lev2, ext, out) /\ SameRoots(lev, lev2) /\ ~Present(R, r, 0)
           /\ OtherMaps(M, lev, r, R)
  <1>1. 0 \in Index
    BY Constants
  <1>2. Points(M, lev, r, 0)
    BY DEF Points
  <1>3. pdpt \in PAGE /\ lev[pdpt] = "pdpt"
    <2>1. pdpt = M.mem[r][0].addr
      OBVIOUS
    <2>2. pdpt \in PAGE /\ lev[pdpt] = Below(lev[r])
      BY <1>1, <1>2, <2>1, Child
    <2> QED  BY <2>2 DEF Below
  <1>4. PICK l : TreeFreed(M, lev, ext, out, r, U, l) /\ Empty(U, l, pdpt)
    BY <1>3, TreeEmptied
  <1>5. Heap(U, l, ext, out) /\ KeepsTop(lev, l) /\ U.mem[r] = M.mem[r] /\ OtherMaps(M, lev, r, U)
    BY <1>4 DEF TreeFreed
  <1>6. l[r] = "root" /\ l[pdpt] = "pdpt"
    BY <1>3, <1>5 DEF KeepsTop
  <1>7. Points(U, l, r, 0) /\ pdpt = U.mem[r][0].addr
    BY <1>5, <1>6, Zenon DEF Points, Present
  <1>8. R = Removed(U, r, 0, pdpt)
    OBVIOUS
  <1>9. Detached(U, l, ext, out, r, 0, pdpt, R)
    BY <1>1, <1>4, <1>5, <1>7, <1>8, DetachKeeps, Zenon
  <1> DEFINE lev2 == [l EXCEPT ![pdpt] = "no"]
  <1>10. Heap(R, lev2, ext, out) /\ R.mem = [U.mem EXCEPT ![r] = [U.mem[r] EXCEPT ![0] = Zero]]
    BY <1>9, Zenon DEF Detached
  <1>11. U.mem \in [PAGE -> [Index -> Entry]] /\ l \in [PAGE -> Level]
    BY <1>5, HeapParts, Parts
  <1>12. ~Present(R, r, 0)
    <2>2. R.mem[r] = [U.mem[r] EXCEPT ![0] = Zero] /\ U.mem[r] \in [Index -> Entry]
      BY <1>10, <1>11, Zenon
    <2>1. R.mem[r][0] = Zero
      BY <1>1, <2>2, Zenon
    <2> QED  BY <2>1, Entries, Zenon DEF Present
  <1>13. SameRoots(lev, lev2)
    BY <1>3, <1>5, <1>6, <1>11, Zenon DEF SameRoots, KeepsTop
  <1> HIDE DEF lev2
  <1>14. OtherMaps(M, lev, r, R)
    <2>1. \A u \in PAGE : u # r => R.mem[u] = U.mem[u]
      BY <1>10, <1>11, Zenon
    <2>2. OfSpace(U, l, r, r)
      BY DEF OfSpace
    <2>3. Heap(U, l, ext, out) /\ l[r] = "root"
      BY <1>5, <1>6, Zenon
    <2>4. OtherMaps(U, l, r, R)
      BY <2>1, <2>2, <2>3, OthersKept, Zenon
    <2>5. \A u \in PAGE : lev[u] = "root" => l[u] = "root"
      BY <1>5, Zenon DEF KeepsTop
    <2> QED  BY <1>5, <2>4, <2>5, OthersTwice, Zenon
  <1> QED  BY <1>10, <1>12, <1>13, <1>14, Zenon

\* ... and the top-level table.
LEMMA FreeStep ==
    ASSUME IInv, NEW e \in Env, env_free(e)
    PROVE  IInv' /\ Shift
  <1> DEFINE r == env_pml4e[e]
             pdpt == mem[r][0].addr
             U == DirectoriesUpTo(State, r, pdpt, TopPdpe + 1)
             user == IF Present(State, r, 0) THEN page_decref(U, pdpt) ELSE State
             R == [user EXCEPT !.mem[r][0] = Zero]
             D == page_decref(R, r)
  <1>1. PICK lev : Heap(State, lev, ExtOf(lev), {}) /\ RootsOf(lev)
    BY DEF IInv
  <1>2. r # NULL /\ Set(D) /\ env_pml4e' = [env_pml4e EXCEPT ![e] = NULL]
    BY Zenon DEF env_free, DirectoriesUpTo
  <1>3. r \in PAGE /\ lev[r] = "root"
    BY <1>1, <1>2, Roots1, Zenon
  <1> DEFINE M == State
             ext == ExtOf(lev)
  <1>4. /\ pdpt = M.mem[r][0].addr /\ U = DirectoriesUpTo(M, r, pdpt, TopPdpe + 1)
        /\ user = IF Present(M, r, 0) THEN page_decref(U, pdpt) ELSE M
        /\ R = [user EXCEPT !.mem[r][0] = Zero] /\ D = page_decref(R, r)
    BY DEF State
  <1>5. Heap(M, lev, ext, {})
    BY <1>1
  <1>6. ext[r] = 1 /\ ext \in [PAGE -> Nat] /\ lev \in [PAGE -> Level]
    <2>1. ext \in [PAGE -> Nat] /\ lev \in [PAGE -> Level]
      BY <1>5, HeapParts
    <2>2. ext[r] = 1
      BY <1>3 DEF ExtOf
    <2> QED  BY <2>1, <2>2
  <1> HIDE DEF r, pdpt, U, user, R, D, M, ext
  <1>7. /\ \E l : Heap(R, l, ext, {}) /\ SameRoots(lev, l) /\ ~Present(R, r, 0)
        /\ OtherMaps(M, lev, r, R)
    <2>1. CASE Present(M, r, 0)
      <3>1. R = Removed(U, r, 0, pdpt)
        BY <1>4, <2>1, Zenon DEF Removed
      <3>2. pdpt = M.mem[r][0].addr /\ U = DirectoriesUpTo(M, r, pdpt, TopPdpe + 1)
        BY <1>4, Zenon
      <3> QED  BY <1>3, <1>5, <2>1, <3>1, <3>2, UserPartFreed
    <2>2. CASE ~Present(M, r, 0)
      <3>1. R = [M EXCEPT !.mem[r][0] = Zero]
        BY <1>4, <2>2
      <3>2. Heap(R, lev, ext, {})
        BY <1>3, <1>5, <2>2, <3>1, ZeroKeeps
      <3>3. ~Present(R, r, 0)
        <4>1. M \in MemType /\ Zero \in Entry /\ 0 \in Index
          BY <1>5, HeapParts, Entries, Constants
        <4>2. R.mem[r][0] = Zero
          BY <1>3, <3>1, <4>1, EntryValues
        <4> QED  BY <4>2, Entries DEF Present
      <3>4. SameRoots(lev, lev)
        BY DEF SameRoots
      <3>5. OtherMaps(M, lev, r, R)
        <4>1. M \in MemType /\ Zero \in Entry /\ 0 \in Index
          BY <1>5, HeapParts, Entries, Constants
        <4> DEFINE Q == [M EXCEPT !.mem[r][0] = Zero]
        <4>2. \A u \in PAGE : u # r => Q.mem[u] = M.mem[u]
          BY <1>3, <4>1, EntryValues
        <4>3. R = Q
          BY <3>1
        <4> HIDE DEF Q
        <4>4. OfSpace(M, lev, r, r)
          BY DEF OfSpace
        <4>5. OtherMaps(M, lev, r, Q)
          BY <1>3, <1>5, <4>2, <4>4, OthersKept
        <4> QED  BY <4>3, <4>5
      <3> QED  BY <3>2, <3>3, <3>4, <3>5
    <2> QED  BY <2>1, <2>2
  <1>8. PICK l : Heap(R, l, ext, {}) /\ SameRoots(lev, l) /\ ~Present(R, r, 0)
    BY <1>7
  <1>9. l \in [PAGE -> Level] /\ l[r] = "root" /\ r \in UserPages
    <2>1. l \in [PAGE -> Level] /\ TablesOnce(R, l, ext)
      BY <1>8, HeapParts
    <2>2. l[r] = "root"
      BY <1>3, <1>8 DEF SameRoots
    <2> QED  BY <1>3, <2>1, <2>2 DEF TablesOnce
  <1>10. PICK lev2 : lev2 = [l EXCEPT ![r] = "no"]
    OBVIOUS
  <1>11. Heap(D, lev2, ExtOf(lev2), {})
    <2> DEFINE less == [ext EXCEPT ![r] = ext[r] - 1]
    <2>1. \A j \in Index : ~Points(R, l, r, j)
      BY <1>8, <1>9 DEF Points
    <2>2. ext[r] > 0
      BY <1>6
    <2>3. Heap(page_decref(R, r), [l EXCEPT ![r] = "no"], less, {})
      BY <1>8, <1>9, <2>1, <2>2, DropKeeps
    <2>4. less = ExtOf(lev2)
      <3>1. \A u \in PAGE : less[u] = ExtOf(lev2)[u]
        <4> SUFFICES ASSUME NEW u \in PAGE PROVE less[u] = ExtOf(lev2)[u]
          OBVIOUS
        <4>1. ExtOf(lev2)[u] = IF lev2[u] = "root" THEN 1 ELSE 0
          BY DEF ExtOf
        <4>2. CASE u = r
          BY <1>3, <1>6, <1>9, <1>10, <4>1, <4>2
        <4>3. CASE u # r
          <5>1. less[u] = ext[u] /\ lev2[u] = l[u]
            BY <1>6, <1>9, <1>10, <4>3
          <5> QED  BY <1>8, <4>1, <5>1 DEF ExtOf, SameRoots, ext
        <4> QED  BY <4>2, <4>3
      <3>2. less \in [PAGE -> Int] /\ ExtOf(lev2) \in [PAGE -> Int]
        BY <1>3, <1>6 DEF ExtOf
      <3> HIDE DEF less
      <3> QED  BY <3>1, <3>2
    <2> HIDE DEF less
    <2> QED  BY <1>4, <1>10, <2>3, <2>4, Zenon
  <1>12. RootsOf(lev2)'
    <2>1. /\ env_pml4e \in [Env -> PAGE \cup {NULL}]
          /\ \A f \in Env : env_pml4e[f] # NULL => lev[env_pml4e[f]] = "root"
          /\ \A f, g \in Env : env_pml4e[f] # NULL /\ env_pml4e[f] = env_pml4e[g] => f = g
          /\ \A u \in PAGE : lev[u] = "root" => \E f \in Env : env_pml4e[f] = u
      BY <1>1 DEF RootsOf
    <2>2. env_pml4e' \in [Env -> PAGE \cup {NULL}] /\ env_pml4e'[e] = NULL
          /\ \A f \in Env : f # e => env_pml4e'[f] = env_pml4e[f]
      BY <1>2, <2>1
    <2>3. lev2[r] = "no" /\ \A u \in PAGE : u # r => (lev2[u] = "root" <=> lev[u] = "root")
      BY <1>3, <1>8, <1>9, <1>10 DEF SameRoots
    <2>4. ASSUME NEW f \in Env, env_pml4e'[f] # NULL PROVE lev2[env_pml4e'[f]] = "root"
      <3>1. f # e /\ env_pml4e'[f] = env_pml4e[f]
        BY <2>2, <2>4
      <3>2. env_pml4e[f] \in PAGE /\ env_pml4e[f] # r /\ lev[env_pml4e[f]] = "root"
        BY <2>1, <2>4, <3>1 DEF r
      <3> QED  BY <2>3, <3>1, <3>2
    <2>5. \A f, g \in Env : env_pml4e'[f] # NULL /\ env_pml4e'[f] = env_pml4e'[g] => f = g
      BY <2>1, <2>2
    <2>6. ASSUME NEW u \in PAGE, lev2[u] = "root" PROVE \E f \in Env : env_pml4e'[f] = u
      <3>1. u # r /\ lev[u] = "root"
        BY <2>3, <2>6
      <3>2. PICK f \in Env : env_pml4e[f] = u
        BY <2>1, <3>1
      <3>3. f # e
        BY <3>1, <3>2 DEF r
      <3> QED  BY <2>2, <3>2, <3>3
    <2> QED  BY <2>2, <2>4, <2>5, <2>6 DEF RootsOf
  <1>13. IInv'
    BY <1>2, <1>11, <1>12, Settles
  <1>14. D.mem = R.mem
    <2>1. R \in MemType /\ R.ref[r] > 0 /\ ~Listed(R, r)
      <3>1. R \in MemType /\ FreeExact(R, l, {}) /\ TablesOnce(R, l, ext)
        BY <1>8, HeapParts
      <3>2. R.ref[r] = 1
        BY <1>3, <1>9, <3>1 DEF TablesOnce
      <3> QED  BY <1>3, <3>1, <3>2 DEF FreeExact
    <2>2. page_decref(R, r).mem = R.mem
      BY <1>3, <2>1, DecrefParts
    <2> QED  BY <1>4, <2>2, Zenon
  <1>15. Replaced(e)
    <2>1. State' = D
      <3>1. D \in MemType
        BY <1>11, HeapParts
      <3> QED  BY <1>2, <3>1, SetState
    <2>2. /\ env_pml4e \in [Env -> PAGE \cup {NULL}]
          /\ \A f, g \in Env : env_pml4e[f] # NULL /\ env_pml4e[f] = env_pml4e[g] => f = g
      BY <1>1 DEF RootsOf
    <2>3. env_pml4e'[e] = NULL /\ \A f \in Env : f # e => env_pml4e'[f] = env_pml4e[f]
      BY <1>2, <2>2
    <2>4. env_pml4e[e] # NULL
      BY <1>2 DEF r
    <2>5. ASSUME NEW f \in Env, NEW a \in Address, f # e, env_pml4e[f] # NULL, PML4(a) = 0
          PROVE  Leaf(D, env_pml4e[f], a) = Leaf(State, env_pml4e[f], a)
      <3>1. env_pml4e[f] \in PAGE /\ lev[env_pml4e[f]] = "root"
        BY <1>1, <2>5, Roots1
      <3>2. env_pml4e[f] # r
        BY <2>2, <2>5 DEF r
      <3>3. Leaf(R, env_pml4e[f], a) = Leaf(State, env_pml4e[f], a)
        BY <1>7, <2>5, <3>1, <3>2 DEF OtherMaps, M
      <3>4. Leaf(D, env_pml4e[f], a) = Leaf(R, env_pml4e[f], a)
        BY <1>14 DEF Leaf, Present
      <3> QED  BY <3>3, <3>4
    <2> QED  BY <2>1, <2>3, <2>4, <2>5 DEF Replaced
  <1> QED  BY <1>13, <1>15 DEF Shift

(****************************** the first state ******************************)
NoTables == [p \in PAGE |-> "no"]

\* What page_init() and x64_vm_init() leave.
LEMMA BootHeap ==
    ASSUME Sound
    PROVE  Heap(BootMemory, NoTables, ExtOf(NoTables), {}) /\ BootMemory.free # <<>>
  <1> DEFINE M == BootMemory
             lev == NoTables
             ext == ExtOf(NoTables)
             f == [i \in 1 .. NPAGES - 5 |-> NPAGES - i]
  <1>1. NPAGES \in Nat /\ NPAGES > 5 /\ RefMod \in Nat /\ RefMod > 1
    BY Constants
  <1>2. /\ M = [ref |-> [p \in PAGE |-> IF p \in 1 .. 4 THEN 1 ELSE 0], free |-> f,
                mem |-> KernelTables, panic |-> FALSE]
        /\ M.ref = [p \in PAGE |-> IF p \in 1 .. 4 THEN 1 ELSE 0] /\ M.free = f
        /\ M.mem = KernelTables /\ M.panic = FALSE
    BY DEF BootMemory
  <1>3. f \in Seq(PAGE) /\ Len(f) = NPAGES - 5 /\ \A i \in 1 .. NPAGES - 5 : f[i] = NPAGES - i
    <2>1. f \in [1 .. NPAGES - 5 -> PAGE]
      BY <1>1 DEF PAGE
    <2>2. NPAGES - 5 \in Nat
      BY <1>1
    <2> QED  BY <2>1, <2>2
  <1>4. KernelTables \in [PAGE -> [Index -> Entry]]
    <2>1. /\ PDPE(UTOP) \in Index /\ PDX(UTOP) \in Index /\ PTX(UTOP) \in Index
          /\ 2 \in PAGE /\ 3 \in PAGE /\ 4 \in PAGE
      BY <1>1, PmapAssumption, AddressParts DEF PAGE
    <2>2. /\ [addr |-> 2, perm |-> {"P", "W"}] \in Entry /\ [addr |-> 3, perm |-> {"P", "W"}] \in Entry
          /\ [addr |-> 4, perm |-> {"P"}] \in Entry
      BY <2>1 DEF Entry
    <2>3. BiosPage \in [Index -> Entry]
      BY DEF Sound
    <2>4. ASSUME NEW p \in PAGE PROVE KernelTables[p] \in [Index -> Entry]
      <3>1. CASE p = 0
        BY <2>3, <3>1 DEF KernelTables
      <3>2. CASE p = 1
        BY <2>1, <2>2, <3>2, Entries DEF KernelTables
      <3>3. CASE p = 2
        BY <2>1, <2>2, <3>3, Entries DEF KernelTables
      <3>4. CASE p = 3
        BY <2>1, <2>2, <3>4, Entries DEF KernelTables
      <3>5. CASE p \notin 0 .. 3
        BY <3>5, Entries DEF KernelTables
      <3>6. p \in 0 .. 3 => p = 0 \/ p = 1 \/ p = 2 \/ p = 3
        OBVIOUS
      <3> QED  BY <3>1, <3>2, <3>3, <3>4, <3>5, <3>6
    <2> QED  BY <2>4 DEF KernelTables
  <1>5. M.ref \in [PAGE -> 0 .. RefMod - 1]
    <2>1. 0 \in 0 .. RefMod - 1 /\ 1 \in 0 .. RefMod - 1
      BY <1>1
    <2> QED  BY <1>2, <2>1
  <1> HIDE DEF M, f
  <1>6. M \in MemType
    BY <1>2, <1>3, <1>4, <1>5 DEF MemType
  <1>7. /\ lev \in [PAGE -> Level] /\ ext \in [PAGE -> Nat] /\ {} \in SUBSET UserPages
        /\ \A p \in PAGE : lev[p] = "no" /\ ext[p] = 0
    BY DEF NoTables, ExtOf, Level
  <1> HIDE DEF lev, ext
  <1>8. \A p : Slots(M, lev, p) = {}
    BY <1>7 DEF Slots, Points
  <1>9. \A p \in UserPages : p \in PAGE /\ p \notin 1 .. 4 /\ M.ref[p] = 0
    BY <1>2 DEF UserPages, KernPages
  <1>10. CountsExact(M, lev, ext)
    BY <1>7, <1>8, <1>9, FS_EmptySet DEF CountsExact
  <1>11. FreeExact(M, lev, {})
    <2>1. ASSUME NEW p \in UserPages PROVE Listed(M, p)
      <3>1. NPAGES - p \in 1 .. NPAGES - 5 /\ NPAGES - (NPAGES - p) = p
        BY <1>1 DEF UserPages, KernPages, PAGE
      <3> QED  BY <1>2, <1>3, <3>1 DEF Listed
    <2>2. ASSUME NEW i \in 1 .. NPAGES - 5 PROVE f[i] \in UserPages
      BY <1>1, <1>3 DEF UserPages, KernPages, PAGE
    <2>3. ASSUME NEW i \in 1 .. NPAGES - 5, NEW j \in 1 .. NPAGES - 5, f[i] = f[j] PROVE i = j
      BY <1>1, <1>3, <2>3
    <2>4. \A i, j \in 1 .. Len(M.free) : M.free[i] = M.free[j] => i = j
      BY <1>2, <1>3, <2>3
    <2>5. \A p : Listed(M, p) => p \in UserPages
      BY <1>2, <1>3, <2>2 DEF Listed
    <2> QED  BY <1>9, <2>1, <2>4, <2>5 DEF FreeExact
  <1>12. TablesOnce(M, lev, ext) /\ TreeShape(M, lev) /\ WithinReach(M, lev)
    BY <1>7 DEF TablesOnce, TreeShape, WithinReach, Points
  <1>13. KernelKept(M, lev)
    BY <1>2, <1>7 DEF KernelKept
  <1>14. Heap(M, lev, ext, {})
    BY <1>2, <1>6, <1>7, <1>10, <1>11, <1>12, <1>13, HeapIs
  <1>15. M.free # <<>>
    BY <1>1, <1>2, <1>3
  <1> QED  BY <1>14, <1>15 DEF M, lev, ext

\* The first environment is created in what boot leaves.
LEMMA InitStep ==
    ASSUME Sound, Init
    PROVE  IInv
  <1> DEFINE p == Head(BootMemory.free)
             R == setup_vm(BootMemory, p)
             B(m, k) == region_alloc(m, p, BootVA[k + 1])
             Fits(f) == f = [k \in 0 .. Len(BootVA) |-> IF k = 0 THEN R ELSE B(f[k - 1], k - 1)]
             F == CHOOSE f : Fits(f)
  <1>1. /\ pp_ref = F[Len(BootVA)].ref /\ page_free_list = F[Len(BootVA)].free
        /\ mem = F[Len(BootVA)].mem /\ panicstr = F[Len(BootVA)].panic
        /\ \E e \in Env : env_pml4e = [f \in Env |-> IF f = e THEN p ELSE NULL]
    BY DEF Init, Loop
  <1>2. Len(BootVA) = 0
    BY DEF Sound
  <1> HIDE DEF B, R
  <1>3. F[0] = R
    <2>1. Fits([k \in 0 .. 0 |-> R])
      BY <1>2
    <2>2. Fits(F)
      <3> HIDE DEF Fits
      <3> QED  BY <2>1
    <2> HIDE DEF F
    <2> QED  BY <1>2, <2>2
  <1> HIDE DEF F
  <1>4. Heap(BootMemory, NoTables, ExtOf(NoTables), {}) /\ BootMemory.free # <<>>
    BY BootHeap
  <1>5. p = Head(BootMemory.free) /\ R = setup_vm(BootMemory, p)
    BY DEF R
  <1> HIDE DEF p
  <1>6. PICK lev2 : lev2 = [NoTables EXCEPT ![p] = "root"]
    OBVIOUS
  <1>7. Heap(R, lev2, ExtOf(lev2), {})
    BY <1>4, <1>5, <1>6, SetupKeeps
  <1>8. p \in UserPages /\ p \in PAGE
    BY <1>4, <1>5, AllocKeeps DEF UserPages
  <1>9. State = R
    <2>1. R \in MemType
      BY <1>7, HeapParts
    <2>2. R = [ref |-> R.ref, free |-> R.free, mem |-> R.mem, panic |-> R.panic]
      BY <2>1 DEF MemType
    <2>3. pp_ref = R.ref /\ page_free_list = R.free /\ mem = R.mem /\ panicstr = R.panic
      BY <1>1, <1>2, <1>3
    <2> QED  BY <2>2, <2>3 DEF State
  <1>10. PICK e \in Env : env_pml4e = [f \in Env |-> IF f = e THEN p ELSE NULL]
    BY <1>1
  <1>11. lev2[p] = "root" /\ \A u \in PAGE : lev2[u] = "root" => u = p
    BY <1>6, <1>8 DEF NoTables
  <1>12. RootsOf(lev2)
    <2>1. env_pml4e[e] = p /\ \A f \in Env : env_pml4e[f] # NULL => f = e
      BY <1>10
    <2> QED  BY <1>8, <1>10, <1>11, <2>1 DEF RootsOf
  <1> QED  BY <1>7, <1>9, <1>12 DEF IInv

\* A page is not sent to UTOP by a program that is Sound.
LEMMA NotBelowItself == ~BelowUTOP(UTOP)
  <1>1. UTOP \in Address /\ N \in Nat
    BY PmapAssumption
  <1>2. PML4(UTOP) \in Int /\ PDPE(UTOP) \in Int /\ PDX(UTOP) \in Int /\ PTX(UTOP) \in Int
    BY <1>1, AddressParts DEF Index
  <1>3. Linear(UTOP) \in Int
    BY <1>1, <1>2 DEF Linear
  <1> QED  BY <1>3 DEF BelowUTOP

\* Every operation keeps the invariant.
LEMMA NextStep ==
    ASSUME Sound, NoOverflow, IInv, [Next]_vars
    PROVE  IInv' /\ (Shift \/ UNCHANGED vars)
  <1>1. CASE UNCHANGED vars
    <2>1. PICK lev : Heap(State, lev, ExtOf(lev), {}) /\ RootsOf(lev)
      BY DEF IInv
    <2>2. State' = State /\ env_pml4e' = env_pml4e
      BY <1>1 DEF vars, State
    <2>3. Heap(State', lev, ExtOf(lev), {}) /\ RootsOf(lev)'
      BY <2>1, <2>2 DEF RootsOf
    <2> QED  BY <1>1, <2>3 DEF IInv
  <1>2. CASE \E e \in Env : env_setup_vm(e)
    BY <1>2, SetupStep
  <1>3. CASE \E e \in Env : env_free(e)
    BY <1>3, FreeStep
  <1>4. CASE \E e \in Env, va \in VA : sys_page_unmap(e, va)
    BY <1>4, UnmapStep
  <1>5. CASE \E e \in Env, va \in VA, perm \in SUBSET {"W"} : sys_page_alloc(e, va, perm)
    BY <1>5, AllocStep
  <1>6. ASSUME NEW e \in Env, NEW f \in Env, NEW va \in VA, NEW to \in VA \cup {UTOP},
               NEW perm \in SUBSET {"W"}, sys_page_map(e, va, f, to, perm)
        PROVE  IInv' /\ Shift
    <2>1. /\ env_pml4e[e] # NULL /\ env_pml4e[f] # NULL /\ Mapped(e, va) /\ BelowUTOP(to)
          /\ map_page(e, va, f, to, perm) /\ UNCHANGED env_pml4e
      BY <1>6 DEF sys_page_map, Sound
    <2>2. to \in VA
      BY <2>1, NotBelowItself
    <2> QED  BY <2>1, <2>2, MapStep
  <1>7. ASSUME NEW e \in Env, NEW f \in Env, NEW va \in VA, NEW to \in VA \cup {UTOP},
               NEW perm \in SUBSET {"W"}, sys_ipc_try_send(e, va, f, to, perm)
        PROVE  IInv' /\ Shift
    <2>1. /\ env_pml4e[e] # NULL /\ env_pml4e[f] # NULL /\ Mapped(e, va) /\ BelowUTOP(to)
          /\ map_page(e, va, f, to, perm) /\ UNCHANGED env_pml4e
      BY <1>7 DEF sys_ipc_try_send, Sound
    <2>2. to \in VA
      BY <2>1, NotBelowItself
    <2> QED  BY <2>1, <2>2, MapStep
  <1> QED  BY <1>1, <1>2, <1>3, <1>4, <1>5, <1>6, <1>7 DEF Next

(***************************************************************************)
(* What the invariant says of the tables that the environments use.        *)
(***************************************************************************)
OfLevel(lev, l) == {p \in PAGE : lev[p] = l}
Used(l) == IF l = "root" THEN {0} ELSE Index

LEMMA StateIs ==
    /\ State.ref = pp_ref /\ State.free = page_free_list
    /\ State.mem = mem /\ State.panic = panicstr
  BY DEF State

\* The top-level tables are those that an environment has.
LEMMA RootsAre ==
    ASSUME NEW lev, RootsOf(lev)
    PROVE  Roots = OfLevel(lev, "root")
  <1>1. ASSUME NEW e \in Live PROVE env_pml4e[e] \in OfLevel(lev, "root")
    <2>1. e \in Env /\ env_pml4e[e] # NULL
      BY <1>1 DEF Live
    <2> QED  BY <2>1, Roots1 DEF OfLevel
  <1>2. ASSUME NEW p \in OfLevel(lev, "root") PROVE \E e \in Live : env_pml4e[e] = p
    <2>1. p \in PAGE /\ lev[p] = "root"
      BY <1>2 DEF OfLevel
    <2>2. PICK e \in Env : env_pml4e[e] = p
      BY <2>1 DEF RootsOf
    <2>3. p # NULL
      BY <2>1, Constants
    <2> QED  BY <2>2, <2>3 DEF Live
  <1> QED  BY <1>1, <1>2 DEF Roots

\* Every table but the top-level ones hangs from a table of the level above.
LEMMA HangsFrom ==
    ASSUME NEW lev, Heap(State, lev, ExtOf(lev), {}),
           NEW p \in PAGE, lev[p] # "no", lev[p] # "root"
    PROVE  \E t \in PAGE, i \in Index :
               /\ Points(State, lev, t, i) /\ mem[t][i].addr = p /\ lev[p] = Below(lev[t])
  <1>1. CountsExact(State, lev, ExtOf(lev)) /\ TablesOnce(State, lev, ExtOf(lev))
    BY HeapParts
  <1>2. p \in UserPages /\ State.ref[p] = 1
    BY <1>1 DEF TablesOnce
  <1>3. ExtOf(lev)[p] = 0
    BY DEF ExtOf
  <1>4. State.ref[p] = Cardinality(Slots(State, lev, p)) + ExtOf(lev)[p]
    BY <1>1, <1>2 DEF CountsExact
  <1>5. Cardinality(Slots(State, lev, p)) = 1
    <2>1. Cardinality(Slots(State, lev, p)) \in Nat
      BY SlotsFinite
    <2> QED  BY <1>2, <1>3, <1>4, <2>1
  <1>6. Slots(State, lev, p) # {}
    BY <1>5, FS_EmptySet
  <1>7. PICK s \in PAGE \X Index : Points(State, lev, s[1], s[2]) /\ State.mem[s[1]][s[2]].addr = p
    BY <1>6 DEF Slots
  <1>8. s[1] \in PAGE /\ s[2] \in Index /\ mem[s[1]][s[2]].addr = p
    BY <1>7, StateIs
  <1>9. lev[p] = Below(lev[s[1]])
    BY <1>7, <1>8, Child
  <1> QED  BY <1>7, <1>8, <1>9

\* The tables of a level are what the entries of the level above name.
LEMMA LevelBelow ==
    ASSUME NEW lev, Heap(State, lev, ExtOf(lev), {}), NEW l \in {"root", "pdpt", "dir"}
    PROVE  Down(OfLevel(lev, l), Used(l)) = OfLevel(lev, Below(l))
  <1>1. Used(l) \subseteq Index
    BY Constants DEF Used
  <1>2. ASSUME NEW s \in OfLevel(lev, l) \X Used(l), Present(State, s[1], s[2])
        PROVE  mem[s[1]][s[2]].addr \in OfLevel(lev, Below(l))
    <2>1. s[1] \in PAGE /\ lev[s[1]] = l /\ s[2] \in Index /\ s[2] \in Used(l)
      BY <1>1 DEF OfLevel
    <2>2. Points(State, lev, s[1], s[2])
      BY <1>2, <2>1 DEF Points, Used
    <2>3. State.mem[s[1]][s[2]].addr \in PAGE /\ lev[State.mem[s[1]][s[2]].addr] = Below(l)
      BY <2>1, <2>2, Child
    <2> QED  BY <2>3, StateIs DEF OfLevel
  <1>3. ASSUME NEW p \in OfLevel(lev, Below(l))
        PROVE  \E s \in OfLevel(lev, l) \X Used(l) : Present(State, s[1], s[2]) /\ mem[s[1]][s[2]].addr = p
    <2>1. p \in PAGE /\ lev[p] = Below(l) /\ lev[p] # "no" /\ lev[p] # "root"
      BY <1>3 DEF OfLevel, Below
    <2>2. PICK t \in PAGE, i \in Index :
             Points(State, lev, t, i) /\ mem[t][i].addr = p /\ lev[p] = Below(lev[t])
      BY <2>1, HangsFrom
    <2>3. lev[t] = l
      BY <2>1, <2>2 DEF Below
    <2>4. i \in Used(l) /\ Present(State, t, i)
      BY <2>2, <2>3 DEF Points, Used
    <2>5. <<t, i>> \in OfLevel(lev, l) \X Used(l)
      BY <2>2, <2>3, <2>4 DEF OfLevel
    <2> QED  BY <2>2, <2>4, <2>5
  <1>4. Down(OfLevel(lev, l), Used(l)) \subseteq OfLevel(lev, Below(l))
    BY <1>2 DEF Down
  <1>5. OfLevel(lev, Below(l)) \subseteq Down(OfLevel(lev, l), Used(l))
    <2> SUFFICES ASSUME NEW p \in OfLevel(lev, Below(l)) PROVE p \in Down(OfLevel(lev, l), Used(l))
      OBVIOUS
    <2>1. PICK s \in OfLevel(lev, l) \X Used(l) : Present(State, s[1], s[2]) /\ mem[s[1]][s[2]].addr = p
      BY <1>3
    <2> QED  BY <2>1 DEF Down
  <1> QED  BY <1>4, <1>5

\* The tables of the model's properties are those of the invariant.
LEMMA TablesAre ==
    ASSUME NEW lev, Heap(State, lev, ExtOf(lev), {}), RootsOf(lev)
    PROVE  /\ Roots = OfLevel(lev, "root") /\ Pdpts = OfLevel(lev, "pdpt")
           /\ Dirs = OfLevel(lev, "dir") /\ Pts = OfLevel(lev, "pt")
  <1>1. Roots = OfLevel(lev, "root")
    BY RootsAre
  <1>2. Pdpts = OfLevel(lev, "pdpt")
    <2>1. Down(OfLevel(lev, "root"), Used("root")) = OfLevel(lev, Below("root"))
      BY LevelBelow
    <2>2. Used("root") = {0} /\ Below("root") = "pdpt"
      BY DEF Used, Below
    <2> QED  BY <1>1, <2>1, <2>2 DEF Pdpts
  <1>3. Dirs = OfLevel(lev, "dir")
    <2>1. Down(OfLevel(lev, "pdpt"), Used("pdpt")) = OfLevel(lev, Below("pdpt"))
      BY LevelBelow
    <2>2. Used("pdpt") = Index /\ Below("pdpt") = "dir"
      BY DEF Used, Below
    <2> QED  BY <1>2, <2>1, <2>2 DEF Dirs
  <1>4. Pts = OfLevel(lev, "pt")
    <2>1. Down(OfLevel(lev, "dir"), Used("dir")) = OfLevel(lev, Below("dir"))
      BY LevelBelow
    <2>2. Used("dir") = Index /\ Below("dir") = "pt"
      BY DEF Used, Below
    <2> QED  BY <1>3, <2>1, <2>2 DEF Pts
  <1> QED  BY <1>1, <1>2, <1>3, <1>4

\* The entries that the model's properties count are those of the invariant.
LEMMA PointersAre ==
    ASSUME NEW lev, Heap(State, lev, ExtOf(lev), {}), RootsOf(lev), NEW p
    PROVE  Pointers(p) = Slots(State, lev, p)
  <1> DEFINE T == (Roots \X {0}) \cup ((Pdpts \cup Dirs \cup Pts) \X Index)
  <1>1. lev \in [PAGE -> Level]
    BY HeapParts
  <1>2. /\ Roots = OfLevel(lev, "root") /\ Pdpts = OfLevel(lev, "pdpt")
        /\ Dirs = OfLevel(lev, "dir") /\ Pts = OfLevel(lev, "pt")
    BY TablesAre
  <1>3. ASSUME NEW t, NEW i
        PROVE  <<t, i>> \in T <=> t \in PAGE /\ i \in Index /\ lev[t] # "no" /\ (lev[t] = "root" => i = 0)
    <2>1. t \in PAGE => lev[t] \in Level
      BY <1>1
    <2>2. 0 \in Index
      BY Constants
    <2> QED  BY <1>2, <2>1, <2>2 DEF OfLevel, Level
  <1>4. ASSUME NEW s \in T PROVE s = <<s[1], s[2]>>
    OBVIOUS
  <1>5. ASSUME NEW s \in PAGE \X Index PROVE s = <<s[1], s[2]>> /\ s[1] \in PAGE /\ s[2] \in Index
    OBVIOUS
  <1> HIDE DEF T
  <1>6. ASSUME NEW s \in T PROVE s \in PAGE \X Index /\ lev[s[1]] # "no" /\ (lev[s[1]] = "root" => s[2] = 0)
    <2>1. <<s[1], s[2]>> \in T
      BY <1>4
    <2>2. s[1] \in PAGE /\ s[2] \in Index /\ lev[s[1]] # "no" /\ (lev[s[1]] = "root" => s[2] = 0)
      BY <1>3, <2>1
    <2> QED  BY <1>4, <2>2
  <1>7. ASSUME NEW s \in PAGE \X Index, lev[s[1]] # "no", lev[s[1]] = "root" => s[2] = 0 PROVE s \in T
    <2>1. <<s[1], s[2]>> \in T
      BY <1>3, <1>5, <1>7
    <2> QED  BY <1>5, <2>1
  <1>8. Pointers(p) = {s \in T : Present(State, s[1], s[2]) /\ State.mem[s[1]][s[2]].addr = p}
    BY StateIs DEF Pointers, T
  <1> QED  BY <1>6, <1>7, <1>8 DEF Slots, Points

(******************************* PagesExact *********************************)
\* Which environments have p as their top-level table: one if it is one.
LEMMA RootCounted ==
    ASSUME NEW lev, RootsOf(lev), NEW p \in PAGE
    PROVE  Cardinality({e \in Live : env_pml4e[e] = p}) = ExtOf(lev)[p]
  <1> DEFINE S == {e \in Live : env_pml4e[e] = p}
  <1>1. p # NULL
    BY Constants
  <1>2. CASE lev[p] = "root"
    <2>1. PICK e \in Env : env_pml4e[e] = p
      BY <1>2 DEF RootsOf
    <2>2. S = {e}
      BY <1>1, <2>1 DEF RootsOf, Live
    <2>3. Cardinality(S) = 1
      BY <2>2, FS_Singleton
    <2> QED  BY <1>2, <2>3 DEF ExtOf
  <1>3. CASE lev[p] # "root"
    <2>1. S = {}
      BY <1>3 DEF RootsOf, Live
    <2>2. Cardinality(S) = 0
      BY <2>1, FS_EmptySet
    <2> QED  BY <1>3, <2>2 DEF ExtOf
  <1> QED  BY <1>2, <1>3

\* TypeOK, from the invariant.
LEMMA TypesHold ==
    ASSUME NEW lev, Heap(State, lev, ExtOf(lev), {}), RootsOf(lev)
    PROVE  TypeOK
  <1>1. State \in MemType
    BY HeapParts
  <1>2. /\ State.ref \in [PAGE -> 0 .. RefMod - 1] /\ State.free \in Seq(PAGE)
        /\ State.mem \in [PAGE -> [Index -> Entry]] /\ State.panic \in BOOLEAN
    BY <1>1, Parts
  <1>3. env_pml4e \in [Env -> PAGE \cup {NULL}]
    BY DEF RootsOf
  <1> QED  BY <1>2, <1>3, StateIs DEF TypeOK

\* RefExact, from the invariant.
LEMMA RefsHold ==
    ASSUME NEW lev, Heap(State, lev, ExtOf(lev), {}), RootsOf(lev)
    PROVE  RefExact
  <1> SUFFICES ASSUME NEW p \in UserPages
               PROVE  pp_ref[p] = Cardinality(Pointers(p)) + Cardinality({e \in Live : env_pml4e[e] = p})
    BY DEF RefExact
  <1>1. CountsExact(State, lev, ExtOf(lev))
    BY HeapParts
  <1>2. pp_ref[p] = Cardinality(Slots(State, lev, p)) + ExtOf(lev)[p]
    BY <1>1, StateIs DEF CountsExact
  <1>3. Pointers(p) = Slots(State, lev, p)
    BY PointersAre
  <1>4. Cardinality({e \in Live : env_pml4e[e] = p}) = ExtOf(lev)[p]
    BY RootCounted DEF UserPages
  <1> QED  BY <1>2, <1>3, <1>4

\* PageFreeExact; the list has pages of programs only.
LEMMA ListHolds ==
    ASSUME NEW lev, Heap(State, lev, ExtOf(lev), {}), RootsOf(lev)
    PROVE  PageFreeExact /\ \A i \in 1 .. Len(page_free_list) : page_free_list[i] \in UserPages
  <1>1. FreeExact(State, lev, {})
    BY HeapParts
  <1>2. \A i, j \in 1 .. Len(page_free_list) : page_free_list[i] = page_free_list[j] => i = j
    BY <1>1, StateIs DEF FreeExact
  <1>3. \A p \in PAGE : Listed(State, p) <=> p \in UserPages /\ pp_ref[p] = 0
    BY <1>1, StateIs DEF FreeExact
  <1>4. \A p : Listed(State, p) <=> \E i \in 1 .. Len(page_free_list) : page_free_list[i] = p
    BY StateIs DEF Listed
  <1>5. \A p \in UserPages :
           pp_ref[p] = 0 <=> \E i \in 1 .. Len(page_free_list) : page_free_list[i] = p
    BY <1>3, <1>4 DEF UserPages
  <1>6. ASSUME NEW i \in 1 .. Len(page_free_list) PROVE page_free_list[i] \in UserPages
    <2>1. page_free_list \in Seq(PAGE)
      BY TypesHold DEF TypeOK
    <2>2. page_free_list[i] \in PAGE
      BY <2>1
    <2> QED  BY <1>3, <1>4, <2>2
  <1> QED  BY <1>2, <1>5, <1>6 DEF PageFreeExact

\* TablesPrivate: the one reference to a table is an entry, or env_pml4e.
LEMMA TablesHold ==
    ASSUME NEW lev, Heap(State, lev, ExtOf(lev), {}), RootsOf(lev)
    PROVE  TablesPrivate
  <1>1. /\ TablesOnce(State, lev, ExtOf(lev)) /\ CountsExact(State, lev, ExtOf(lev))
        /\ ExtOf(lev) \in [PAGE -> Nat]
    BY HeapParts
  <1>2. ASSUME NEW p \in PAGE, lev[p] # "no"
        PROVE  Cardinality(Pointers(p)) <= 1 /\ (lev[p] = "root" => Pointers(p) = {})
    <2>1. p \in UserPages /\ State.ref[p] = 1 /\ (lev[p] = "root" => ExtOf(lev)[p] = 1)
      BY <1>1, <1>2 DEF TablesOnce
    <2>2. State.ref[p] = Cardinality(Slots(State, lev, p)) + ExtOf(lev)[p]
      BY <1>1, <2>1 DEF CountsExact
    <2>3. Cardinality(Slots(State, lev, p)) \in Nat /\ IsFiniteSet(Slots(State, lev, p))
      BY SlotsFinite
    <2>4. ExtOf(lev)[p] \in Nat
      BY <1>1
    <2>5. Cardinality(Slots(State, lev, p)) <= 1
      BY <2>1, <2>2, <2>3, <2>4
    <2>6. ASSUME lev[p] = "root" PROVE Slots(State, lev, p) = {}
      <3>1. Cardinality(Slots(State, lev, p)) = 0
        BY <2>1, <2>2, <2>3, <2>6
      <3> QED  BY <2>3, <3>1, FS_EmptySet
    <2>7. Pointers(p) = Slots(State, lev, p)
      BY PointersAre
    <2> QED  BY <2>5, <2>6, <2>7
  <1>3. ASSUME NEW p \in Tables PROVE p \in PAGE /\ lev[p] # "no"
    BY TablesAre DEF Tables, OfLevel
  <1>4. ASSUME NEW p \in Roots PROVE p \in PAGE /\ lev[p] = "root"
    BY TablesAre DEF OfLevel
  <1> QED  BY <1>2, <1>3, <1>4 DEF TablesPrivate

\* Page0Reserved, from the invariant.
LEMMA Page0Holds ==
    ASSUME Sound, NEW lev, Heap(State, lev, ExtOf(lev), {}), RootsOf(lev)
    PROVE  Page0Reserved
  <1>1. 0 \notin UserPages
    BY DEF UserPages, KernPages
  <1>2. \A i \in 1 .. Len(page_free_list) : page_free_list[i] # 0
    BY <1>1, ListHolds
  <1>3. ASSUME NEW e \in Live, NEW va \in VA, Mapped(e, va)
        PROVE  Leaf(State, env_pml4e[e], va).addr # 0
    <2> DEFINE r == env_pml4e[e]
    <2>1. r \in PAGE /\ lev[r] = "root"
      BY Roots1 DEF Live
    <2>2. va \in Address /\ PML4(va) = 0
      BY PmapAssumption DEF Sound, Reached
    <2>3. "P" \in Leaf(State, r, va).perm
      BY <1>3 DEF Mapped
    <2> HIDE DEF r
    <2>4. PICK pt \in PAGE : /\ lev[pt] = "pt" /\ PathR(State, r, va, pt) /\ Present(State, pt, PTX(va))
                             /\ Leaf(State, r, va) = State.mem[pt][PTX(va)]
      BY <2>1, <2>2, <2>3, MappedPath
    <2>5. PTX(va) \in Index
      BY <2>2, AddressParts
    <2>6. Leaf(State, r, va).addr \in UserPages
      BY <2>4, <2>5, DataCounted
    <2> QED  BY <1>1, <2>6 DEF r
  <1> QED  BY <1>2, <1>3 DEF Page0Reserved

\* KernelMappingKept: entry 1 of each top-level table is the kernel's.
LEMMA MappingHolds ==
    ASSUME NEW lev, Heap(State, lev, ExtOf(lev), {}), RootsOf(lev)
    PROVE  KernelMappingKept
  <1> SUFFICES ASSUME NEW e \in Live
               PROVE  Leaf(State, env_pml4e[e], UTOP) = [addr |-> 4, perm |-> {"P"}]
    BY DEF KernelMappingKept
  <1> DEFINE r == env_pml4e[e]
  <1>1. r \in PAGE /\ lev[r] = "root"
    BY Roots1 DEF Live
  <1>2. KernelKept(State, lev)
    BY HeapParts
  <1>3. /\ State.mem[1] = KernelTables[1] /\ State.mem[2] = KernelTables[2]
        /\ State.mem[3] = KernelTables[3] /\ State.mem[r][1] = [addr |-> 1, perm |-> {"P", "W"}]
    BY <1>1, <1>2 DEF KernelKept
  <1>4. UTOP \in Address /\ PML4(UTOP) = 1
    BY PmapAssumption
  <1>5. PDPE(UTOP) \in Index /\ PDX(UTOP) \in Index /\ PTX(UTOP) \in Index
    BY <1>4, AddressParts
  <1>6. 1 \in PAGE /\ 2 \in PAGE /\ 3 \in PAGE
    BY Constants DEF PAGE
  <1>7. /\ KernelTables[1] = [ZeroPage EXCEPT ![PDPE(UTOP)] = [addr |-> 2, perm |-> {"P", "W"}]]
        /\ KernelTables[2] = [ZeroPage EXCEPT ![PDX(UTOP)] = [addr |-> 3, perm |-> {"P", "W"}]]
        /\ KernelTables[3] = [ZeroPage EXCEPT ![PTX(UTOP)] = [addr |-> 4, perm |-> {"P"}]]
    BY <1>6 DEF KernelTables
  <1>8. State.mem[1][PDPE(UTOP)] = [addr |-> 2, perm |-> {"P", "W"}]
    BY <1>3, <1>5, <1>7, Entries
  <1>9. State.mem[2][PDX(UTOP)] = [addr |-> 3, perm |-> {"P", "W"}]
    BY <1>3, <1>5, <1>7, Entries
  <1>10. State.mem[3][PTX(UTOP)] = [addr |-> 4, perm |-> {"P"}]
    BY <1>3, <1>5, <1>7, Entries
  <1> HIDE DEF r
  <1>11. Present(State, r, 1) /\ Present(State, 1, PDPE(UTOP)) /\ Present(State, 2, PDX(UTOP))
    BY <1>3, <1>8, <1>9 DEF Present
  <1>12. /\ State.mem[r][PML4(UTOP)].addr = 1 /\ State.mem[1][PDPE(UTOP)].addr = 2
         /\ State.mem[2][PDX(UTOP)].addr = 3
    BY <1>3, <1>4, <1>8, <1>9
  <1>13. Leaf(State, r, UTOP) = State.mem[3][PTX(UTOP)]
    BY <1>4, <1>11, <1>12 DEF Leaf
  <1> QED  BY <1>10, <1>13 DEF r

\* The invariant implies the property.
LEMMA Consequences ==
    ASSUME Sound, IInv
    PROVE  PagesExact
  <1>1. PICK lev : Heap(State, lev, ExtOf(lev), {}) /\ RootsOf(lev)
    BY DEF IInv
  <1>2. TypeOK /\ RefExact /\ PageFreeExact
    BY <1>1, TypesHold, RefsHold, ListHolds
  <1>3. TablesPrivate /\ Page0Reserved /\ KernelMappingKept
    BY <1>1, TablesHold, Page0Holds, MappingHolds
  <1> QED  BY <1>2, <1>3 DEF PagesExact

(***************************************************************************)
(* Whatever programs allocate, map, transfer and unmap, in any number of   *)
(* environments that come and go, and wherever the walks run out of        *)
(* memory: pp_ref is the number of pointers to a page, a page is on the    *)
(* free list once exactly when there is none, every page table has one     *)
(* place in one address space, page 0 is never handed out and UTOP shows   *)
(* the kernel's array.  (page_insert(), page_remove(), page_decref(),      *)
(* pml4e_walk() and its undoing, env_setup_vm(), env_free())               *)
(***************************************************************************)
THEOREM PagesAreExact ==
    ASSUME Sound
    PROVE  Spec /\ []NoOverflow => []PagesExact
  <1>1. Init => IInv
    BY InitStep
  <1>2. IInv /\ NoOverflow /\ [Next]_vars => IInv'
    BY NextStep
  <1>3. IInv => PagesExact
    BY Consequences
  <1> QED  BY <1>1, <1>2, <1>3, PTL DEF Spec

(***************************************************************************)
(* What a Shift means for the address spaces.                              *)
(***************************************************************************)
LEMMA UserAddresses ==
    ASSUME Sound, NEW va \in VA
    PROVE  va \in Address /\ PML4(va) = 0
  BY PmapAssumption DEF Sound, Reached

\* Leaf() is an entry.
LEMMA LeafEntry ==
    ASSUME NEW M, NEW lev, NEW ext, NEW out, Heap(M, lev, ext, out),
           NEW r \in PAGE, lev[r] = "root", NEW va \in Address, PML4(va) = 0
    PROVE  Leaf(M, r, va) \in Entry
  <1>1. CASE \A pt : ~PathR(M, r, va, pt)
    BY <1>1, LeafNone, Entries
  <1>2. ASSUME NEW pt, PathR(M, r, va, pt) PROVE Leaf(M, r, va) \in Entry
    <2>1. pt \in PAGE /\ PTX(va) \in Index
      BY <1>2, WayIs, AddressParts
    <2>2. M.mem \in [PAGE -> [Index -> Entry]]
      BY HeapParts, Parts
    <2>3. Leaf(M, r, va) = M.mem[pt][PTX(va)]
      BY <1>2, LeafAt
    <2> QED  BY <2>1, <2>2, <2>3
  <1> QED  BY <1>1, <1>2

\* The same mappings are the same Space(), before and after.
LEMMA SpaceKept ==
    ASSUME NEW f \in Env, env_pml4e'[f] = env_pml4e[f],
           env_pml4e[f] # NULL => \A a \in VA : Leaf(State', env_pml4e[f], a) = Leaf(State, env_pml4e[f], a)
    PROVE  Space(f)' = Space(f)
  BY DEF Space

LEMMA OneAtATime ==
    ASSUME Sound, Shift
    PROVE  OnlyOneSpace
  <1>1. \A a \in VA : a \in Address /\ PML4(a) = 0
    BY UserAddresses
  <1>2. CASE Nowhere
    <2>1. \A f \in Env : Space(f)' = Space(f)
      BY <1>1, <1>2, SpaceKept DEF Nowhere
    <2> QED  BY <2>1 DEF OnlyOneSpace
  <1>3. ASSUME NEW e \in Env, NEW va, NEW x, Put(e, va, x) PROVE OnlyOneSpace
    <2>1. \A f \in Env : f # e => Space(f)' = Space(f)
      BY <1>1, <1>3, SpaceKept DEF Put
    <2> QED  BY <2>1 DEF OnlyOneSpace
  <1>4. ASSUME NEW e \in Env, Replaced(e) PROVE OnlyOneSpace
    <2>1. \A f \in Env : f # e => Space(f)' = Space(f)
      BY <1>1, <1>4, SpaceKept DEF Replaced
    <2> QED  BY <2>1 DEF OnlyOneSpace
  <1> QED  BY <1>2, <1>3, <1>4 DEF Shift

\* Page p can be written at address a of environment e.
WritableAt(p, e, a) ==
    /\ env_pml4e[e] # NULL /\ {"P", "W"} \subseteq Leaf(State, env_pml4e[e], a).perm
    /\ Leaf(State, env_pml4e[e], a).addr = p

LEMMA ReadOnlyKept ==
    ASSUME Sound, Shift
    PROVE  ReadOnlyStaysReadOnly
  <1>1. \A a \in VA : a \in Address /\ PML4(a) = 0
    BY UserAddresses
  <1>2. ASSUME NEW p, NEW e \in Env, NEW a \in VA, WritableAt(p, e, a) PROVE p \in Writable
    BY <1>2 DEF Writable, WritableAt, Live
  <1> SUFFICES ASSUME NEW p \in Writable', p \in UserPages, pp_ref[p] > 0 PROVE p \in Writable
    BY DEF ReadOnlyStaysReadOnly, InUse
  <1>3. PICK f \in Env, a \in VA : WritableAt(p, f, a)'
    BY DEF Writable, WritableAt, Live
  <1>4. /\ env_pml4e'[f] # NULL /\ {"P", "W"} \subseteq Leaf(State', env_pml4e'[f], a).perm
        /\ Leaf(State', env_pml4e'[f], a).addr = p
    BY <1>3 DEF WritableAt
  <1>5. ASSUME env_pml4e'[f] = env_pml4e[f], Leaf(State', env_pml4e[f], a) = Leaf(State, env_pml4e[f], a)
        PROVE  p \in Writable
    <2>1. WritableAt(p, f, a)
      BY <1>4, <1>5 DEF WritableAt
    <2> QED  BY <1>2, <2>1
  <1>6. CASE Nowhere
    BY <1>1, <1>4, <1>5, <1>6 DEF Nowhere
  <1>7. ASSUME NEW e \in Env, NEW va \in VA, NEW x, Put(e, va, x), Rightful(e, va, x) PROVE p \in Writable
    <2>1. CASE f # e \/ a # va
      BY <1>1, <1>4, <1>5, <1>7, <2>1 DEF Put
    <2>2. CASE f = e /\ a = va
      <3>1. {"P", "W"} \subseteq x.perm /\ x.addr = p
        BY <1>4, <1>7, <2>2 DEF Put
      <3>2. Source(x)
        <4>1. x # Zero
          BY <3>1, Entries
        <4>2. pp_ref[x.addr] # 0
          BY <3>1
        <4> QED  BY <1>7, <4>1, <4>2 DEF Rightful
      <3>3. PICK src \in Env, srcva \in VA : WritableAt(p, src, srcva)
        BY <3>1, <3>2 DEF Source, WritableAt
      <3> QED  BY <1>2, <3>3
    <2> QED  BY <2>1, <2>2
  <1>8. ASSUME NEW e \in Env, Replaced(e) PROVE p \in Writable
    <2>1. CASE f # e
      BY <1>1, <1>4, <1>5, <1>8, <2>1 DEF Replaced
    <2>2. CASE f = e
      <3>1. Leaf(State', env_pml4e'[f], a) = Zero
        BY <1>1, <1>4, <1>8, <2>2 DEF Replaced
      <3> QED  BY <1>4, <3>1, Entries
    <2> QED  BY <2>1, <2>2
  <1> QED  BY <1>6, <1>7, <1>8 DEF Shift

LEMMA SilentKeeps ==
    ASSUME Sound, IInv, Shift, \A e \in Env : Space(e)' = Space(e)
    PROVE  UNCHANGED <<pp_ref, page_free_list>>
  <1>1. PICK lev : Heap(State, lev, ExtOf(lev), {}) /\ RootsOf(lev)
    BY DEF IInv
  <1>2. \A a \in VA : a \in Address /\ PML4(a) = 0
    BY UserAddresses
  <1>3. \A e \in Env : env_pml4e[e] # NULL => env_pml4e[e] \in PAGE /\ lev[env_pml4e[e]] = "root"
    BY <1>1, Roots1
  <1>4. ASSUME NEW e \in Env, NEW va \in VA, NEW x, Put(e, va, x), Rightful(e, va, x)
        PROVE  UNCHANGED <<pp_ref, page_free_list>>
    <2> DEFINE r == env_pml4e[e]
    <2>1. r # NULL /\ env_pml4e'[e] = r /\ Leaf(State', r, va) = x
      BY <1>4 DEF Put
    <2>2. Leaf(State, r, va) = x
      <3>1. Space(e) = [a \in VA |-> Leaf(State, r, a)] /\ Space(e)' = [a \in VA |-> Leaf(State', r, a)]
        BY <2>1 DEF Space
      <3>2. Space(e)[va] = Leaf(State, r, va) /\ Space(e)'[va] = Leaf(State', r, va)
        BY <3>1
      <3> QED  BY <2>1, <3>2
    <2>3. ASSUME "P" \in x.perm PROVE pp_ref[x.addr] # 0
      <3>1. r \in PAGE /\ lev[r] = "root" /\ va \in Address /\ PML4(va) = 0 /\ "P" \in Leaf(State, r, va).perm
        BY <1>2, <1>3, <2>1, <2>2, <2>3
      <3> HIDE DEF r
      <3>2. PICK pt \in PAGE : lev[pt] = "pt" /\ Present(State, pt, PTX(va)) /\ x = State.mem[pt][PTX(va)]
        BY <1>1, <2>2, <3>1, MappedPath
      <3>3. State.ref[x.addr] > 0
        BY <1>1, <3>1, <3>2, AddressParts, DataCounted
      <3> QED  BY <3>3 DEF State
    <2>4. "P" \notin Zero.perm
      BY Entries
    <2> QED  BY <1>4, <2>2, <2>3, <2>4 DEF Rightful
  <1>5. ASSUME NEW e \in Env, Replaced(e) PROVE FALSE
    <2>1. ASSUME env_pml4e[e] # NULL PROVE Space(e) \in [VA -> Entry]
      <3>1. \A a \in VA : Leaf(State, env_pml4e[e], a) \in Entry
        BY <1>1, <1>2, <1>3, <2>1, LeafEntry
      <3> QED  BY <2>1, <3>1 DEF Space
    <2>2. ASSUME env_pml4e'[e] # NULL PROVE Space(e)' \in [VA -> Entry]
      <3>1. \A a \in VA : Leaf(State', env_pml4e'[e], a) \in Entry
        BY <1>2, <1>5, <2>2, Entries DEF Replaced
      <3> QED  BY <2>2, <3>1 DEF Space
    <2>3. NULL \notin [VA -> Entry]
      BY PmapAssumption
    <2>4. (env_pml4e[e] = NULL => Space(e) = NULL) /\ (env_pml4e'[e] = NULL => Space(e)' = NULL)
      BY DEF Space
    <2>5. (env_pml4e[e] = NULL) # (env_pml4e'[e] = NULL)
      BY <1>5 DEF Replaced
    <2> QED  BY <2>1, <2>2, <2>3, <2>4, <2>5
  <1> QED  BY <1>4, <1>5 DEF Shift

(***************************************************************************)
(* The memory system calls, IPC, the start and the end of environments     *)
(* change one address space at a time, and no chain of them makes a page   *)
(* writable that nobody could write.  (sys_page_alloc(), sys_page_map(),   *)
(* sys_page_unmap(), sys_ipc_try_send(), env_free() and all they call)     *)
(***************************************************************************)
THEOREM SpacesAreApart ==
    ASSUME Sound
    PROVE  Spec /\ []NoOverflow => Isolation
  <1>1. Init => IInv
    BY InitStep
  <1>2. IInv /\ NoOverflow /\ [Next]_vars => IInv'
    BY NextStep
  <1>3. IInv /\ NoOverflow /\ [Next]_vars => [OnlyOneSpace /\ ReadOnlyStaysReadOnly]_vars
    BY NextStep, OneAtATime, ReadOnlyKept
  <1> QED  BY <1>1, <1>2, <1>3, PTL DEF Spec, Isolation

(***************************************************************************)
(* A call that leaves every mapping as it was has neither taken a page nor *)
(* given one back, wherever on the way it ran out of memory.               *)
(* (pml4e_walk(), pdpe_walk() and pgdir_walk() take their tables back,     *)
(* page_insert() of a page where it already is, page_free())               *)
(***************************************************************************)
THEOREM SilentCallsKeepPages ==
    ASSUME Sound
    PROVE  Spec /\ []NoOverflow => NoSilentChange
  <1> DEFINE Silent == (\A e \in Env : Space(e)' = Space(e)) => UNCHANGED <<pp_ref, page_free_list>>
  <1>1. Init => IInv
    BY InitStep
  <1>2. IInv /\ NoOverflow /\ [Next]_vars => IInv'
    BY NextStep
  <1>3. IInv /\ NoOverflow /\ [Next]_vars => [Silent]_vars
    BY NextStep, SilentKeeps
  <1>4. NoSilentChange <=> [][Silent]_vars
    BY DEF NoSilentChange
  <1> HIDE DEF Silent
  <1> QED  BY <1>1, <1>2, <1>3, <1>4, PTL DEF Spec
=============================================================================
