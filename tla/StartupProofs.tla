---------------------------- MODULE StartupProofs ----------------------------
(*****************************************************************************)
(* Theorems about the start of the machine, for every machine, every image   *)
(* and every number of processors: the stacks of the processors, the list of *)
(* free pages, what the three loaders leave in memory, and the arguments     *)
(* that spawn() hands over.                                                  *)
(*****************************************************************************)
EXTENDS Startup, FiniteSetTheorems, SequenceTheorems, TLAPS

-------------------------------------------------------------------------------
(*****************************************************************************)
(* Induction.  The library states it for an operator; the provers need it    *)
(* for a set.                                                                *)
(*****************************************************************************)

\* A set of numbers with 0 and the successor of each member has them all.
LEMMA NatSetInduction ==
    ASSUME NEW S \in SUBSET Nat, 0 \in S, \A n \in S : n + 1 \in S
    PROVE  Nat \subseteq S
  <1> DEFINE T == Nat \ S
             R == OpToRel(<, Nat)
  <1>1. SUFFICES ASSUME T # {} PROVE FALSE
    OBVIOUS
  <1>2. PICK x \in T : \A y \in T : ~(<<y, x>> \in R)
    <2>1. IsWellFoundedOn(R, Nat)
      BY NatLessThanWellFounded
    <2>2. T \subseteq Nat
      OBVIOUS
    <2> HIDE DEF R, T
    <2> QED  BY <1>1, <2>1, <2>2, WFMin
  <1>3. \A y \in T : ~(y < x)
    BY <1>2 DEF OpToRel
  <1>4. x \in Nat /\ x # 0 /\ x - 1 \in Nat
    OBVIOUS
  <1>5. x - 1 \in S
    BY <1>3, <1>4
  <1> QED  BY <1>4, <1>5

\* Recursion up to n: the step from k - 1 to k is a function.
IsStep(step, n, V) == step \in [(1..n) \X V -> V]
Recurs(f, n, V, v0, step) == f \in [0..n -> V] /\ f[0] = v0 /\ \A k \in 1..n : f[k] = step[<<k, f[k - 1]>>]

LEMMA RecursionUpTo ==
    ASSUME NEW V, NEW n \in Nat, NEW v0 \in V, NEW step, IsStep(step, n, V)
    PROVE  \E f : Recurs(f, n, V, v0, step)
  <1> USE DEF IsStep, Recurs
  <1> DEFINE Good(m, g) == g[0] = v0 /\ \A k \in 1..m : g[k] = step[<<k, g[k - 1]>>]
             S == {m \in Nat : m <= n => \E g \in [0..m -> V] : Good(m, g)}
  <1>1. 0 \in S
    <2>1. [k \in 0..0 |-> v0] \in [0..0 -> V] /\ Good(0, [k \in 0..0 |-> v0])
      OBVIOUS
    <2> QED  BY <2>1
  <1>2. ASSUME NEW m \in S PROVE m + 1 \in S
    <2> SUFFICES ASSUME m + 1 <= n
                 PROVE  \E g \in [0..(m + 1) -> V] : Good(m + 1, g)
      OBVIOUS
    <2>1. m \in Nat /\ m <= n
      OBVIOUS
    <2>2. PICK g \in [0..m -> V] : Good(m, g)
      BY <2>1
    <2> DEFINE h == [k \in 0..(m + 1) |-> IF k = m + 1 THEN step[<<m + 1, g[m]>>] ELSE g[k]]
    <2>3. g[m] \in V /\ step[<<m + 1, g[m]>>] \in V
      <3>1. g[m] \in V
        BY <2>1
      <3>2. <<m + 1, g[m]>> \in (1..n) \X V
        BY <2>1, <3>1
      <3> QED  BY <3>1, <3>2
    <2>4. h \in [0..(m + 1) -> V]
      BY <2>1, <2>3
    <2>5. h[0] = v0
      BY <2>1, <2>2
    <2>6. \A k \in 1..(m + 1) : h[k] = step[<<k, h[k - 1]>>]
      <3> SUFFICES ASSUME NEW k \in 1..(m + 1) PROVE h[k] = step[<<k, h[k - 1]>>]
        OBVIOUS
      <3>1. k - 1 \in 0..m /\ h[k - 1] = g[k - 1]
        BY <2>1
      <3>2. CASE k = m + 1
        <4>1. h[k] = step[<<m + 1, g[m]>>]
          BY <2>1, <3>2
        <4>2. k = m + 1 /\ k - 1 = m
          BY <2>1, <3>2
        <4> QED  BY <3>1, <4>1, <4>2
      <3>3. CASE k # m + 1
        <4>1. k \in 1..m /\ h[k] = g[k]
          BY <2>1, <3>3
        <4> QED  BY <2>2, <3>1, <4>1
      <3> QED  BY <3>2, <3>3
    <2> QED  BY <2>4, <2>5, <2>6
  <1>3. n \in S
    <2> HIDE DEF S
    <2>1. S \in SUBSET Nat
      BY DEF S
    <2> QED  BY <1>1, <1>2, <2>1, NatSetInduction
  <1> QED  BY <1>3

-------------------------------------------------------------------------------
(*****************************************************************************)
(* The table of processors.                                                  *)
(*****************************************************************************)
Entries == machine.mp.entries
TableState == [n : 0..NCPU, boot : 0..NCPU, ismp : BOOLEAN]

\* An entry leaves the state in its bounds.
LEMMA EntryBounds ==
    ASSUME NEW s \in TableState, NEW e \in MpEntry
    PROVE  mp_entry(s, e) \in TableState
  <1>1. NCPU \in Nat /\ s.n \in 0..NCPU /\ s.boot \in 0..NCPU
    BY BootAssumption DEF TableState
  <1>2. CASE ~s.ismp
    BY <1>2 DEF mp_entry
  <1>3. CASE s.ismp /\ e.kind = "proc"
    <2> DEFINE b == IF e.boot THEN s.n ELSE s.boot
               m == IF s.n < NCPU /\ e.enabled THEN s.n + 1 ELSE s.n
    <2>1. b \in 0..NCPU /\ m \in 0..NCPU
      BY <1>1
    <2>2. mp_entry(s, e) = [s EXCEPT !.boot = b, !.n = m]
      BY <1>3 DEF mp_entry
    <2> HIDE DEF b, m
    <2>3. mp_entry(s, e) = [n |-> m, boot |-> b, ismp |-> s.ismp]
      BY <2>2 DEF TableState
    <2> QED  BY <2>1, <2>3 DEF TableState
  <1>4. CASE s.ismp /\ e.kind = "other"
    BY <1>4 DEF mp_entry
  <1>5. CASE s.ismp /\ e.kind = "unknown"
    <2>1. mp_entry(s, e) = [s EXCEPT !.ismp = FALSE]
      BY <1>5 DEF mp_entry
    <2> QED  BY <2>1 DEF TableState
  <1> QED  BY <1>2, <1>3, <1>4, <1>5 DEF MpEntry

\* mp_entries is what its recursive definition says.
LEMMA EntriesRecursion ==
    ASSUME Entries \in Seq(MpEntry)
    PROVE  /\ mp_entries \in [0..Len(Entries) -> TableState]
           /\ mp_entries[0] = [n |-> 0, boot |-> 0, ismp |-> TRUE]
           /\ \A k \in 1..Len(Entries) : mp_entries[k] = mp_entry(mp_entries[k - 1], Entries[k])
  <1> DEFINE L == Len(Entries)
             v0 == [n |-> 0, boot |-> 0, ismp |-> TRUE]
             step == [x \in (1..L) \X TableState |-> mp_entry(x[2], Entries[x[1]])]
             Fits(f) == f = [k \in 0..L |-> IF k = 0 THEN v0 ELSE mp_entry(f[k - 1], Entries[k])]
  <1>1. L \in Nat /\ v0 \in TableState
    BY BootAssumption DEF TableState
  <1>2. IsStep(step, L, TableState)
    <2>1. \A x \in (1..L) \X TableState : mp_entry(x[2], Entries[x[1]]) \in TableState
      <3> SUFFICES ASSUME NEW k \in 1..L, NEW s \in TableState PROVE mp_entry(s, Entries[k]) \in TableState
        OBVIOUS
      <3>1. Entries[k] \in MpEntry
        OBVIOUS
      <3> QED  BY <3>1, EntryBounds
    <2> QED  BY <2>1 DEF IsStep
  <1>3. \E f : Recurs(f, L, TableState, v0, step)
    <2> HIDE DEF L, v0, step
    <2> QED  BY <1>1, <1>2, RecursionUpTo
  <1>4. PICK f \in [0..L -> TableState] : f[0] = v0 /\ \A k \in 1..L : f[k] = step[<<k, f[k - 1]>>]
    BY <1>3 DEF Recurs
  <1>5. \A k \in 1..L : f[k] = mp_entry(f[k - 1], Entries[k])
    <2> SUFFICES ASSUME NEW k \in 1..L PROVE f[k] = mp_entry(f[k - 1], Entries[k])
      OBVIOUS
    <2>1. f[k - 1] \in TableState
      BY <1>1
    <2>2. f[k] = step[<<k, f[k - 1]>>]
      BY <1>4
    <2> QED  BY <2>1, <2>2
  <1>6. Fits(f)
    <2>1. f = [k \in 0..L |-> f[k]]
      OBVIOUS
    <2>2. \A k \in 0..L : f[k] = IF k = 0 THEN v0 ELSE mp_entry(f[k - 1], Entries[k])
      BY <1>1, <1>4, <1>5, SMTT(60)
    <2> QED  BY <2>1, <2>2
  <1>7. Fits(mp_entries)
    BY <1>6 DEF mp_entries, Entries
  <1>8. /\ mp_entries = [k \in 0..L |-> mp_entries[k]]
        /\ mp_entries[0] = v0
        /\ \A k \in 1..L : mp_entries[k] = mp_entry(mp_entries[k - 1], Entries[k])
    <2> DEFINE body(k) == IF k = 0 THEN v0 ELSE mp_entry(mp_entries[k - 1], Entries[k])
    <2>1. mp_entries = [k \in 0..L |-> body(k)]
      BY <1>7
    <2> HIDE DEF body
    <2>2. \A k \in 0..L : mp_entries[k] = body(k)
      BY <2>1
    <2>3. mp_entries = [k \in 0..L |-> mp_entries[k]]
      BY <2>1, <2>2
    <2>4. mp_entries[0] = v0
      <3>1. mp_entries[0] = body(0)
        BY <1>1, <2>2
      <3> QED  BY <3>1 DEF body
    <2>5. ASSUME NEW k \in 1..L PROVE mp_entries[k] = mp_entry(mp_entries[k - 1], Entries[k])
      <3>1. k \in 0..L /\ k # 0
        BY <1>1
      <3>2. mp_entries[k] = body(k)
        BY <2>2, <3>1
      <3> QED  BY <3>1, <3>2 DEF body
    <2> QED  BY <2>3, <2>4, <2>5
  <1> HIDE DEF v0, step
  <1> DEFINE S == {k \in Nat : k <= L => mp_entries[k] \in TableState}
  <1>9. 0 \in S
    BY <1>1, <1>8
  <1>10. ASSUME NEW k \in S PROVE k + 1 \in S
    <2> SUFFICES ASSUME k + 1 <= L PROVE mp_entries[k + 1] \in TableState
      OBVIOUS
    <2>1. k + 1 \in 1..L /\ (k + 1) - 1 = k /\ k <= L
      BY <1>1
    <2>2. mp_entries[k] \in TableState /\ Entries[k + 1] \in MpEntry
      BY <2>1
    <2>3. mp_entries[k + 1] = mp_entry(mp_entries[k], Entries[k + 1])
      BY <1>8, <2>1
    <2> QED  BY <2>2, <2>3, EntryBounds
  <1>11. Nat \subseteq S
    <2>1. S \in SUBSET Nat
      OBVIOUS
    <2> HIDE DEF S
    <2> QED  BY <1>9, <1>10, <2>1, NatSetInduction
  <1>12. \A k \in 0..L : mp_entries[k] \in TableState
    BY <1>1, <1>11
  <1> QED  BY <1>8, <1>12 DEF v0

\* How many of the first k entries are processors that can be used.
CountUsable(k) == Cardinality({j \in 1..k : Usable(Entries[j])})

LEMMA CountStep ==
    ASSUME NEW k \in Nat
    PROVE  /\ CountUsable(k) \in Nat
           /\ CountUsable(k + 1) = IF Usable(Entries[k + 1]) THEN CountUsable(k) + 1 ELSE CountUsable(k)
  <1> DEFINE A == {j \in 1..k : Usable(Entries[j])}
             B == {j \in 1..(k + 1) : Usable(Entries[j])}
  <1>1. IsFiniteSet(A)
    <2>1. IsFiniteSet(1..k)
      BY FS_Interval
    <2> QED  BY <2>1, FS_Subset
  <1>2. k + 1 \notin A
    OBVIOUS
  <1>3. CASE Usable(Entries[k + 1])
    <2>1. B = A \cup {k + 1}
      BY <1>3
    <2> HIDE DEF A, B
    <2>2. Cardinality(B) = Cardinality(A) + 1
      BY <1>1, <1>2, <2>1, FS_AddElement
    <2> QED  BY <1>1, <1>3, <2>2, FS_CardinalityType DEF CountUsable, A, B
  <1>4. CASE ~Usable(Entries[k + 1])
    <2>1. B = A
      BY <1>4
    <2> HIDE DEF A, B
    <2> QED  BY <1>1, <1>4, <2>1, FS_CardinalityType DEF CountUsable, A, B
  <1> QED  BY <1>3, <1>4

\* The k entries before: n counts the usable ones up to NCPU, and the boot
\* processor's number is its APIC id.
CountedRight(k) ==
    mp_entries[k].ismp =>
        /\ mp_entries[k].n = IF CountUsable(k) < NCPU THEN CountUsable(k) ELSE NCPU
        /\ (\E j \in 1..k : Usable(Entries[j]) /\ Entries[j].boot) => mp_entries[k].boot = machine.bsp

LEMMA CountedRightStep ==
    ASSUME Entries \in Seq(MpEntry), Orderly,
           NEW k \in Nat, k + 1 <= Len(Entries), CountedRight(k)
    PROVE  CountedRight(k + 1)
  <1> DEFINE s == mp_entries[k]
             e == Entries[k + 1]
             c == CountUsable(k)
  <1>0. Len(Entries) \in Nat /\ DOMAIN Entries = 1..Len(Entries)
    OBVIOUS
  <1>1. /\ k + 1 \in 1..Len(Entries) /\ k + 1 \in DOMAIN Entries /\ k \in 0..Len(Entries)
        /\ (k + 1) - 1 = k
    BY <1>0
  <1>2. s \in TableState /\ e \in MpEntry /\ mp_entries[k + 1] = mp_entry(s, e)
    <2>1. e \in MpEntry
      BY <1>1
    <2> QED  BY <1>1, <2>1, EntriesRecursion
  <1>3. c \in Nat /\ CountUsable(k + 1) = IF Usable(e) THEN c + 1 ELSE c
    BY CountStep
  <1>4. Usable(e) => e.apic = c
    <2>1. \A i \in DOMAIN Entries : Usable(Entries[i]) => Entries[i].apic = CountUsable(i - 1)
      BY DEF Orderly, Entries, CountUsable
    <2> QED  BY <1>1, <2>1
  <1>5. e.kind = "proc" => (e.boot <=> e.enabled /\ e.apic = machine.bsp)
    BY <1>1 DEF Orderly, Entries
  <1>6. machine.bsp < NCPU /\ NCPU \in Nat
    BY BootAssumption DEF Orderly
  <1>7. /\ s.n \in 0..NCPU /\ s.boot \in 0..NCPU /\ s.ismp \in BOOLEAN
        /\ e.kind \in {"proc", "other", "unknown"} /\ e.boot \in BOOLEAN /\ e.enabled \in BOOLEAN
    BY <1>2 DEF TableState, MpEntry
  <1>8. s.ismp => /\ s.n = IF c < NCPU THEN c ELSE NCPU
                  /\ (\E j \in 1..k : Usable(Entries[j]) /\ Entries[j].boot) => s.boot = machine.bsp
    BY DEF CountedRight
  <1>9. (\E j \in 1..(k + 1) : Usable(Entries[j]) /\ Entries[j].boot)
          => (\E j \in 1..k : Usable(Entries[j]) /\ Entries[j].boot) \/ (Usable(e) /\ e.boot)
    OBVIOUS
  <1>10. CASE ~s.ismp
    <2>1. mp_entries[k + 1] = s
      BY <1>2, <1>10 DEF mp_entry
    <2> QED  BY <1>10, <2>1 DEF CountedRight
  <1>11. CASE s.ismp /\ e.kind = "unknown"
    <2>1. mp_entries[k + 1] = [s EXCEPT !.ismp = FALSE]
      BY <1>2, <1>11 DEF mp_entry
    <2>2. ~mp_entries[k + 1].ismp
      BY <1>2, <2>1 DEF TableState
    <2> QED  BY <2>2 DEF CountedRight
  <1>12. CASE s.ismp /\ e.kind = "other"
    <2>1. mp_entries[k + 1] = s
      BY <1>2, <1>12 DEF mp_entry
    <2>2. ~Usable(e)
      BY <1>12 DEF Usable
    <2>3. CountUsable(k + 1) = c
      BY <1>3, <2>2
    <2> HIDE DEF s, e, c
    <2> QED  BY <1>8, <1>9, <1>12, <2>1, <2>2, <2>3 DEF CountedRight
  <1>13. CASE s.ismp /\ e.kind = "proc"
    <2> DEFINE b == IF e.boot THEN s.n ELSE s.boot
               m == IF s.n < NCPU /\ e.enabled THEN s.n + 1 ELSE s.n
    <2>1. mp_entries[k + 1] = [s EXCEPT !.boot = b, !.n = m]
      BY <1>2, <1>13 DEF mp_entry
    <2> HIDE DEF b, m
    <2>2. mp_entries[k + 1].boot = b /\ mp_entries[k + 1].n = m
      BY <1>2, <2>1 DEF TableState
    <2>3. Usable(e) <=> e.enabled
      BY <1>13 DEF Usable
    <2> HIDE DEF s, e, c
    <2>4. m = IF CountUsable(k + 1) < NCPU THEN CountUsable(k + 1) ELSE NCPU
      BY <1>3, <1>6, <1>7, <1>8, <1>13, <2>3 DEF m
    <2>5. ASSUME \E j \in 1..(k + 1) : Usable(Entries[j]) /\ Entries[j].boot
          PROVE  b = machine.bsp
      <3>1. CASE e.boot
        <4>1. e.apic = machine.bsp /\ c = machine.bsp
          BY <1>4, <1>5, <1>13, <2>3, <3>1
        <4>2. s.n = c
          BY <1>6, <1>8, <1>13, <4>1
        <4> QED  BY <3>1, <4>1, <4>2 DEF b
      <3>2. CASE ~e.boot
        BY <1>8, <1>9, <1>13, <2>5, <3>2 DEF b
      <3> QED  BY <3>1, <3>2
    <2> QED  BY <2>2, <2>4, <2>5 DEF CountedRight
  <1> QED  BY <1>7, <1>10, <1>11, <1>12, <1>13

\* On an orderly machine the processor that mp_init() marks is the one that
\* runs it.
LEMMA OrderlyTable ==
    ASSUME Entries \in Seq(MpEntry), Orderly, MpTable.ismp
    PROVE  MpTable.boot = machine.bsp /\ machine.bsp \in 0..NCPU /\ MpTable.n \in 0..NCPU
  <1> DEFINE L == Len(Entries)
             S == {k \in Nat : k <= L => CountedRight(k)}
  <1>1. L \in Nat
    OBVIOUS
  <1>2. 0 \in S
    <2>1. {j \in 1..0 : Usable(Entries[j])} = {}
      OBVIOUS
    <2>2. CountUsable(0) = 0
      BY <2>1, FS_EmptySet DEF CountUsable
    <2>3. mp_entries[0] = [n |-> 0, boot |-> 0, ismp |-> TRUE]
      BY EntriesRecursion
    <2>4. mp_entries[0].n = 0 /\ NCPU \in Nat
      BY <2>3, BootAssumption
    <2>5. NCPU \in Nat \ {0} /\ CountUsable(0) < NCPU
      BY <2>2, BootAssumption
    <2>6. ~ \E j \in 1..0 : Usable(Entries[j]) /\ Entries[j].boot
      OBVIOUS
    <2>7. CountedRight(0)
      BY <2>2, <2>4, <2>5, <2>6 DEF CountedRight
    <2> QED  BY <2>7
  <1>3. ASSUME NEW k \in S PROVE k + 1 \in S
    <2> SUFFICES ASSUME k + 1 <= L PROVE CountedRight(k + 1)
      OBVIOUS
    <2>1. k \in Nat /\ k <= L /\ CountedRight(k)
      BY <1>1
    <2> QED  BY <2>1, CountedRightStep
  <1>4. Nat \subseteq S
    <2>1. S \in SUBSET Nat
      OBVIOUS
    <2> HIDE DEF S
    <2> QED  BY <1>2, <1>3, <2>1, NatSetInduction
  <1>5. CountedRight(L)
    BY <1>1, <1>4
  <1>6. MpTable = mp_entries[L] /\ mp_entries[L] \in TableState
    BY <1>1, EntriesRecursion DEF MpTable, Entries
  <1>7. \E j \in 1..L : Usable(Entries[j]) /\ Entries[j].boot
    <2>1. DOMAIN Entries = 1..L
      OBVIOUS
    <2> QED  BY <2>1 DEF Orderly, Entries
  <1>8. MpTable.boot = machine.bsp
    BY <1>5, <1>6, <1>7 DEF CountedRight
  <1> QED  BY <1>6, <1>8 DEF TableState

-------------------------------------------------------------------------------
(*****************************************************************************)
(* The stacks of the processors.                                             *)
(*****************************************************************************)
Early == {"start", "sanitize", "detect", "alloc", "page_init", "map", "check_low", "check_alloc", "page_check",
          "check_all", "check_pml4e", "mp_init"}
Late == {"lapic", "aps", "wait", "done", "panic", "fault"}

\* Before mp_init() no processor is marked and none but the first runs; without
\* a local APIC none is started.
CpuInv ==
    /\ machine \in Machines /\ turn \in Nat /\ stage \in Early \cup Late
    /\ lapicaddr \in BOOLEAN /\ ncpu \in 0..NCPU
    /\ cpus \in [ApicIds -> {"unused", "started"}]
    /\ ap \in [ApicIds -> {"off", "entry", "mp_main", "set up", "up"}]
    /\ DOMAIN stackOf = ApicIds
    /\ stage \in Early => ncpu = 0 /\ ~lapicaddr /\ \A p \in ApicIds : cpus[p] = "unused"
    /\ stage = "lapic" => \A p \in ApicIds : ap[p] = "off"
    /\ ~lapicaddr => ncpu <= 1 /\ stage # "wait" /\ \A p \in ApicIds : ap[p] = "off"

\* boot_aps() starts one processor at a time, and the one that is on its way is
\* the one for which mpentry_kstack was set.
TurnInv ==
    /\ lapicaddr => /\ machine.bsp \in ApicIds
                    /\ \A p \in ApicIds : cpus[p] = "started" => p = machine.bsp \/ ap[p] = "up"
    /\ stage = "aps" => \A p \in ApicIds : ap[p] \in {"off", "up"} /\ (p >= turn => ap[p] = "off")
    /\ stage = "wait" =>
          /\ turn \in ApicIds /\ turn # machine.bsp
          /\ \A p \in ApicIds : (p # turn => ap[p] \in {"off", "up"}) /\ (p > turn => ap[p] = "off")
    /\ \A p \in ApicIds : ap[p] = "entry" => mpentry_kstack = p
    /\ \A p \in ApicIds : stackOf[p] \in {NoStack, p}

StackInv == CpuInv /\ (Orderly => TurnInv)

\* What the boot processor does to memory leaves the processors alone.
MemoryStep ==
    \/ do_e820 \/ sanitize \/ i386_detect_memory \/ boot_alloc \/ page_init \/ map_regions
    \/ check_page_free_list \/ check_page_alloc \/ page_check \/ check_boot_pml4e

LEMMA MemoryFrame ==
    ASSUME CpuInv, MemoryStep
    PROVE  /\ machine' = machine /\ UNCHANGED cpuVars
           /\ stage \in Early /\ stage' \in Early \cup {"panic", "fault"}
           /\ turn' \in Nat
  <1>0. turn \in Nat
    BY DEF CpuInv
  <1>1. turn \in Nat /\ turn + 1 \in Nat
    BY <1>0
  <1>2. CASE do_e820 \/ sanitize
    BY <1>1, <1>2 DEF do_e820, sanitize, Early
  <1>3. CASE i386_detect_memory \/ boot_alloc \/ page_init
    BY <1>1, <1>3 DEF i386_detect_memory, boot_alloc, page_init, Panic, Early
  <1>4. CASE map_regions
    BY <1>1, <1>4 DEF map_regions, boot_map_region, Panic, Early
  <1>5. CASE check_page_free_list \/ check_page_alloc \/ page_check \/ check_boot_pml4e
    BY <1>1, <1>5 DEF check_page_free_list, check_page_alloc, page_check, check_boot_pml4e, Panic, Early
  <1> QED  BY <1>2, <1>3, <1>4, <1>5 DEF MemoryStep

LEMMA MemoryStack ==
    ASSUME StackInv, MemoryStep
    PROVE  StackInv'
  <1>1. /\ machine' = machine /\ UNCHANGED cpuVars
        /\ stage \in Early /\ stage' \in Early \cup {"panic", "fault"}
        /\ turn' \in Nat
    BY MemoryFrame DEF StackInv
  <1>2. CpuInv'
    BY <1>1 DEF StackInv, CpuInv, cpuVars, Early, Late
  <1>3. Orderly' <=> Orderly
    BY <1>1 DEF Orderly
  <1>4. Orderly => TurnInv'
    BY <1>1 DEF StackInv, TurnInv, cpuVars, Early
  <1> QED  BY <1>2, <1>3, <1>4 DEF StackInv

\* A step that does not touch the machine does not change whether it is orderly.
LEMMA mp_initStack ==
    ASSUME StackInv, mp_init
    PROVE  StackInv'
  <1>1. /\ machine' = machine /\ stage = "mp_init" /\ stage' = "lapic"
        /\ UNCHANGED <<turn, mpentry_kstack, ap, stackOf>>
    BY DEF mp_init
  <1>2. Entries \in Seq(MpEntry)
    BY BootAssumption DEF StackInv, CpuInv, Entries
  <1>3. MpTable \in TableState
    <2>1. Len(Entries) \in Nat
      BY <1>2
    <2>2. MpTable = mp_entries[Len(Entries)]
      BY DEF MpTable, Entries
    <2> QED  BY <1>2, <2>1, <2>2, EntriesRecursion
  <1>4. MpTable.n \in 0..NCPU /\ MpTable.boot \in ApicIds /\ MpTable.ismp \in BOOLEAN /\ 1 \in 0..NCPU /\ 0 \in 0..NCPU
    BY <1>3, BootAssumption DEF TableState, ApicIds
  <1>5. /\ ~lapicaddr /\ ncpu = 0 /\ \A p \in ApicIds : cpus[p] = "unused" /\ ap[p] = "off"
    BY <1>1 DEF StackInv, CpuInv, Early
  <1>6. /\ ncpu' \in 0..NCPU /\ lapicaddr' \in BOOLEAN /\ (~lapicaddr' => ncpu' <= 1)
        /\ cpus' \in [ApicIds -> {"unused", "started"}]
        /\ lapicaddr' => MpTable.ismp /\ \A p \in ApicIds : cpus'[p] = "started" => p = MpTable.boot
    <2>1. CASE mpconfig
      <3>1. /\ ncpu' = IF MpTable.ismp THEN MpTable.n ELSE 1
            /\ cpus' = [cpus EXCEPT ![MpTable.boot] = "started"]
            /\ lapicaddr' = MpTable.ismp
        BY <2>1 DEF mp_init
      <3>2. cpus \in [ApicIds -> {"unused", "started"}]
        BY DEF StackInv, CpuInv
      <3> HIDE DEF MpTable
      <3> QED  BY <1>4, <1>5, <3>1, <3>2
    <2>2. CASE ~mpconfig
      BY <1>4, <1>5, <2>2 DEF mp_init, StackInv, CpuInv
    <2> QED  BY <2>1, <2>2
  <1>7. CpuInv'
    BY <1>1, <1>5, <1>6 DEF StackInv, CpuInv, Early, Late
  <1>8. Orderly' <=> Orderly
    BY <1>1 DEF Orderly
  <1>9. ASSUME Orderly PROVE TurnInv'
    <2>1. lapicaddr' => MpTable.boot = machine.bsp /\ machine.bsp \in ApicIds
      BY <1>2, <1>6, <1>9, OrderlyTable DEF ApicIds
    <2> QED  BY <1>1, <1>5, <1>6, <1>9, <2>1 DEF StackInv, TurnInv
  <1> QED  BY <1>7, <1>8, <1>9 DEF StackInv

LEMMA lapic_initStack ==
    ASSUME StackInv, lapic_init
    PROVE  StackInv'
  <1>1. machine' = machine /\ stage = "lapic" /\ stage' \in {"panic", "aps"} /\ turn' = turn /\ UNCHANGED cpuVars
    BY DEF lapic_init
  <1>2. CpuInv'
    BY <1>1 DEF StackInv, CpuInv, cpuVars, Early, Late
  <1>3. Orderly' <=> Orderly
    BY <1>1 DEF Orderly
  <1>4. Orderly => TurnInv'
    BY <1>1 DEF StackInv, CpuInv, TurnInv, cpuVars
  <1> QED  BY <1>2, <1>3, <1>4 DEF StackInv

LEMMA boot_apsStack ==
    ASSUME StackInv, boot_aps
    PROVE  StackInv'
  <1>1. machine' = machine /\ stage = "aps" /\ UNCHANGED <<cpus, ncpu, lapicaddr, stackOf>>
    BY DEF boot_aps
  <1>2. Orderly' <=> Orderly
    BY <1>1 DEF Orderly
  <1>3. turn \in Nat /\ turn + 1 \in Nat /\ ncpu \in 0..NCPU /\ NCPU \in Nat
    <2>1. turn \in Nat /\ ncpu \in 0..NCPU
      BY DEF StackInv, CpuInv
    <2> QED  BY <2>1, BootAssumption
  <1>4. CASE turn >= ncpu
    <2>1. stage' = "done" /\ UNCHANGED <<turn, mpentry_kstack, ap>>
      BY <1>4 DEF boot_aps
    <2> QED  BY <1>1, <1>2, <2>1 DEF StackInv, CpuInv, TurnInv, Early, Late
  <1>5. CASE ~(turn >= ncpu) /\ turn = cpunum(machine.bsp)
    <2>1. turn' = turn + 1 /\ UNCHANGED <<stage, mpentry_kstack, ap>>
      BY <1>5 DEF boot_aps
    <2>2. CpuInv'
      BY <1>1, <1>3, <2>1 DEF StackInv, CpuInv
    <2>3. \A p \in ApicIds : p >= turn + 1 => p >= turn
      BY <1>3 DEF ApicIds
    <2>4. Orderly => TurnInv'
      BY <1>1, <2>1, <2>3 DEF StackInv, TurnInv
    <2> QED  BY <1>2, <2>2, <2>4 DEF StackInv
  <1>6. CASE ~(turn >= ncpu) /\ turn # cpunum(machine.bsp)
    <2>1. mpentry_kstack' = turn /\ lapic_startap(turn) /\ stage' = "wait" /\ turn' = turn
      BY <1>6 DEF boot_aps
    <2>2. lapicaddr /\ turn # machine.bsp
      <3>1. CASE ~lapicaddr
        <4>1. turn # 0 /\ ncpu <= 1
          BY <1>6, <3>1 DEF cpunum, StackInv, CpuInv
        <4> QED  BY <1>3, <1>6, <4>1
      <3>2. CASE lapicaddr
        BY <1>6, <3>2 DEF cpunum
      <3> QED  BY <3>1, <3>2
    <2>3. turn \in ApicIds
      BY <1>3, <1>6 DEF ApicIds
    <2>4. /\ ap' \in [ApicIds -> {"off", "entry", "mp_main", "set up", "up"}]
          /\ \A p \in ApicIds : p # turn => ap'[p] = ap[p]
          /\ ap'[turn] \in {ap[turn], "entry"}
      BY <2>1, <2>3 DEF lapic_startap, StackInv, CpuInv
    <2>5. CpuInv'
      BY <1>1, <2>1, <2>2, <2>4 DEF StackInv, CpuInv, Early, Late
    <2>6. ASSUME Orderly PROVE TurnInv'
      <3>1. /\ \A p \in ApicIds : ap[p] \in {"off", "up"} /\ (p >= turn => ap[p] = "off")
            /\ machine.bsp \in ApicIds
            /\ \A p \in ApicIds : cpus[p] = "started" => p = machine.bsp \/ ap[p] = "up"
            /\ \A p \in ApicIds : stackOf[p] \in {NoStack, p}
        BY <1>1, <2>2, <2>6 DEF StackInv, TurnInv
      <3>2. \A p \in ApicIds : p > turn => p >= turn /\ p # turn
        BY <1>3 DEF ApicIds
      <3>3. ap[turn] = "off"
        BY <1>3, <2>3, <3>1
      <3>4. \A p \in ApicIds : cpus'[p] = "started" => p = machine.bsp \/ ap'[p] = "up"
        BY <1>1, <2>4, <3>1, <3>3
      <3>5. \A p \in ApicIds : ap'[p] = "entry" => p = turn
        BY <2>4, <3>1
      <3> QED  BY <1>1, <2>1, <2>2, <2>3, <2>4, <3>1, <3>2, <3>4, <3>5 DEF TurnInv
    <2> QED  BY <1>2, <2>5, <2>6 DEF StackInv
  <1> QED  BY <1>4, <1>5, <1>6

LEMMA boot_waitStack ==
    ASSUME StackInv, boot_wait
    PROVE  StackInv'
  <1>1. /\ machine' = machine /\ stage = "wait" /\ stage' = "aps" /\ cpus[turn] = "started"
        /\ turn' = turn + 1 /\ UNCHANGED cpuVars
    BY DEF boot_wait
  <1>2. Orderly' <=> Orderly
    BY <1>1 DEF Orderly
  <1>3. turn \in Nat
    BY DEF StackInv, CpuInv
  <1>4. CpuInv'
    <2>1. turn' \in Nat
      BY <1>1, <1>3
    <2> QED  BY <1>1, <2>1 DEF StackInv, CpuInv, cpuVars, Early, Late
  <1>5. ASSUME Orderly PROVE TurnInv'
    <2>1. lapicaddr
      BY <1>1 DEF StackInv, CpuInv
    <2>2. ap[turn] = "up"
      BY <1>1, <1>5, <2>1 DEF StackInv, TurnInv
    <2>3. \A p \in ApicIds : p >= turn + 1 => p > turn
      BY <1>3 DEF ApicIds
    <2> QED  BY <1>1, <1>5, <2>2, <2>3 DEF StackInv, TurnInv, cpuVars
  <1> QED  BY <1>2, <1>4, <1>5 DEF StackInv

LEMMA OtherStack ==
    ASSUME StackInv, NEW p \in ApicIds, OtherProcessor(p)
    PROVE  StackInv'
  <1>1. machine' = machine /\ turn' = turn /\ UNCHANGED <<ncpu, lapicaddr, mpentry_kstack>>
    BY DEF OtherProcessor, mpentry_start, mp_main, mp_started
  <1>2. Orderly' <=> Orderly
    BY <1>1 DEF Orderly
  <1>3. lapicaddr
    BY DEF OtherProcessor, mpentry_start, mp_main, mp_started, StackInv, CpuInv
  <1>4. CASE mpentry_start(p)
    <2>1. /\ ap[p] = "entry" /\ ap' = [ap EXCEPT ![p] = "mp_main"] /\ stage' = stage /\ cpus' = cpus
          /\ stackOf' = [stackOf EXCEPT ![p] = mpentry_kstack]
      BY <1>4 DEF mpentry_start
    <2>2. CpuInv'
      BY <1>1, <1>3, <2>1 DEF StackInv, CpuInv, Early
    <2>3. ASSUME Orderly PROVE TurnInv'
      <3>1. TurnInv /\ CpuInv
        BY <2>3 DEF StackInv
      <3>2. \A q \in ApicIds : /\ ap'[q] = IF q = p THEN "mp_main" ELSE ap[q]
                               /\ stackOf'[q] = IF q = p THEN mpentry_kstack ELSE stackOf[q]
        BY <2>1, <3>1 DEF CpuInv
      <3>3. mpentry_kstack = p
        BY <2>1, <3>1 DEF TurnInv
      <3> QED  BY <1>1, <2>1, <3>1, <3>2, <3>3 DEF TurnInv
    <2> QED  BY <1>2, <2>2, <2>3 DEF StackInv
  <1>5. CASE mp_main(p)
    <2>1. /\ ap[p] = "mp_main" /\ cpus' = cpus /\ stackOf' = stackOf
          /\ \/ stage' = "panic" /\ ap' = ap
             \/ stage' = stage /\ ap' = [ap EXCEPT ![p] = "set up"]
      BY <1>5 DEF mp_main, Panic
    <2>2. CpuInv'
      BY <1>1, <1>3, <2>1 DEF StackInv, CpuInv, Early, Late
    <2>3. ASSUME Orderly PROVE TurnInv'
      <3>1. TurnInv /\ CpuInv
        BY <2>3 DEF StackInv
      <3>2. CASE stage' = "panic" /\ ap' = ap
        BY <1>1, <2>1, <3>1, <3>2 DEF TurnInv
      <3>3. CASE stage' = stage /\ ap' = [ap EXCEPT ![p] = "set up"]
        <4>1. \A q \in ApicIds : ap'[q] = IF q = p THEN "set up" ELSE ap[q]
          BY <3>1, <3>3 DEF CpuInv
        <4>2. \A q \in ApicIds : ap[q] = "up" => ap'[q] = "up"
          BY <2>1, <4>1
        <4>3. \A q \in ApicIds : ap[q] \in {"off", "up"} => ap'[q] = ap[q]
          BY <2>1, <4>1
        <4>4. \A q \in ApicIds : ap'[q] = "entry" => ap[q] = "entry"
          BY <4>1
        <4>5. stage # "aps"
          BY <2>1, <3>1 DEF TurnInv
        <4> QED  BY <1>1, <2>1, <3>1, <3>3, <4>2, <4>3, <4>4, <4>5 DEF TurnInv
      <3> QED  BY <2>1, <3>2, <3>3
    <2> QED  BY <1>2, <2>2, <2>3 DEF StackInv
  <1>6. CASE mp_started(p)
    <2>1. /\ ap[p] = "set up" /\ ap' = [ap EXCEPT ![p] = "up"] /\ stage' = stage /\ stackOf' = stackOf
          /\ cpus' = [cpus EXCEPT ![p] = "started"]
      BY <1>6 DEF mp_started
    <2>2. CpuInv'
      BY <1>1, <1>3, <2>1 DEF StackInv, CpuInv, Early
    <2>3. ASSUME Orderly PROVE TurnInv'
      <3>1. TurnInv /\ CpuInv
        BY <2>3 DEF StackInv
      <3>2. \A q \in ApicIds : /\ ap'[q] = IF q = p THEN "up" ELSE ap[q]
                               /\ cpus'[q] = IF q = p THEN "started" ELSE cpus[q]
        BY <2>1, <3>1 DEF CpuInv
      <3>3. \A q \in ApicIds : cpus'[q] = "started" => cpus[q] = "started" \/ ap'[q] = "up"
        BY <3>2
      <3>4. \A q \in ApicIds : ap[q] \in {"off", "up"} => ap'[q] = ap[q]
        BY <2>1, <3>2
      <3>5. \A q \in ApicIds : ap'[q] = "entry" => ap[q] = "entry"
        BY <3>2
      <3>6. stage # "aps"
        BY <2>1, <3>1 DEF TurnInv
      <3> QED  BY <1>1, <2>1, <3>1, <3>3, <3>4, <3>5, <3>6 DEF TurnInv
    <2> QED  BY <1>2, <2>2, <2>3 DEF StackInv
  <1> QED  BY <1>4, <1>5, <1>6 DEF OtherProcessor

LEMMA StackStep ==
    ASSUME StackInv, [Next]_vars
    PROVE  StackInv'
  <1>1. CASE UNCHANGED bootVars
    <2>1. Orderly' <=> Orderly
      BY <1>1 DEF bootVars, Orderly
    <2> QED  BY <1>1, <2>1 DEF StackInv, CpuInv, TurnInv, bootVars
  <1>2. CASE BootProcessor
    BY <1>2, MemoryStack, mp_initStack, lapic_initStack, boot_apsStack, boot_waitStack DEF BootProcessor, MemoryStep
  <1>3. CASE \E p \in ApicIds : OtherProcessor(p)
    BY <1>3, OtherStack
  <1> QED  BY <1>1, <1>2, <1>3 DEF Next, Load, Start, StartOther, vars

LEMMA StackInit == Init => StackInv
  <1> SUFFICES ASSUME Init PROVE StackInv
    OBVIOUS
  <1>1. CpuInv
    <2>1. machine \in Machines /\ turn \in Nat /\ stage = "start" /\ ncpu = 0 /\ ncpu \in 0..NCPU /\ lapicaddr = FALSE
      BY BootAssumption DEF Init, BootInit
    <2>2. /\ cpus = [i \in ApicIds |-> "unused"] /\ ap = [p \in ApicIds |-> "off"]
          /\ stackOf = [p \in ApicIds |-> NoStack]
      BY DEF Init, BootInit
    <2>3. /\ cpus \in [ApicIds -> {"unused", "started"}]
          /\ ap \in [ApicIds -> {"off", "entry", "mp_main", "set up", "up"}]
          /\ DOMAIN stackOf = ApicIds
          /\ \A p \in ApicIds : cpus[p] = "unused" /\ ap[p] = "off"
      BY <2>2
    <2>4. lapicaddr \in BOOLEAN /\ ~lapicaddr
      BY <2>1, Zenon
    <2>5. stage \in Early \cup Late /\ stage \notin {"lapic", "wait"} /\ ncpu <= 1
      BY <2>1 DEF Early
    <2> QED  BY <2>1, <2>3, <2>4, <2>5 DEF CpuInv
  <1>2. TurnInv
    BY DEF Init, BootInit, TurnInv
  <1> QED  BY <1>1, <1>2 DEF StackInv

(*****************************************************************************)
(* Every processor that boot_aps() starts runs on the stack that its own     *)
(* task segment will name, on every machine whose table lists the processors *)
(* by their APIC ids: it has read mpentry_kstack before the next one is      *)
(* written, because boot_aps() waits for cpu_status, and the only processor  *)
(* that mp_init() marks beforehand is the one that runs boot_aps().          *)
(*****************************************************************************)
THEOREM StacksAreOwn == Spec => []OwnStack
  <1>1. Init => StackInv
    BY StackInit
  <1>2. StackInv /\ [Next]_vars => StackInv'
    BY StackStep
  <1>3. StackInv => OwnStack
    BY DEF StackInv, TurnInv, OwnStack
  <1> QED  BY <1>1, <1>2, <1>3, PTL DEF Spec

-------------------------------------------------------------------------------
(*****************************************************************************)
(* Arithmetic of sectors and pages.                                          *)
(*****************************************************************************)

\* Quotient and rest of a number that is written with them.
LEMMA Quotient ==
    ASSUME NEW n \in Nat \ {0}, NEW c \in Int, NEW r \in 0..(n - 1)
    PROVE  (n * c + r) \div n = c /\ (n * c + r) % n = r
  <1> DEFINE x == n * c + r
             q == x \div n
             m == x % n
  <1>1. x \in Int
    OBVIOUS
  <1>2. q \in Int /\ m \in 0..(n - 1) /\ x = n * q + m
    BY <1>1
  <1>3. n * (c - q) = m - r
    BY <1>2
  <1>4. c = q
    <2>1. CASE c - q >= 1
      <3>1. n * (c - q) >= n
        BY <1>2, <2>1
      <3> QED  BY <1>2, <1>3, <3>1
    <2>2. CASE c - q <= -1
      <3>1. n * (c - q) <= -n
        BY <1>2, <2>2
      <3> QED  BY <1>2, <1>3, <3>1
    <2> QED  BY <1>2, <2>1, <2>2
  <1>5. m = r
    BY <1>2, <1>4
  <1> QED  BY <1>4, <1>5

LEMMA RoundsDown ==
    ASSUME NEW n \in Nat \ {0}, NEW a \in Nat
    PROVE  /\ RoundDown(a, n) \in Nat /\ RoundDown(a, n) <= a /\ a < RoundDown(a, n) + n
           /\ RoundDown(a, n) = n * (a \div n) /\ a \div n \in Nat
           /\ a % n \in 0..(n - 1)
  <1>1. a = n * (a \div n) + (a % n) /\ a % n \in 0..(n - 1) /\ a \div n \in Nat
    OBVIOUS
  <1>2. n * (a \div n) \in Nat
    BY <1>1
  <1> DEFINE p == n * (a \div n)
             r == a % n
  <1> HIDE DEF p, r
  <1>3. a = p + r /\ p \in Nat /\ r \in 0..(n - 1)
    BY <1>1, <1>2 DEF p, r
  <1>4. a - r = p /\ p <= a /\ a < p + n
    BY <1>3
  <1> QED  BY <1>1, <1>3, <1>4 DEF RoundDown, p, r

LEMMA RoundsUp ==
    ASSUME NEW n \in Nat \ {0}, NEW a \in Nat
    PROVE  RoundUp(a, n) \in Nat /\ a <= RoundUp(a, n)
  <1> DEFINE x == a + n - 1
  <1>1. x \in Nat
    OBVIOUS
  <1>2. RoundDown(x, n) \in Nat /\ x < RoundDown(x, n) + n
    BY <1>1, RoundsDown
  <1> QED  BY <1>2 DEF RoundUp

\* The page of an address that is a multiple of the page size.
LEMMA PageAt ==
    ASSUME NEW c \in Nat, NEW p, p = PGSIZE * c
    PROVE  /\ p \in Nat
           /\ Page(p) = p..(p + PGSIZE - 1)
           /\ \A a \in Page(p) : a % PGSIZE = a - p
  <1>1. PGSIZE \in Nat \ {0}
    BY LoaderAssumption
  <1>2. p \in Nat
    BY <1>1
  <1>3. \A r \in 0..(PGSIZE - 1) : (p + r) % PGSIZE = r
    BY <1>1, Quotient
  <1>4. p % PGSIZE = 0
    <2>1. 0 \in 0..(PGSIZE - 1) /\ p + 0 = p
      BY <1>1, <1>2
    <2> QED  BY <1>3, <2>1
  <1>5. RoundDown(p, PGSIZE) = p
    BY <1>2, <1>4 DEF RoundDown
  <1>6. Page(p) = p..(p + PGSIZE - 1)
    BY <1>5 DEF Page
  <1>7. ASSUME NEW a \in Page(p)
        PROVE  a % PGSIZE = a - p
    <2>1. PICK r \in 0..(PGSIZE - 1) : a = p + r
      <3>1. a \in Int /\ a - p \in 0..(PGSIZE - 1) /\ a = p + (a - p)
        BY <1>1, <1>2, <1>6
      <3> QED  BY <3>1
    <2>2. a - p = r
      BY <1>1, <1>2, <2>1
    <2> QED  BY <1>3, <2>1, <2>2
  <1> QED  BY <1>2, <1>6, <1>7

\* The least and the greatest of a set of numbers.
LEMMA LeastNatural ==
    ASSUME NEW S \in SUBSET Nat, S # {}
    PROVE  \E m \in S : \A k \in S : m <= k
  <1> DEFINE R == OpToRel(<, Nat)
  <1>1. IsWellFoundedOn(R, Nat)
    BY NatLessThanWellFounded
  <1>2. PICK m \in S : \A k \in S : ~(<<k, m>> \in R)
    <2> HIDE DEF R
    <2> QED  BY <1>1, WFMin
  <1>3. \A k \in S : ~(k < m)
    BY <1>2 DEF OpToRel
  <1> QED  BY <1>3

LEMMA GreatestNatural ==
    ASSUME NEW S \in SUBSET Nat, S # {}, NEW b \in Nat, \A k \in S : k <= b
    PROVE  \E m \in S : \A k \in S : k <= m
  <1> DEFINE U == {u \in Nat : \A k \in S : k <= u}
  <1>1. PICK u \in U : \A v \in U : u <= v
    <2>1. U \in SUBSET Nat /\ U # {}
      OBVIOUS
    <2> HIDE DEF U
    <2> QED  BY <2>1, LeastNatural
  <1>2. u \in S
    <2> SUFFICES ASSUME u \notin S PROVE FALSE
      OBVIOUS
    <2>1. \A k \in S : k \in Nat /\ k < u
      BY <1>1
    <2>2. u # 0 /\ u - 1 \in Nat
      <3>1. PICK k \in S : k \in Nat
        OBVIOUS
      <3> QED  BY <1>1, <2>1, <3>1
    <2>3. u - 1 \in U
      BY <1>1, <2>1, <2>2
    <2> QED  BY <1>1, <2>2, <2>3
  <1> QED  BY <1>1, <1>2

-------------------------------------------------------------------------------
(*****************************************************************************)
(* What is in memory of a segment, up to an address: all of it, or the bytes *)
(* of the file; and the invariant of each loader.                            *)
(*****************************************************************************)
Limit == MaxAddr + 1
Byte(segs, k, j) == IF j < segs[k].filesz THEN FromFile(segs[k].offset + j) ELSE Zero
FilledTo(m, segs, k, top) ==
    \A j \in 0..(segs[k].memsz - 1) : segs[k].va + j < top => m[segs[k].va + j] = Byte(segs, k, j)
ReadTo(m, segs, k, top) ==
    \A j \in 0..(segs[k].filesz - 1) : segs[k].va + j < top => m[segs[k].va + j] = FromFile(segs[k].offset + j)

\* boot: the sectors below at are read, and all of the segments before.
BootInv ==
    /\ pc \in {"start", "readseg", "entry", "loaded", "bad"}
    /\ pc = "readseg" =>
         /\ seg \in DOMAIN Segs
         /\ \E c \in Nat : at = RoundDown(Seg.va, SECTSIZE) + SECTSIZE * c
         /\ \A k \in LoadSegs : k < seg => ReadTo(mem, Segs, k, Limit)
         /\ seg \in LoadSegs => ReadTo(mem, Segs, seg, at)
    /\ pc = "entry" => \A k \in LoadSegs : ReadTo(mem, Segs, k, Limit)
    /\ pc = "loaded" => \A k \in LoadSegs : FilledTo(mem, Segs, k, Limit)

\* kernel: a segment is filled at once, when its pages are there.
KernelInv ==
    /\ pc \in {"start", "panic", "region", "copy", "stack", "loaded"}
    /\ pc \in {"region", "copy"} =>
         /\ seg \in LoadSegs
         /\ \E c \in Nat : at = PGSIZE * c
         /\ at >= RoundDown(Seg.va, PGSIZE)
         /\ \A k \in LoadSegs : k < seg => FilledTo(mem, Segs, k, Limit)
    /\ pc \in {"stack", "loaded"} => \A k \in LoadSegs : FilledTo(mem, Segs, k, Limit)

\* spawn: the pages below at are filled; the next one may wait at UTEMP.
SpawnInv ==
    /\ pc \in {"map_segment", "map_page"} =>
         /\ seg \in LoadSegs
         /\ \E c \in Nat : at = PGSIZE * c
         /\ \A k \in LoadSegs : k < seg => FilledTo(mem, Segs, k, Limit)
         /\ FilledTo(mem, Segs, seg, Va + at)
    /\ pc = "map_page" =>
         utemp = [b \in 0..(PGSIZE - 1) |-> IF at + b < Filesz THEN FromFile(Fileoffset + at + b) ELSE Zero]
    /\ pc \in {"close", "loaded", "no trapframe"} => \A k \in LoadSegs : FilledTo(mem, Segs, k, Limit)

ImageInv ==
    /\ img \in Images
    /\ who \in {"boot", "kernel", "spawn"}
    /\ who = "boot" => BootInv
    /\ who = "kernel" => KernelInv
    /\ who = "spawn" => SpawnInv

LEMMA AddrBelow == \A a \in Addr : a < Limit
  <1>1. MaxAddr \in Nat
    BY LoaderAssumption
  <1> QED  BY <1>1 DEF Addr, Limit

LEMMA SegmentFacts ==
    ASSUME NEW segs, WellLinked(segs), NEW k \in DOMAIN segs
    PROVE  /\ segs[k].va \in Nat /\ segs[k].offset \in Nat /\ segs[k].filesz \in Nat /\ segs[k].memsz \in Nat
           /\ segs[k].load \in BOOLEAN
           /\ segs[k].filesz <= segs[k].memsz
           /\ segs[k].va + segs[k].memsz <= Limit
           /\ ~segs[k].load => segs[k].va = 0 /\ segs[k].memsz = 0
           /\ k \in Nat /\ k >= 1 /\ k <= Len(segs) /\ Len(segs) \in Nat /\ DOMAIN segs = 1..Len(segs)
           /\ \A j \in 0..(segs[k].memsz - 1) : segs[k].va + j \in Addr
  <1>1. segs \in Seq(Segment)
    BY DEF WellLinked
  <1>2. segs[k] \in Segment /\ DOMAIN segs = 1..Len(segs) /\ Len(segs) \in Nat
    BY <1>1
  <1>3. /\ segs[k].filesz <= segs[k].memsz
        /\ segs[k].va + segs[k].memsz <= MaxAddr + 1
        /\ ~segs[k].load => segs[k].va = 0 /\ segs[k].memsz = 0
    BY DEF WellLinked
  <1>4. /\ segs[k].va \in Nat /\ segs[k].offset \in Nat /\ segs[k].filesz \in Nat /\ segs[k].memsz \in Nat
        /\ segs[k].load \in BOOLEAN
    BY <1>2 DEF Segment
  <1>5. \A j \in 0..(segs[k].memsz - 1) : segs[k].va + j \in Addr
    BY <1>3, <1>4, LoaderAssumption, SMTT(60) DEF Addr
  <1> QED  BY <1>2, <1>3, <1>4, <1>5 DEF Limit

\* A segment ends before the sector, and the page, where a later one begins.
LEMMA EarlierBelow ==
    ASSUME NEW segs, WellLinked(segs), NEW k \in DOMAIN segs, NEW l \in DOMAIN segs,
           k < l, segs[k].load, segs[l].load, NEW n \in {SECTSIZE, PGSIZE}
    PROVE  /\ segs[k].filesz = segs[k].memsz
           /\ segs[k].va + segs[k].memsz <= RoundDown(segs[l].va, n)
           /\ RoundDown(segs[l].va, n) \in Nat /\ RoundDown(segs[l].va, n) <= segs[l].va
  <1>1. n \in Nat \ {0}
    BY LoaderAssumption
  <1>2. /\ segs[k].filesz = segs[k].memsz
        /\ RoundUp(segs[k].va + segs[k].memsz, n) <= RoundDown(segs[l].va, n)
    BY DEF WellLinked
  <1> DEFINE e == segs[k].va + segs[k].memsz
             v == segs[l].va
  <1>3. e \in Nat /\ v \in Nat
    BY SegmentFacts
  <1>4. RoundUp(e, n) <= RoundDown(v, n)
    BY <1>2
  <1> HIDE DEF e, v
  <1>5. RoundUp(e, n) \in Nat /\ e <= RoundUp(e, n) /\ RoundDown(v, n) \in Nat /\ RoundDown(v, n) <= v
    BY <1>1, <1>3, RoundsUp, RoundsDown
  <1>6. e <= RoundDown(v, n)
    BY <1>3, <1>4, <1>5
  <1> QED  BY <1>2, <1>5, <1>6 DEF e, v

\* So what is written from there on does not touch it.
LEMMA EarlierKept ==
    ASSUME NEW segs, WellLinked(segs), NEW k \in DOMAIN segs, NEW l \in DOMAIN segs,
           k < l, segs[k].load, segs[l].load, NEW n \in {SECTSIZE, PGSIZE},
           NEW m1, NEW m2, \A a \in Addr : a < RoundDown(segs[l].va, n) => m2[a] = m1[a], NEW top
    PROVE  /\ FilledTo(m1, segs, k, top) => FilledTo(m2, segs, k, top)
           /\ ReadTo(m1, segs, k, top) => ReadTo(m2, segs, k, top)
  <1>1. segs[k].va \in Nat /\ segs[k].filesz = segs[k].memsz /\ segs[k].memsz \in Nat
    BY SegmentFacts, EarlierBelow
  <1>2. segs[k].va + segs[k].memsz <= RoundDown(segs[l].va, n) /\ RoundDown(segs[l].va, n) \in Nat
    BY EarlierBelow
  <1>3. \A j \in 0..(segs[k].memsz - 1) : segs[k].va + j \in Addr /\ segs[k].va + j < RoundDown(segs[l].va, n)
    <2>1. \A j \in 0..(segs[k].memsz - 1) : segs[k].va + j \in Addr
      BY SegmentFacts
    <2>2. \A j \in 0..(segs[k].memsz - 1) : segs[k].va + j < RoundDown(segs[l].va, n)
      BY <1>1, <1>2
    <2> QED  BY <2>1, <2>2
  <1>4. \A j \in 0..(segs[k].memsz - 1) : m2[segs[k].va + j] = m1[segs[k].va + j]
    BY <1>3
  <1> QED  BY <1>1, <1>4 DEF FilledTo, ReadTo

LEMMA NextLoadIs ==
    ASSUME img \in Images, NEW k \in Nat
    PROVE  /\ WellLinked(Segs)
           /\ NextLoad(k) = 0 => \A m \in LoadSegs : m <= k
           /\ NextLoad(k) # 0 => NextLoad(k) \in LoadSegs /\ \A m \in LoadSegs : m < NextLoad(k) => m <= k
  <1>1. WellLinked(Segs)
    BY LoaderAssumption DEF Segs
  <1> DEFINE rest == {m \in LoadSegs : m > k}
  <1>2. \A m \in LoadSegs : m \in Nat /\ m >= 1
    BY <1>1, SegmentFacts DEF LoadSegs
  <1>3. CASE rest = {}
    <2>1. NextLoad(k) = 0
      BY <1>3 DEF NextLoad
    <2>2. \A m \in LoadSegs : m <= k
      BY <1>2, <1>3
    <2> QED  BY <1>1, <2>1, <2>2
  <1>4. CASE rest # {}
    <2>1. rest \in SUBSET Nat
      BY <1>2
    <2>2. \E m \in rest : \A n \in rest : m <= n
      <3> HIDE DEF rest
      <3> QED  BY <1>4, <2>1, LeastNatural
    <2>3. NextLoad(k) = CHOOSE m \in rest : \A n \in rest : m <= n
      BY <1>4 DEF NextLoad
    <2> DEFINE x == CHOOSE m \in rest : \A n \in rest : m <= n
    <2>4. x \in rest /\ \A n \in rest : x <= n
      <3> HIDE DEF rest
      <3> QED  BY <2>2
    <2> HIDE DEF x
    <2>5. x \in LoadSegs /\ x # 0
      BY <1>2, <2>4
    <2>6. ASSUME NEW m \in LoadSegs, m < x PROVE m <= k
      <3>1. m \in Nat /\ x \in Nat
        BY <1>2, <2>5
      <3>2. m \notin rest
        BY <2>4, <2>6, <3>1
      <3> QED  BY <3>1, <3>2
    <2>7. NextLoad(k) = x
      BY <2>3 DEF x
    <2> QED  BY <1>1, <2>5, <2>6, <2>7
  <1> QED  BY <1>3, <1>4

\* The file is at least as long as every segment's part of it.
LEMMA FileEndBounds ==
    ASSUME img \in Images
    PROVE  FileEnd \in Nat /\ \A k \in DOMAIN Segs : Segs[k].offset + Segs[k].filesz <= FileEnd
  <1>1. WellLinked(Segs)
    BY LoaderAssumption DEF Segs
  <1> DEFINE e == [k \in DOMAIN Segs |-> Segs[k].offset + Segs[k].filesz]
             S == {n \in Nat : \E b \in Nat : \A k \in DOMAIN Segs : k <= n => e[k] <= b}
             ends == {Segs[k].offset + Segs[k].filesz : k \in DOMAIN Segs}
  <1>2. \A k \in DOMAIN Segs : e[k] \in Nat /\ k \in Nat /\ k >= 1 /\ k <= Len(Segs) /\ Len(Segs) \in Nat
    BY <1>1, SegmentFacts
  <1>3. 1 \in DOMAIN Segs /\ Len(Segs) \in Nat
    BY <1>1 DEF WellLinked
  <1>4. Nat \subseteq S
    <2> HIDE DEF e
    <2>1. 0 \in S
      BY <1>2
    <2>2. ASSUME NEW n \in S PROVE n + 1 \in S
      <3>1. PICK b \in Nat : \A k \in DOMAIN Segs : k <= n => e[k] <= b
        OBVIOUS
      <3>2. CASE n + 1 \in DOMAIN Segs
        <4>1. b + e[n + 1] \in Nat
          BY <1>2, <3>2
        <4>2. \A k \in DOMAIN Segs : k <= n + 1 => e[k] <= b + e[n + 1]
          BY <1>2, <3>1, <3>2
        <4> QED  BY <4>1, <4>2
      <3>3. CASE n + 1 \notin DOMAIN Segs
        <4>1. \A k \in DOMAIN Segs : k <= n + 1 => k <= n
          BY <1>2, <3>3
        <4> QED  BY <3>1, <4>1
      <3> QED  BY <3>2, <3>3
    <2> HIDE DEF S
    <2>3. S \in SUBSET Nat
      BY DEF S
    <2> QED  BY <2>1, <2>2, <2>3, NatSetInduction
  <1>5. PICK b \in Nat : \A k \in DOMAIN Segs : k <= Len(Segs) => e[k] <= b
    <2> HIDE DEF e
    <2> QED  BY <1>3, <1>4
  <1>6. ends \in SUBSET Nat /\ ends # {} /\ \A x \in ends : x <= b
    <2>1. \A x \in ends : \E k \in DOMAIN Segs : x = e[k]
      OBVIOUS
    <2>2. e[1] \in ends
      BY <1>3
    <2> HIDE DEF e, ends
    <2> QED  BY <1>2, <1>5, <2>1, <2>2
  <1>7. \E m \in ends : \A n \in ends : n <= m
    <2> HIDE DEF ends
    <2> QED  BY <1>6, GreatestNatural
  <1>8. FileEnd = CHOOSE n \in ends : \A m \in ends : m <= n
    BY DEF FileEnd
  <1>9. FileEnd \in ends /\ \A m \in ends : m <= FileEnd
    <2> HIDE DEF ends
    <2> QED  BY <1>7, <1>8
  <1> QED  BY <1>6, <1>9

\* The last segment for loading, whose end is end.
LEMMA LastLoad ==
    ASSUME img \in Images, LoadSegs # {}
    PROVE  \E l \in LoadSegs : /\ edata = Segs[l].va + Segs[l].filesz
                               /\ end = Segs[l].va + Segs[l].memsz
                               /\ \A k \in LoadSegs : k <= l
  <1>1. WellLinked(Segs)
    BY LoaderAssumption DEF Segs
  <1>2. LoadSegs \in SUBSET Nat /\ Len(Segs) \in Nat /\ \A k \in LoadSegs : k <= Len(Segs)
    <2>1. Len(Segs) \in Nat
      BY <1>1 DEF WellLinked
    <2> QED  BY <1>1, <2>1, SegmentFacts DEF LoadSegs
  <1>3. \E l \in LoadSegs : \A k \in LoadSegs : k <= l
    BY <1>2, GreatestNatural
  <1> DEFINE l == CHOOSE k \in LoadSegs : \A m \in LoadSegs : m <= k
  <1>4. l \in LoadSegs /\ \A k \in LoadSegs : k <= l
    BY <1>3
  <1>5. edata = Segs[l].va + Segs[l].filesz /\ end = Segs[l].va + Segs[l].memsz
    BY DEF edata, end
  <1> QED  BY <1>4, <1>5

\* The sector that readseg() reads for an address has the byte of the file.
LEMMA SectorByte ==
    ASSUME img \in Images, seg \in LoadSegs,
           NEW c \in Nat, at = RoundDown(Seg.va, SECTSIZE) + SECTSIZE * c,
           NEW j \in 0..(Seg.filesz - 1), at <= Seg.va + j, Seg.va + j < at + SECTSIZE
    PROVE  Sector(readseg(Seg.offset) + ((at - RoundDown(Seg.va, SECTSIZE)) \div SECTSIZE))[(Seg.va + j) - at]
             = FromFile(Seg.offset + j)
  <1>1. SECTSIZE \in Nat \ {0} /\ WellLinked(Segs) /\ seg \in DOMAIN Segs
    BY LoaderAssumption DEF Segs, LoadSegs
  <1> DEFINE n == SECTSIZE
             v == Seg.va
             o == Seg.offset
             d == RoundDown(v, n)
             q == o \div n
             x == n * c
             p == n * q
  <1>2. v \in Nat /\ o \in Nat /\ Seg.filesz \in Nat /\ v % n = o % n
    <2>1. v \in Nat /\ o \in Nat /\ Seg.filesz \in Nat
      BY <1>1, SegmentFacts DEF Seg
    <2>2. v % n = o % n
      BY <1>1 DEF WellLinked, Seg, LoadSegs
    <2> QED  BY <2>1, <2>2
  <1>3. q \in Nat /\ d \in Nat /\ RoundDown(o, n) = p /\ x \in Nat /\ p \in Nat
    <2> HIDE DEF v, o
    <2>1. q \in Nat /\ RoundDown(o, n) = p
      BY <1>1, <1>2, RoundsDown
    <2>2. d \in Nat
      BY <1>1, <1>2, RoundsDown
    <2>3. x \in Nat
      BY <1>1
    <2>4. p \in Nat
      <3> HIDE DEF q
      <3> QED  BY <1>1, <2>1
    <2> HIDE DEF q, d, x, p
    <2> QED  BY <2>1, <2>2, <2>3, <2>4
  <1>4. d = v - (v % n) /\ p = o - (o % n) /\ v % n \in Nat
    <2> HIDE DEF v, o
    <2>1. v % n \in 0..(n - 1)
      BY <1>1, <1>2
    <2> QED  BY <1>3, <2>1 DEF RoundDown
  <1>5. at = d + x /\ at - d = x
    BY <1>3
  <1>6. x \div n = c
    <2>1. 0 \in 0..(n - 1) /\ x + 0 = x
      BY <1>1, <1>3
    <2>2. (n * c + 0) \div n = c
      BY <1>1, <2>1, Quotient
    <2> QED  BY <1>3, <2>1, <2>2
  <1> DEFINE s == q + 1 + c
             b == (v + j) - at
  <1>7. b \in 0..(n - 1) /\ (s - 1) * n = p + x
    <2>1. (s - 1) * n = p + x
      <3> HIDE DEF v, o, d, q
      <3> QED  BY <1>1, <1>3
    <2>2. b \in 0..(n - 1)
      BY <1>1, <1>2, <1>3, <1>5
    <2> QED  BY <2>1, <2>2
  <1>8. p + x + b = o + j
    <2> DEFINE w == v % n
    <2>1. d = v - w /\ p = o - w /\ w \in Nat
      BY <1>2, <1>4
    <2>2. j \in Nat
      BY <1>2
    <2>3. v \in Nat /\ o \in Nat /\ x \in Nat
      BY <1>2, <1>3
    <2> HIDE DEF w, v, o, d, p, x
    <2> QED  BY <1>5, <2>1, <2>2, <2>3
  <1>9. o + j < FileEnd
    <2>1. o + Seg.filesz <= FileEnd /\ FileEnd \in Nat
      BY <1>1, FileEndBounds DEF Seg
    <2> HIDE DEF o
    <2> QED  BY <1>2, <2>1
  <1>10. Sector(s)[b] = FromFile(o + j)
    <2>1. Sector(s)[b] = IF (s - 1) * n + b < FileEnd THEN FromFile((s - 1) * n + b) ELSE Junk
      BY <1>7 DEF Sector
    <2> HIDE DEF s, b, p, x, o
    <2> QED  BY <1>7, <1>8, <1>9, <2>1
  <1>11. readseg(o) + ((at - d) \div n) = s
    <2>1. readseg(o) = q + 1
      BY DEF readseg
    <2>2. (at - d) \div n = c
      BY <1>5, <1>6
    <2> HIDE DEF q, d, o
    <2> QED  BY <2>1, <2>2
  <1> QED  BY <1>10, <1>11

-------------------------------------------------------------------------------
(*****************************************************************************)
(* Every step of a loader keeps its invariant.                               *)
(*****************************************************************************)

\* The other loaders' invariants say nothing while one is at work.
LEMMA ImageAgain ==
    ASSUME ImageInv, img' = img, who' = who,
           who = "boot" => BootInv', who = "kernel" => KernelInv', who = "spawn" => SpawnInv'
    PROVE  ImageInv'
  BY DEF ImageInv

LEMMA bootmainImage ==
    ASSUME ImageInv, bootmain
    PROVE  ImageInv'
  <1>1. /\ who = "boot" /\ who' = who /\ img' = img /\ mem' = mem
        /\ pc' \in {"readseg", "bad"} /\ seg' = 1 /\ at' = RoundDown(Segs[1].va, SECTSIZE)
    BY DEF bootmain
  <1>2. img \in Images /\ WellLinked(Segs) /\ SECTSIZE \in Nat \ {0}
    BY LoaderAssumption DEF ImageInv, Segs
  <1>3. 1 \in DOMAIN Segs
    BY <1>2 DEF WellLinked
  <1>4. \A k \in LoadSegs : k \in Nat /\ ~(k < 1)
    BY <1>2, SegmentFacts DEF LoadSegs
  <1>5. Segs[1].va \in Nat /\ Segs[1].filesz \in Nat
    BY <1>2, <1>3, SegmentFacts
  <1>6. /\ at' \in Nat /\ at' <= Segs[1].va
        /\ at' = RoundDown(Segs[1].va, SECTSIZE) + SECTSIZE * 0
    <2>1. at' \in Nat /\ at' <= Segs[1].va
      BY <1>1, <1>2, <1>5, RoundsDown
    <2>2. SECTSIZE * 0 = 0
      BY <1>2
    <2> QED  BY <1>1, <2>1, <2>2
  <1>7. ReadTo(mem', Segs, 1, at')
    BY <1>5, <1>6 DEF ReadTo
  <1>8. BootInv'
    BY <1>1, <1>3, <1>4, <1>6, <1>7 DEF BootInv, Segs, Seg, LoadSegs
  <1> QED  BY <1>1, <1>8, ImageAgain

LEMMA readsectImage ==
    ASSUME ImageInv, readsect
    PROVE  ImageInv'
  <1>1. /\ who = "boot" /\ pc = "readseg" /\ who' = who /\ img' = img
    BY DEF readsect
  <1>2. img \in Images /\ WellLinked(Segs) /\ SECTSIZE \in Nat \ {0}
    BY LoaderAssumption DEF ImageInv, Segs
  <1>3. /\ seg \in DOMAIN Segs
        /\ \A k \in LoadSegs : k < seg => ReadTo(mem, Segs, k, Limit)
        /\ seg \in LoadSegs => ReadTo(mem, Segs, seg, at)
    BY <1>1 DEF ImageInv, BootInv
  <1>4. PICK c \in Nat : at = RoundDown(Seg.va, SECTSIZE) + SECTSIZE * c
    BY <1>1 DEF ImageInv, BootInv
  <1>5. Seg.va \in Nat /\ Seg.memsz \in Nat /\ Seg.filesz \in Nat /\ Seg.filesz <= Seg.memsz /\ seg \in Nat
    BY <1>2, <1>3, SegmentFacts DEF Seg
  <1> DEFINE d == RoundDown(Seg.va, SECTSIZE)
             x == SECTSIZE * c
  <1>6. d \in Nat /\ x \in Nat /\ at = d + x /\ at \in Nat
    <2>1. d \in Nat
      BY <1>2, <1>5, RoundsDown
    <2>2. x \in Nat
      BY <1>2
    <2> QED  BY <1>4, <2>1, <2>2
  <1>7. CASE at < Seg.va + Seg.memsz
    <2> DEFINE nr == readseg(Seg.offset) + ((at - d) \div SECTSIZE)
    <2>1. /\ mem' = [a \in Addr |-> IF a \in at..(at + SECTSIZE - 1) THEN Sector(nr)[a - at] ELSE mem[a]]
          /\ at' = at + SECTSIZE /\ pc' = pc /\ seg' = seg
      BY <1>7 DEF readsect, Set
    <2>2. seg \in LoadSegs
      <3>1. Seg.load \in BOOLEAN /\ (~Seg.load => Seg.va = 0 /\ Seg.memsz = 0)
        BY <1>2, <1>3, SegmentFacts DEF Seg
      <3>2. Seg.load
        BY <1>6, <1>7, <3>1
      <3> QED  BY <1>3, <3>2 DEF Seg, LoadSegs
    <2>3. \A a \in Addr : a < d => mem'[a] = mem[a]
      <3> HIDE DEF nr, d, x
      <3> QED  BY <1>2, <1>6, <2>1 DEF Addr
    <2>4. \A k \in LoadSegs : k < seg => ReadTo(mem', Segs, k, Limit)
      <3> SUFFICES ASSUME NEW k \in LoadSegs, k < seg PROVE ReadTo(mem', Segs, k, Limit)
        OBVIOUS
      <3>1. k \in DOMAIN Segs /\ Segs[k].load /\ Segs[seg].load /\ ReadTo(mem, Segs, k, Limit)
        BY <1>3, <2>2 DEF LoadSegs
      <3>2. \A a \in Addr : a < RoundDown(Segs[seg].va, SECTSIZE) => mem'[a] = mem[a]
        BY <2>3 DEF Seg
      <3> QED  BY <1>2, <1>3, <3>1, <3>2, EarlierKept
    <2>5. ReadTo(mem', Segs, seg, at')
      <3> SUFFICES ASSUME NEW j \in 0..(Seg.filesz - 1), Seg.va + j < at'
                   PROVE  mem'[Seg.va + j] = FromFile(Seg.offset + j)
        BY DEF ReadTo, Seg
      <3>1. j \in Nat /\ j \in 0..(Seg.memsz - 1) /\ Seg.va + j \in Nat
        BY <1>5
      <3>2. Seg.va + j \in Addr
        BY <1>2, <1>3, <3>1, SegmentFacts DEF Seg
      <3>3. CASE Seg.va + j < at
        <4>1. mem[Seg.va + j] = FromFile(Seg.offset + j)
          BY <1>3, <2>2, <3>3 DEF ReadTo, Seg
        <4>2. mem'[Seg.va + j] = mem[Seg.va + j]
          <5> HIDE DEF nr
          <5> QED  BY <1>6, <2>1, <3>1, <3>2, <3>3
        <4> QED  BY <4>1, <4>2
      <3>4. CASE at <= Seg.va + j
        <4>1. Sector(nr)[(Seg.va + j) - at] = FromFile(Seg.offset + j)
          BY <1>2, <1>4, <2>1, <2>2, <3>4, SectorByte
        <4>2. Seg.va + j \in at..(at + SECTSIZE - 1)
          BY <1>2, <1>6, <2>1, <3>1, <3>4
        <4>3. mem'[Seg.va + j] = Sector(nr)[(Seg.va + j) - at]
          <5> HIDE DEF nr
          <5> DEFINE b == Seg.va + j
                     f == Sector(nr)
          <5> HIDE DEF b, f
          <5>1. /\ mem' = [a \in Addr |-> IF a \in at..(at + SECTSIZE - 1) THEN f[a - at] ELSE mem[a]]
                /\ b \in Addr /\ b \in at..(at + SECTSIZE - 1)
            BY <2>1, <3>2, <4>2 DEF b, f
          <5>2. mem'[b] = f[b - at]
            BY <5>1
          <5> QED  BY <5>2 DEF b, f
        <4> QED  BY <4>1, <4>3
      <3> QED  BY <1>6, <3>1, <3>3, <3>4
    <2>6. c + 1 \in Nat /\ at' = d + SECTSIZE * (c + 1)
      <3>1. SECTSIZE * (c + 1) = x + SECTSIZE
        BY <1>2
      <3> HIDE DEF d, x
      <3> QED  BY <1>2, <1>6, <2>1, <3>1
    <2>7. \E e \in Nat : at' = RoundDown(Seg.va, SECTSIZE) + SECTSIZE * e
      BY <2>6
    <2>8. BootInv'
      BY <1>1, <1>3, <2>1, <2>4, <2>5, <2>7 DEF BootInv, Segs, Seg, LoadSegs
    <2> QED  BY <1>1, <2>8, ImageAgain
  <1>8. CASE ~(at < Seg.va + Seg.memsz)
    <2>1. \A k \in LoadSegs : k <= seg => ReadTo(mem, Segs, k, Limit)
      <3>1. ReadTo(mem, Segs, seg, at) => ReadTo(mem, Segs, seg, Limit)
        <4>1. \A j \in 0..(Seg.filesz - 1) : Seg.va + j < at
          BY <1>5, <1>6, <1>8
        <4> QED  BY <4>1 DEF ReadTo, Seg
      <3>2. \A k \in LoadSegs : k \in Nat
        BY <1>2, SegmentFacts DEF LoadSegs
      <3> QED  BY <1>3, <1>5, <3>1, <3>2
    <2>2. CASE seg < Len(Segs)
      <3>1. /\ seg' = seg + 1 /\ at' = RoundDown(Segs[seg + 1].va, SECTSIZE)
            /\ pc' = pc /\ mem' = mem
        BY <1>8, <2>2 DEF readsect
      <3>2. seg + 1 \in DOMAIN Segs
        BY <1>2, <1>3, <1>5, <2>2, SegmentFacts
      <3>3. Segs[seg + 1].va \in Nat /\ Segs[seg + 1].filesz \in Nat
        BY <1>2, <3>2, SegmentFacts
      <3>4. /\ at' \in Nat /\ at' <= Segs[seg + 1].va
            /\ at' = RoundDown(Segs[seg + 1].va, SECTSIZE) + SECTSIZE * 0
        <4>1. at' \in Nat /\ at' <= Segs[seg + 1].va
          BY <1>2, <3>1, <3>3, RoundsDown
        <4>2. SECTSIZE * 0 = 0
          BY <1>2
        <4> QED  BY <3>1, <4>1, <4>2
      <3>5. ReadTo(mem', Segs, seg + 1, at')
        BY <3>3, <3>4 DEF ReadTo
      <3>6. \A k \in LoadSegs : k < seg + 1 => ReadTo(mem', Segs, k, Limit)
        <4>1. \A k \in LoadSegs : k \in Nat
          BY <1>2, SegmentFacts DEF LoadSegs
        <4> QED  BY <1>5, <2>1, <3>1, <4>1
      <3>7. BootInv'
        BY <1>1, <3>1, <3>2, <3>4, <3>5, <3>6 DEF BootInv, Segs, Seg, LoadSegs
      <3> QED  BY <1>1, <3>7, ImageAgain
    <2>3. CASE ~(seg < Len(Segs))
      <3>1. pc' = "entry" /\ mem' = mem
        BY <1>8, <2>3 DEF readsect
      <3>2. \A k \in LoadSegs : k <= seg
        BY <1>2, <1>5, <2>3, SegmentFacts DEF LoadSegs
      <3>3. \A k \in LoadSegs : ReadTo(mem', Segs, k, Limit)
        BY <2>1, <3>1, <3>2
      <3>4. BootInv'
        BY <1>1, <3>1, <3>3 DEF BootInv, Segs, LoadSegs
      <3> QED  BY <1>1, <3>4, ImageAgain
    <2> QED  BY <2>2, <2>3
  <1> QED  BY <1>7, <1>8

LEMMA i386_initImage ==
    ASSUME ImageInv, i386_init
    PROVE  ImageInv'
  <1>1. /\ who = "boot" /\ pc = "entry" /\ who' = who /\ img' = img /\ pc' = "loaded"
        /\ mem' = [a \in Addr |-> IF a \in edata..(end - 1) THEN Zero ELSE mem[a]]
    BY DEF i386_init, Set
  <1>2. img \in Images /\ WellLinked(Segs)
    BY LoaderAssumption DEF ImageInv, Segs
  <1>3. \A k \in LoadSegs : ReadTo(mem, Segs, k, Limit)
    BY <1>1 DEF ImageInv, BootInv
  <1>4. ASSUME NEW k \in LoadSegs PROVE FilledTo(mem', Segs, k, Limit)
    <2>1. PICK l \in LoadSegs : /\ edata = Segs[l].va + Segs[l].filesz
                                /\ end = Segs[l].va + Segs[l].memsz
                                /\ k <= l
      BY <1>2, <1>4, LastLoad
    <2>2. k \in DOMAIN Segs /\ l \in DOMAIN Segs /\ Segs[k].load /\ Segs[l].load
      BY DEF LoadSegs
    <2>3. /\ Segs[k].va \in Nat /\ Segs[k].memsz \in Nat /\ Segs[k].filesz \in Nat /\ k \in Nat
          /\ Segs[k].filesz <= Segs[k].memsz
          /\ Segs[k].va + Segs[k].memsz <= Limit /\ Limit \in Nat
          /\ \A j \in 0..(Segs[k].memsz - 1) : Segs[k].va + j \in Addr
      BY <1>2, <2>2, SegmentFacts, LoaderAssumption DEF Limit
    <2>4. Segs[l].va \in Nat /\ Segs[l].memsz \in Nat /\ Segs[l].filesz \in Nat /\ l \in Nat
      BY <1>2, <2>2, SegmentFacts
    <2>5. k < l => /\ Segs[k].filesz = Segs[k].memsz
                   /\ Segs[k].va + Segs[k].memsz <= Segs[l].va
      <3> SUFFICES ASSUME k < l
                   PROVE  Segs[k].filesz = Segs[k].memsz /\ Segs[k].va + Segs[k].memsz <= Segs[l].va
        OBVIOUS
      <3>1. /\ Segs[k].filesz = Segs[k].memsz
            /\ Segs[k].va + Segs[k].memsz <= RoundDown(Segs[l].va, SECTSIZE)
            /\ RoundDown(Segs[l].va, SECTSIZE) \in Nat /\ RoundDown(Segs[l].va, SECTSIZE) <= Segs[l].va
        BY <1>2, <2>2, EarlierBelow
      <3> QED  BY <2>3, <2>4, <3>1
    <2>6. ASSUME NEW j \in 0..(Segs[k].memsz - 1)
          PROVE  mem'[Segs[k].va + j] = Byte(Segs, k, j)
      <3>1. Segs[k].va + j \in Addr /\ j \in Nat /\ Segs[k].va + j < Limit
        BY <2>3
      <3>2. mem'[Segs[k].va + j] = IF Segs[k].va + j \in edata..(end - 1) THEN Zero ELSE mem[Segs[k].va + j]
        BY <1>1, <3>1
      <3>3. CASE j < Segs[k].filesz
        <4>1. mem[Segs[k].va + j] = FromFile(Segs[k].offset + j)
          BY <1>3, <2>3, <3>1, <3>3 DEF ReadTo
        <4>2. ~(Segs[k].va + j \in edata..(end - 1))
          BY <2>1, <2>3, <2>4, <2>5, <3>1, <3>3
        <4> QED  BY <3>2, <3>3, <4>1, <4>2 DEF Byte
      <3>4. CASE ~(j < Segs[k].filesz)
        <4>1. k = l
          BY <2>1, <2>3, <2>4, <2>5, <3>4
        <4>2. Segs[k].va + j \in edata..(end - 1)
          BY <2>1, <2>3, <3>1, <3>4, <4>1
        <4> QED  BY <3>2, <3>4, <4>2 DEF Byte
      <3> QED  BY <3>3, <3>4
    <2> QED  BY <2>6 DEF FilledTo
  <1>5. BootInv'
    BY <1>1, <1>4 DEF BootInv, Segs, LoadSegs
  <1> QED  BY <1>1, <1>5, ImageAgain

\* The first address of a segment's first page is that of a page.
LEMMA FirstPage ==
    ASSUME img \in Images, NEW k \in DOMAIN Segs
    PROVE  /\ RoundDown(Segs[k].va, PGSIZE) \in Nat /\ RoundDown(Segs[k].va, PGSIZE) <= Segs[k].va
           /\ \E c \in Nat : RoundDown(Segs[k].va, PGSIZE) = PGSIZE * c
  <1>1. PGSIZE \in Nat \ {0} /\ WellLinked(Segs)
    BY LoaderAssumption DEF Segs
  <1>2. Segs[k].va \in Nat
    BY <1>1, SegmentFacts
  <1>3. /\ RoundDown(Segs[k].va, PGSIZE) \in Nat /\ RoundDown(Segs[k].va, PGSIZE) <= Segs[k].va
        /\ RoundDown(Segs[k].va, PGSIZE) = PGSIZE * (Segs[k].va \div PGSIZE) /\ Segs[k].va \div PGSIZE \in Nat
    BY <1>1, <1>2, RoundsDown
  <1> QED  BY <1>3

\* load_icode() goes on with the segment behind k, or is done.
LEMMA KernelGoesOn ==
    ASSUME ImageInv, who = "kernel", who' = who, img' = img, NEW k \in Nat,
           \A l \in LoadSegs : l <= k => FilledTo(mem', Segs, l, Limit),
           seg' = NextLoad(k),
           IF NextLoad(k) = 0 THEN pc' = "stack"
           ELSE pc' = "region" /\ at' = RoundDown(Segs[NextLoad(k)].va, PGSIZE)
    PROVE  ImageInv'
  <1>1. img \in Images
    BY DEF ImageInv
  <1>2. CASE NextLoad(k) = 0
    <2>1. \A l \in LoadSegs : FilledTo(mem', Segs, l, Limit)
      BY <1>1, <1>2, NextLoadIs
    <2>2. KernelInv'
      BY <1>2, <2>1 DEF KernelInv, Segs, LoadSegs
    <2> QED  BY <2>2, ImageAgain
  <1>3. CASE NextLoad(k) # 0
    <2>1. NextLoad(k) \in LoadSegs /\ \A l \in LoadSegs : l < NextLoad(k) => FilledTo(mem', Segs, l, Limit)
      BY <1>1, <1>3, NextLoadIs
    <2>2. NextLoad(k) \in DOMAIN Segs
      BY <2>1 DEF LoadSegs
    <2>3. at' \in Nat /\ at' >= RoundDown(Segs[seg'].va, PGSIZE) /\ \E c \in Nat : at' = PGSIZE * c
      BY <1>1, <1>3, <2>2, FirstPage
    <2>4. KernelInv'
      BY <1>3, <2>1, <2>3 DEF KernelInv, Segs, Seg, LoadSegs
    <2> QED  BY <2>4, ImageAgain
  <1> QED  BY <1>2, <1>3

LEMMA env_createImage ==
    ASSUME ImageInv, env_create
    PROVE  ImageInv'
  <1>1. who = "kernel" /\ who' = who /\ img' = img /\ mem' = mem
    BY DEF env_create
  <1>2. CASE free = 0
    <2>1. pc' = "panic"
      BY <1>2 DEF env_create
    <2>2. KernelInv'
      BY <2>1 DEF KernelInv
    <2> QED  BY <1>1, <2>2, ImageAgain
  <1>3. CASE free # 0
    <2>1. seg' = NextLoad(0)
      BY <1>3 DEF env_create
    <2>2. IF NextLoad(0) = 0 THEN pc' = "stack"
          ELSE pc' = "region" /\ at' = RoundDown(Segs[NextLoad(0)].va, PGSIZE)
      BY <1>3 DEF env_create
    <2>3. \A l \in LoadSegs : ~(l <= 0)
      <3>1. WellLinked(Segs)
        BY LoaderAssumption DEF ImageInv, Segs
      <3> QED  BY <3>1, SegmentFacts DEF LoadSegs
    <2> QED  BY <1>1, <2>1, <2>2, <2>3, KernelGoesOn
  <1> QED  BY <1>2, <1>3

LEMMA region_allocImage ==
    ASSUME ImageInv, region_alloc
    PROVE  ImageInv'
  <1>1. who = "kernel" /\ who' = who /\ img' = img /\ pc = "region" /\ seg' = seg
    BY DEF region_alloc
  <1>2. img \in Images /\ WellLinked(Segs) /\ PGSIZE \in Nat \ {0}
    BY LoaderAssumption DEF ImageInv, Segs
  <1>3. /\ seg \in LoadSegs /\ at >= RoundDown(Seg.va, PGSIZE)
        /\ \A k \in LoadSegs : k < seg => FilledTo(mem, Segs, k, Limit)
    BY <1>1 DEF ImageInv, KernelInv
  <1>4. PICK c \in Nat : at = PGSIZE * c
    BY <1>1 DEF ImageInv, KernelInv
  <1>5. CASE ~(at < RoundUp(Seg.va + Seg.memsz, PGSIZE))
    <2>1. pc' = "copy" /\ at' = at /\ mem' = mem
      BY <1>5 DEF region_alloc
    <2>2. KernelInv'
      BY <1>1, <1>3, <1>4, <2>1 DEF KernelInv, Segs, Seg, LoadSegs
    <2> QED  BY <1>1, <2>2, ImageAgain
  <1>6. CASE at < RoundUp(Seg.va + Seg.memsz, PGSIZE) /\ free = 0
    <2>1. pc' = "panic"
      BY <1>6 DEF region_alloc
    <2>2. KernelInv'
      BY <2>1 DEF KernelInv
    <2> QED  BY <1>1, <2>2, ImageAgain
  <1>7. CASE at < RoundUp(Seg.va + Seg.memsz, PGSIZE) /\ free # 0
    <2>1. /\ mem' = [a \in Addr |-> IF a \in Page(at) THEN Junk ELSE mem[a]]
          /\ at' = at + PGSIZE /\ pc' = pc
      BY <1>7 DEF region_alloc, Set
    <2>2. at \in Nat /\ Page(at) = at..(at + PGSIZE - 1)
      BY <1>4, PageAt
    <2>3. seg \in DOMAIN Segs /\ RoundDown(Seg.va, PGSIZE) \in Nat
      BY <1>2, <1>3, FirstPage DEF LoadSegs, Seg
    <2>4. \A a \in Addr : a < RoundDown(Segs[seg].va, PGSIZE) => mem'[a] = mem[a]
      <3>1. \A a \in Addr : a < RoundDown(Seg.va, PGSIZE) => a \notin Page(at)
        BY <1>2, <1>3, <2>2, <2>3, LoaderAssumption DEF Addr
      <3> QED  BY <2>1, <3>1 DEF Seg
    <2>5. \A k \in LoadSegs : k < seg => FilledTo(mem', Segs, k, Limit)
      BY <1>2, <1>3, <2>3, <2>4, EarlierKept DEF LoadSegs
    <2>6. at' >= RoundDown(Seg.va, PGSIZE) /\ at' = PGSIZE * (c + 1) /\ c + 1 \in Nat
      BY <1>2, <1>3, <1>4, <2>1, <2>2, <2>3
    <2>7. \E e \in Nat : at' = PGSIZE * e
      BY <2>6
    <2>8. KernelInv'
      BY <1>1, <1>3, <2>1, <2>5, <2>6, <2>7 DEF KernelInv, Segs, Seg, LoadSegs
    <2> QED  BY <1>1, <2>8, ImageAgain
  <1> QED  BY <1>5, <1>6, <1>7

LEMMA load_icodeImage ==
    ASSUME ImageInv, load_icode
    PROVE  ImageInv'
  <1>1. /\ who = "kernel" /\ who' = who /\ img' = img /\ pc = "copy" /\ seg' = NextLoad(seg)
        /\ IF NextLoad(seg) = 0 THEN pc' = "stack"
           ELSE pc' = "region" /\ at' = RoundDown(Segs[NextLoad(seg)].va, PGSIZE)
    BY DEF load_icode
  <1>2. img \in Images /\ WellLinked(Segs)
    BY LoaderAssumption DEF ImageInv, Segs
  <1>3. seg \in LoadSegs /\ \A k \in LoadSegs : k < seg => FilledTo(mem, Segs, k, Limit)
    BY <1>1 DEF ImageInv, KernelInv
  <1>4. mem' = [a \in Addr |-> IF a \in Seg.va..(Seg.va + Seg.memsz - 1)
                               THEN IF a - Seg.va < Seg.filesz THEN FromFile(Seg.offset + a - Seg.va) ELSE Zero
                               ELSE mem[a]]
    BY DEF load_icode, Set
  <1>5. seg \in DOMAIN Segs /\ Seg.va \in Nat /\ Seg.memsz \in Nat /\ Seg.offset \in Nat /\ seg \in Nat
    BY <1>2, <1>3, SegmentFacts DEF LoadSegs, Seg
  <1>6. FilledTo(mem', Segs, seg, Limit)
    <2> SUFFICES ASSUME NEW j \in 0..(Seg.memsz - 1)
                 PROVE  mem'[Seg.va + j] = Byte(Segs, seg, j)
      BY DEF FilledTo, Seg
    <2> DEFINE v == Seg.va
               a == v + j
    <2>1. a \in Addr
      BY <1>2, <1>5, SegmentFacts DEF Seg
    <2>2. j \in Nat /\ a - v = j /\ Seg.offset + a - v = Seg.offset + j /\ a \in v..(v + Seg.memsz - 1)
      BY <1>5
    <2>3. mem'[a] = IF a - v < Seg.filesz THEN FromFile(Seg.offset + a - v) ELSE Zero
      <3>1. /\ mem' = [b \in Addr |-> IF b \in v..(v + Seg.memsz - 1)
                               THEN IF b - v < Seg.filesz THEN FromFile(Seg.offset + b - v) ELSE Zero
                               ELSE mem[b]]
            /\ a \in v..(v + Seg.memsz - 1)
        BY <1>4, <2>2
      <3> HIDE DEF a, v
      <3> QED  BY <2>1, <3>1
    <2> HIDE DEF a
    <2>4. mem'[a] = Byte(Segs, seg, j)
      BY <2>2, <2>3 DEF Byte, Seg
    <2> QED  BY <2>4 DEF a
  <1>7. \A a \in Addr : a < RoundDown(Segs[seg].va, PGSIZE) => mem'[a] = mem[a]
    <2>1. RoundDown(Seg.va, PGSIZE) \in Nat /\ RoundDown(Seg.va, PGSIZE) <= Seg.va
      BY <1>2, <1>5, FirstPage DEF Seg
    <2>2. \A a \in Addr : a < RoundDown(Seg.va, PGSIZE) => a \notin Seg.va..(Seg.va + Seg.memsz - 1)
      BY <1>5, <2>1, LoaderAssumption DEF Addr
    <2> QED  BY <1>4, <2>2 DEF Seg
  <1>8. \A k \in LoadSegs : k < seg => FilledTo(mem', Segs, k, Limit)
    BY <1>2, <1>3, <1>5, <1>7, EarlierKept DEF LoadSegs
  <1>9. \A k \in LoadSegs : k <= seg => FilledTo(mem', Segs, k, Limit)
    <2>1. \A k \in LoadSegs : k \in Nat
      BY <1>2, SegmentFacts DEF LoadSegs
    <2> QED  BY <1>5, <1>6, <1>8, <2>1
  <1> QED  BY <1>1, <1>5, <1>9, KernelGoesOn

LEMMA icode_stackImage ==
    ASSUME ImageInv, icode_stack
    PROVE  ImageInv'
  <1>1. /\ who = "kernel" /\ who' = who /\ img' = img /\ pc = "stack" /\ mem' = mem
        /\ pc' \in {"panic", "loaded"}
    BY DEF icode_stack
  <1>2. \A k \in LoadSegs : FilledTo(mem', Segs, k, Limit)
    BY <1>1 DEF ImageInv, KernelInv
  <1>3. KernelInv'
    BY <1>1, <1>2 DEF KernelInv, Segs, LoadSegs
  <1> QED  BY <1>1, <1>3, ImageAgain

\* The page of the child that map_segment() is at.
LEMMA ChildPage ==
    ASSUME img \in Images, seg \in LoadSegs, NEW c \in Nat, at = PGSIZE * c
    PROVE  /\ Va = RoundDown(Segs[seg].va, PGSIZE) /\ Va \in Nat /\ at \in Nat
           /\ Off \in Nat /\ Seg.va = Va + Off
           /\ Seg.va \in Nat /\ Seg.memsz \in Nat /\ Seg.filesz \in Nat /\ Seg.offset \in Nat
           /\ Page(Va + at) = (Va + at)..(Va + at + PGSIZE - 1)
           /\ \A a \in Page(Va + at) : a % PGSIZE = a - (Va + at)
  <1>1. PGSIZE \in Nat \ {0} /\ WellLinked(Segs) /\ seg \in DOMAIN Segs
    BY LoaderAssumption DEF Segs, LoadSegs
  <1>2. Seg.va \in Nat /\ Seg.memsz \in Nat /\ Seg.filesz \in Nat /\ Seg.offset \in Nat
    BY <1>1, SegmentFacts DEF Seg
  <1> DEFINE v == Seg.va
             q == v \div PGSIZE
  <1>3. /\ Va = RoundDown(v, PGSIZE) /\ Off = v % PGSIZE
    BY DEF Va, Off, RoundDown
  <1>4. /\ RoundDown(v, PGSIZE) \in Nat /\ RoundDown(v, PGSIZE) <= v
        /\ RoundDown(v, PGSIZE) = PGSIZE * q /\ q \in Nat
        /\ v % PGSIZE \in 0..(PGSIZE - 1)
    <2>1. v \in Nat
      BY <1>2
    <2> HIDE DEF v
    <2>2. RoundDown(v, PGSIZE) \in Nat /\ RoundDown(v, PGSIZE) <= v
      BY <1>1, <2>1, RoundsDown
    <2>3. RoundDown(v, PGSIZE) = PGSIZE * q /\ q \in Nat
      BY <1>1, <2>1, RoundsDown
    <2>4. v % PGSIZE \in 0..(PGSIZE - 1)
      BY <1>1, <2>1, RoundsDown
    <2> QED  BY <2>2, <2>3, <2>4
  <1>5. Off \in Nat /\ Va \in Nat /\ v = Va + Off
    <2>1. Off \in Nat /\ Va \in Nat
      BY <1>1, <1>3, <1>4
    <2>2. Va = v - Off
      BY DEF Va
    <2> QED  BY <1>2, <2>1, <2>2
  <1>6. Va + at = PGSIZE * (q + c) /\ q + c \in Nat /\ at \in Nat
    <2>1. Va = PGSIZE * q /\ q \in Nat
      BY <1>3, <1>4
    <2> HIDE DEF q
    <2> QED  BY <1>1, <2>1
  <1> DEFINE p == Va + at
  <1>7. p \in Nat /\ Page(p) = p..(p + PGSIZE - 1) /\ \A a \in Page(p) : a % PGSIZE = a - p
    <2> HIDE DEF p, q
    <2>1. p = PGSIZE * (q + c)
      BY <1>6 DEF p
    <2> QED  BY <1>6, <2>1, PageAt
  <1>8. Va = RoundDown(Segs[seg].va, PGSIZE)
    BY <1>3 DEF Seg
  <1> QED  BY <1>2, <1>5, <1>6, <1>7, <1>8

\* A page of the child has been written: the next one.
LEMMA PageFilled ==
    ASSUME ImageInv, who = "spawn", pc \in {"map_segment", "map_page"}, who' = who, img' = img, seg' = seg,
           pc' = "map_segment", at' = at + PGSIZE,
           \A a \in Addr : a \notin Page(Va + at) => mem'[a] = mem[a],
           \A j \in 0..(Seg.memsz - 1) : Seg.va + j \in Page(Va + at) => mem'[Seg.va + j] = Byte(Segs, seg, j)
    PROVE  ImageInv'
  <1>1. img \in Images /\ WellLinked(Segs) /\ PGSIZE \in Nat \ {0}
    BY LoaderAssumption DEF ImageInv, Segs
  <1>2. /\ seg \in LoadSegs /\ \A k \in LoadSegs : k < seg => FilledTo(mem, Segs, k, Limit)
        /\ FilledTo(mem, Segs, seg, Va + at)
    BY DEF ImageInv, SpawnInv
  <1>3. PICK c \in Nat : at = PGSIZE * c
    BY DEF ImageInv, SpawnInv
  <1>4. /\ Va = RoundDown(Segs[seg].va, PGSIZE) /\ Va \in Nat /\ at \in Nat
        /\ Seg.va \in Nat /\ Seg.memsz \in Nat
        /\ Page(Va + at) = (Va + at)..(Va + at + PGSIZE - 1)
    BY <1>1, <1>2, <1>3, ChildPage
  <1>5. \A k \in LoadSegs : k < seg => FilledTo(mem', Segs, k, Limit)
    <2>1. \A a \in Addr : a < Va => a \notin Page(Va + at)
      BY <1>1, <1>4, LoaderAssumption DEF Addr
    <2>2. \A a \in Addr : a < RoundDown(Segs[seg].va, PGSIZE) => mem'[a] = mem[a]
      BY <1>4, <2>1
    <2> QED  BY <1>1, <1>2, <2>2, EarlierKept DEF LoadSegs
  <1>6. FilledTo(mem', Segs, seg, Va + at')
    <2> SUFFICES ASSUME NEW j \in 0..(Seg.memsz - 1), Seg.va + j < Va + at'
                 PROVE  mem'[Seg.va + j] = Byte(Segs, seg, j)
      BY DEF FilledTo, Seg
    <2>1. seg \in DOMAIN Segs
      BY <1>2 DEF LoadSegs
    <2>2. Seg.va + j \in Addr /\ Seg.va + j \in Nat
      <3>1. Seg.va + j \in Addr
        BY <1>1, <2>1, SegmentFacts DEF Seg
      <3>2. Seg.va + j \in Nat
        BY <1>4
      <3> QED  BY <3>1, <3>2
    <2>3. CASE Seg.va + j < Va + at
      <3>1. mem[Seg.va + j] = Byte(Segs, seg, j)
        BY <1>2, <2>3 DEF FilledTo, Seg
      <3>2. Seg.va + j \notin Page(Va + at)
        <4> DEFINE b == Seg.va + j
                   p == Va + at
        <4>1. b \in Nat /\ p \in Nat /\ b < p /\ Page(p) = p..(p + PGSIZE - 1)
          BY <1>4, <2>2, <2>3
        <4> HIDE DEF b, p
        <4>2. b \notin Page(p)
          BY <1>1, <4>1
        <4> QED  BY <4>2 DEF b, p
      <3> QED  BY <2>2, <3>1, <3>2
    <2>4. CASE ~(Seg.va + j < Va + at)
      <3>1. Seg.va + j \in Page(Va + at)
        BY <1>1, <1>4, <2>2, <2>4, SMTT(60)
      <3> QED  BY <3>1
    <2> QED  BY <2>3, <2>4
  <1>7. at' = PGSIZE * (c + 1) /\ c + 1 \in Nat
    BY <1>1, <1>3
  <1>8. \E e \in Nat : at' = PGSIZE * e
    BY <1>7
  <1>9. SpawnInv'
    <2>1. Va' = Va
      BY DEF Va, Off, Seg, Segs
    <2> QED  BY <1>2, <1>5, <1>6, <1>8, <2>1 DEF SpawnInv, Segs, LoadSegs
  <1> QED  BY <1>9, ImageAgain

\* spawn() goes on with the segment behind k, or is done.
LEMMA SpawnGoesOn ==
    ASSUME ImageInv, who = "spawn", who' = who, img' = img, NEW k \in Nat, mem' = mem,
           \A l \in LoadSegs : l <= k => FilledTo(mem, Segs, l, Limit),
           seg' = NextLoad(k), at' = 0, pc' = IF NextLoad(k) = 0 THEN "close" ELSE "map_segment"
    PROVE  ImageInv'
  <1>1. img \in Images /\ WellLinked(Segs) /\ PGSIZE \in Nat \ {0}
    BY LoaderAssumption DEF ImageInv, Segs
  <1>2. CASE NextLoad(k) = 0
    <2>1. \A l \in LoadSegs : FilledTo(mem', Segs, l, Limit)
      BY <1>1, <1>2, NextLoadIs
    <2>2. SpawnInv'
      BY <1>2, <2>1 DEF SpawnInv, Segs, LoadSegs
    <2> QED  BY <2>2, ImageAgain
  <1>3. CASE NextLoad(k) # 0
    <2>1. NextLoad(k) \in LoadSegs /\ \A l \in LoadSegs : l < NextLoad(k) => FilledTo(mem', Segs, l, Limit)
      BY <1>1, <1>3, NextLoadIs
    <2>2. at' = PGSIZE * 0
      BY <1>1
    <2>3. FilledTo(mem', Segs, seg', Va' + at')
      <3> DEFINE v == Segs[NextLoad(k)].va
      <3>1. v \in Nat /\ Segs[NextLoad(k)].memsz \in Nat
        BY <1>1, <2>1, SegmentFacts DEF LoadSegs
      <3>2. Va' = v - (v % PGSIZE)
        BY DEF Va, Off, Seg, Segs
      <3>3. v % PGSIZE \in Nat
        <4> HIDE DEF v
        <4> QED  BY <1>1, <3>1
      <3>4. Va' + at' <= v /\ Va' + at' \in Int
        <4> HIDE DEF v
        <4> QED  BY <3>1, <3>2, <3>3
      <3>5. \A j \in 0..(Segs[NextLoad(k)].memsz - 1) : ~(v + j < Va' + at')
        <4> DEFINE t == Va' + at'
        <4> HIDE DEF v, t
        <4>1. t <= v /\ t \in Int
          BY <3>4 DEF t
        <4>2. \A j \in 0..(Segs[NextLoad(k)].memsz - 1) : ~(v + j < t)
          BY <3>1, <4>1
        <4> QED  BY <4>2 DEF t
      <3> QED  BY <3>5 DEF FilledTo
    <2>4. SpawnInv'
      BY <1>3, <2>1, <2>2, <2>3 DEF SpawnInv, Segs, LoadSegs
    <2> QED  BY <2>4, ImageAgain
  <1> QED  BY <1>2, <1>3

LEMMA init_stackImage ==
    ASSUME ImageInv, init_stack
    PROVE  ImageInv'
  <1>1. who = "spawn" /\ who' = who /\ img' = img /\ mem' = mem
    BY DEF init_stack, Fails, Fixed
  <1>2. CASE pc' = "no stack"
    <2>1. SpawnInv'
      BY <1>2 DEF SpawnInv
    <2> QED  BY <1>1, <2>1, ImageAgain
  <1>3. CASE seg' = NextLoad(0) /\ at' = 0 /\ pc' = IF NextLoad(0) = 0 THEN "close" ELSE "map_segment"
    <2>1. \A l \in LoadSegs : ~(l <= 0)
      <3>1. WellLinked(Segs)
        BY LoaderAssumption DEF ImageInv, Segs
      <3> QED  BY <3>1, SegmentFacts DEF LoadSegs
    <2> QED  BY <1>1, <1>3, <2>1, SpawnGoesOn
  <1> QED  BY <1>2, <1>3 DEF init_stack, Fails

LEMMA map_blankImage ==
    ASSUME ImageInv, map_blank
    PROVE  ImageInv'
  <1>1. who = "spawn" /\ who' = who /\ img' = img /\ pc = "map_segment" /\ at < Memsz /\ at >= Filesz
    BY DEF map_blank, Fixed
  <1>2. CASE free = 0
    <2>1. pc' = "error"
      BY <1>2 DEF map_blank, Fails
    <2>2. SpawnInv'
      BY <2>1 DEF SpawnInv
    <2> QED  BY <1>1, <2>2, ImageAgain
  <1>3. CASE free # 0
    <2>1. /\ mem' = [a \in Addr |-> IF a \in Page(Va + at) THEN Zero ELSE mem[a]]
          /\ at' = at + PGSIZE /\ pc' = "map_segment" /\ seg' = seg
      BY <1>1, <1>3 DEF map_blank, Set
    <2>2. img \in Images /\ WellLinked(Segs) /\ seg \in LoadSegs /\ seg \in DOMAIN Segs /\ \E c \in Nat : at = PGSIZE * c
      BY <1>1, LoaderAssumption DEF ImageInv, SpawnInv, Segs, LoadSegs
    <2>3. /\ Va \in Nat /\ at \in Nat /\ Off \in Nat /\ Seg.va = Va + Off
          /\ Seg.va \in Nat /\ Seg.memsz \in Nat /\ Seg.filesz \in Nat
          /\ Page(Va + at) = (Va + at)..(Va + at + PGSIZE - 1)
      BY <2>2, ChildPage
    <2>4. ASSUME NEW j \in 0..(Seg.memsz - 1), Seg.va + j \in Page(Va + at)
          PROVE  mem'[Seg.va + j] = Byte(Segs, seg, j)
      <3>1. Seg.va + j \in Addr /\ j \in Nat
        BY <2>2, <2>3, SegmentFacts, SMTT(60) DEF Seg
      <3>2. ~(j < Seg.filesz)
        <4>1. at >= Seg.filesz + Off
          BY <1>1 DEF Filesz
        <4>2. Va + at <= Va + Off + j
          <5>1. PGSIZE \in Nat /\ Va + at \in Nat
            BY <2>3, LoaderAssumption
          <5>2. Seg.va + j \in (Va + at)..(Va + at + PGSIZE - 1)
            BY <2>3, <2>4
          <5> QED  BY <2>3, <3>1, <5>1, <5>2
        <4> QED  BY <2>3, <3>1, <4>1, <4>2
      <3> QED  BY <2>1, <2>4, <3>1, <3>2 DEF Byte, Seg
    <2>5. \A a \in Addr : a \notin Page(Va + at) => mem'[a] = mem[a]
      BY <2>1
    <2> QED  BY <1>1, <2>1, <2>4, <2>5, PageFilled
  <1> QED  BY <1>2, <1>3

LEMMA map_readImage ==
    ASSUME ImageInv, map_read
    PROVE  ImageInv'
  <1>1. who = "spawn" /\ who' = who /\ img' = img /\ pc = "map_segment" /\ at' = at /\ seg' = seg /\ mem' = mem
    BY DEF map_read, Fails, Fixed
  <1>2. CASE pc' = "error"
    <2>1. SpawnInv'
      BY <1>2 DEF SpawnInv
    <2> QED  BY <1>1, <2>1, ImageAgain
  <1>3. CASE /\ pc' = "map_page"
             /\ utemp' = [b \in 0..(PGSIZE - 1) |->
                            IF at + b < Filesz THEN FromFile(Fileoffset + at + b) ELSE Zero]
    <2>1. Va' = Va /\ Filesz' = Filesz /\ Fileoffset' = Fileoffset /\ Segs' = Segs /\ LoadSegs' = LoadSegs
      BY <1>1 DEF Va, Filesz, Fileoffset, Off, Seg, Segs, LoadSegs
    <2>2. /\ seg \in LoadSegs
          /\ \E c \in Nat : at = PGSIZE * c
          /\ \A k \in LoadSegs : k < seg => FilledTo(mem, Segs, k, Limit)
          /\ FilledTo(mem, Segs, seg, Va + at)
      BY <1>1 DEF ImageInv, SpawnInv
    <2>3. SpawnInv'
      BY <1>1, <1>3, <2>1, <2>2 DEF SpawnInv
    <2> QED  BY <1>1, <2>3, ImageAgain
  <1> QED  BY <1>2, <1>3 DEF map_read, Fails

LEMMA InPage ==
    ASSUME NEW n \in Nat \ {0}, NEW p \in Nat, NEW a \in p..(p + n - 1)
    PROVE  a - p \in 0..(n - 1)
  OBVIOUS

LEMMA AddedUp ==
    ASSUME NEW x \in Int, NEW y \in Int, NEW z \in Int
    PROVE  x + y + z = x + (y + z)
  OBVIOUS

LEMMA OffsetLess ==
    ASSUME NEW x \in Int, NEW y \in Int, NEW z, z = x - y, NEW k \in Nat
    PROVE  z \in Int /\ z + (k + y) = x + k
  OBVIOUS

LEMMA map_pageImage ==
    ASSUME ImageInv, map_page
    PROVE  ImageInv'
  <1>1. who = "spawn" /\ who' = who /\ img' = img /\ pc = "map_page"
    BY DEF map_page, Fixed
  <1>2. CASE pc' = "panic"
    <2>1. SpawnInv'
      BY <1>2 DEF SpawnInv
    <2> QED  BY <1>1, <2>1, ImageAgain
  <1>3. CASE /\ mem' = [a \in Addr |-> IF a \in Page(Va + at) THEN utemp[a % PGSIZE] ELSE mem[a]]
             /\ at' = at + PGSIZE /\ pc' = "map_segment" /\ seg' = seg
    <2>1. /\ img \in Images /\ WellLinked(Segs) /\ seg \in LoadSegs /\ seg \in DOMAIN Segs
          /\ \E c \in Nat : at = PGSIZE * c
          /\ utemp = [b \in 0..(PGSIZE - 1) |-> IF at + b < Filesz THEN FromFile(Fileoffset + at + b) ELSE Zero]
      BY <1>1, LoaderAssumption DEF ImageInv, SpawnInv, Segs, LoadSegs
    <2>2. /\ Va \in Nat /\ at \in Nat /\ Off \in Nat /\ Seg.va = Va + Off
          /\ Seg.va \in Nat /\ Seg.memsz \in Nat /\ Seg.filesz \in Nat /\ Seg.offset \in Nat
          /\ Page(Va + at) = (Va + at)..(Va + at + PGSIZE - 1)
          /\ \A a \in Page(Va + at) : a % PGSIZE = a - (Va + at)
      BY <2>1, ChildPage
    <2>3. ASSUME NEW j \in 0..(Seg.memsz - 1), Seg.va + j \in Page(Va + at)
          PROVE  mem'[Seg.va + j] = Byte(Segs, seg, j)
      <3> DEFINE a == Seg.va + j
                 b == a - (Va + at)
      <3>1. a \in Addr /\ j \in Nat
        BY <2>1, <2>2, SegmentFacts, SMTT(60) DEF Seg
      <3>2. a % PGSIZE = b
        BY <2>2, <2>3
      <3>3. b \in 0..(PGSIZE - 1) /\ at + b = j + Off
        <4>1. PGSIZE \in Nat \ {0}
          BY LoaderAssumption
        <4>2. Va \in Nat /\ at \in Nat /\ Off \in Nat /\ Seg.va = Va + Off
          BY <2>2
        <4>3. a \in (Va + at)..(Va + at + PGSIZE - 1)
          BY <2>2, <2>3, Zenon
        <4>4. Va + at \in Nat
          BY <4>2
        <4>5. b \in 0..(PGSIZE - 1)
          BY <4>1, <4>3, <4>4, InPage
        <4>6. at + b = j + Off
          BY <3>1, <4>2
        <4> QED  BY <4>5, <4>6
      <3>4. mem'[a] = utemp[b]
        <4> HIDE DEF b
        <4> QED  BY <1>3, <2>3, <3>1, <3>2
      <3>5. utemp[b] = IF at + b < Filesz THEN FromFile(Fileoffset + at + b) ELSE Zero
        <4> HIDE DEF b
        <4> QED  BY <2>1, <3>3
      <3>6. (at + b < Filesz <=> j < Seg.filesz) /\ Fileoffset + at + b = Seg.offset + j
        <4> HIDE DEF b
        <4>1. b \in Int
          BY <3>3, LoaderAssumption
        <4>2. Filesz = Seg.filesz + Off /\ Fileoffset = Seg.offset - Off
          BY DEF Filesz, Fileoffset
        <4>3. at + b < Filesz <=> j < Seg.filesz
          BY <2>2, <3>1, <3>3, <4>2, SMTT(60)
        <4>4. Fileoffset \in Int /\ Fileoffset + (j + Off) = Seg.offset + j
          <5>1. Seg.offset \in Int /\ Off \in Int
            BY <2>2
          <5> QED  BY <3>1, <4>2, <5>1, OffsetLess
        <4>5. Fileoffset + at + b = Fileoffset + (at + b)
          <5>1. at \in Nat
            BY <2>2
          <5>2. Fileoffset \in Int
            BY <4>4
          <5> QED  BY <4>1, <5>1, <5>2, AddedUp
        <4> QED  BY <3>3, <4>3, <4>4, <4>5
      <3> HIDE DEF b
      <3>7. mem'[a] = Byte(Segs, seg, j)
        BY <3>4, <3>5, <3>6 DEF Byte, Seg
      <3> QED  BY <3>7
    <2>4. \A a \in Addr : a \notin Page(Va + at) => mem'[a] = mem[a]
      BY <1>3
    <2> QED  BY <1>1, <1>3, <2>3, <2>4, PageFilled
  <1> QED  BY <1>2, <1>3 DEF map_page, Fails, Set

LEMMA map_nextImage ==
    ASSUME ImageInv, map_next
    PROVE  ImageInv'
  <1>1. /\ who = "spawn" /\ who' = who /\ img' = img /\ pc = "map_segment" /\ mem' = mem /\ at >= Memsz
        /\ seg' = NextLoad(seg) /\ at' = 0 /\ pc' = IF NextLoad(seg) = 0 THEN "close" ELSE "map_segment"
    BY DEF map_next, Fixed
  <1>2. /\ img \in Images /\ WellLinked(Segs) /\ seg \in LoadSegs /\ seg \in DOMAIN Segs
        /\ \E c \in Nat : at = PGSIZE * c
        /\ \A k \in LoadSegs : k < seg => FilledTo(mem, Segs, k, Limit)
        /\ FilledTo(mem, Segs, seg, Va + at)
    BY <1>1, LoaderAssumption DEF ImageInv, SpawnInv, Segs, LoadSegs
  <1>3. /\ Va \in Nat /\ at \in Nat /\ Off \in Nat /\ Seg.va = Va + Off /\ Seg.va \in Nat /\ Seg.memsz \in Nat
    BY <1>2, ChildPage
  <1>4. \A j \in 0..(Seg.memsz - 1) : Seg.va + j < Va + at
    <2>1. at >= Seg.memsz + Off
      BY <1>1 DEF Memsz
    <2> QED  BY <1>3, <2>1
  <1>5. FilledTo(mem, Segs, seg, Limit)
    BY <1>2, <1>4 DEF FilledTo, Seg
  <1>6. seg \in Nat /\ \A k \in LoadSegs : k \in Nat
    BY <1>2, SegmentFacts DEF LoadSegs
  <1>7. \A k \in LoadSegs : k <= seg => FilledTo(mem, Segs, k, Limit)
    BY <1>2, <1>5, <1>6
  <1> QED  BY <1>1, <1>6, <1>7, SpawnGoesOn

LEMMA spawnImage ==
    ASSUME ImageInv, spawn \/ spawn_exofork \/ spawn_close \/ spawn_trapframe \/ spawn_error
    PROVE  ImageInv'
  <1>1. who = "spawn" /\ who' = who /\ img' = img
    BY DEF spawn, spawn_exofork, spawn_close, spawn_trapframe, spawn_error, Fails, Fixed
  <1>2. CASE spawn \/ spawn_exofork \/ spawn_error
    <2>1. pc' \in {"not found", "not executable", "exofork", "no environment", "init_stack", "failed"}
      BY <1>2 DEF spawn, spawn_exofork, spawn_error, Fails
    <2>2. SpawnInv'
      BY <2>1 DEF SpawnInv
    <2> QED  BY <1>1, <2>2, ImageAgain
  <1>3. CASE spawn_close \/ spawn_trapframe
    <2>1. pc \in {"close", "loaded"} /\ pc' \in {"loaded", "no trapframe"} /\ mem' = mem
      BY <1>3 DEF spawn_close, spawn_trapframe, Fails
    <2>2. \A k \in LoadSegs : FilledTo(mem', Segs, k, Limit)
      BY <1>1, <2>1 DEF ImageInv, SpawnInv
    <2>3. SpawnInv'
      BY <1>1, <2>1, <2>2 DEF SpawnInv, Segs, LoadSegs
    <2> QED  BY <1>1, <2>3, ImageAgain
  <1> QED  BY <1>2, <1>3

LEMMA ImageStep ==
    ASSUME ImageInv, [Next]_vars
    PROVE  ImageInv'
  <1>1. CASE UNCHANGED loaderVars
    <2>1. who' = who /\ img' = img /\ pc' = pc /\ seg' = seg /\ at' = at /\ mem' = mem /\ utemp' = utemp
      BY <1>1 DEF loaderVars
    <2>2. /\ Segs' = Segs /\ Seg' = Seg /\ LoadSegs' = LoadSegs /\ Va' = Va
          /\ Filesz' = Filesz /\ Fileoffset' = Fileoffset
      BY <2>1 DEF Segs, Seg, LoadSegs, Va, Off, Filesz, Fileoffset
    <2>3. BootInv => BootInv'
      BY <2>1, <2>2 DEF BootInv
    <2>4. KernelInv => KernelInv'
      BY <2>1, <2>2 DEF KernelInv
    <2>5. SpawnInv => SpawnInv'
      BY <2>1, <2>2 DEF SpawnInv
    <2> QED  BY <2>1, <2>3, <2>4, <2>5 DEF ImageInv
  <1>2. CASE LoaderNext
    BY <1>2, bootmainImage, readsectImage, i386_initImage, env_createImage, region_allocImage, load_icodeImage,
       icode_stackImage, spawnImage, init_stackImage, map_blankImage, map_readImage, map_pageImage, map_nextImage
       DEF LoaderNext
  <1> QED  BY <1>1, <1>2 DEF Next, Load, Start, StartOther, vars

(*****************************************************************************)
(* Whatever image the linker makes, of any size, with any sectors and pages, *)
(* and whatever was in memory: each of the three loaders leaves every byte   *)
(* of every segment as the file has it, and zeros behind.  No loader writes  *)
(* over a segment that it has loaded before.                                 *)
(*****************************************************************************)
THEOREM ImagesAreLoaded == Spec => []ImageLoaded
  <1>1. Init => ImageInv
    <2> SUFFICES ASSUME Init PROVE ImageInv
      OBVIOUS
    <2>1. img \in Images /\ who \in {"boot", "kernel", "spawn"} /\ pc = "start"
      BY DEF Init, LoaderInit
    <2> QED  BY <2>1 DEF ImageInv, BootInv, KernelInv, SpawnInv
  <1>2. ImageInv /\ [Next]_vars => ImageInv'
    BY ImageStep
  <1>3. ImageInv => ImageLoaded
    <2> SUFFICES ASSUME ImageInv, pc \in {"loaded", "no trapframe"},
                        NEW k \in LoadSegs, NEW j \in 0..(Segs[k].memsz - 1)
                 PROVE  mem[Segs[k].va + j] = IF j < Segs[k].filesz THEN FromFile(Segs[k].offset + j) ELSE Zero
      BY DEF ImageLoaded
    <2>1. FilledTo(mem, Segs, k, Limit)
      BY DEF ImageInv, BootInv, KernelInv, SpawnInv
    <2>2. WellLinked(Segs) /\ k \in DOMAIN Segs
      BY LoaderAssumption DEF ImageInv, Segs, LoadSegs
    <2>3. Segs[k].va + j < Limit
      <3>1. Segs[k].va + j \in Addr
        BY <2>2, SegmentFacts
      <3> QED  BY <3>1, AddrBelow
    <2> QED  BY <2>1, <2>3 DEF FilledTo, Byte
  <1> QED  BY <1>1, <1>2, <1>3, PTL DEF Spec

-------------------------------------------------------------------------------
(*****************************************************************************)
(* The arguments on the stack of a new program.                              *)
(*****************************************************************************)

LEMMA StringSizes ==
    ASSUME argv \in Seq(Nat)
    PROVE  /\ argc \in Nat
           /\ \A i \in 0..argc : StringSize[i] \in Nat
           /\ StringSize[0] = 0
           /\ \A i \in 1..argc : StringSize[i] = StringSize[i - 1] + argv[i] + 1 /\ argv[i] \in Nat
  <1> DEFINE L == argc
             step == [x \in (1..L) \X Nat |-> x[2] + argv[x[1]] + 1]
             Fits(f) == f = [n \in 0..L |-> IF n = 0 THEN 0 ELSE f[n - 1] + argv[n] + 1]
  <1>1. L \in Nat /\ \A i \in 1..L : argv[i] \in Nat
    BY DEF argc
  <1>2. IsStep(step, L, Nat)
    BY <1>1 DEF IsStep
  <1>3. \E f : Recurs(f, L, Nat, 0, step)
    <2> HIDE DEF L, step
    <2> QED  BY <1>1, <1>2, RecursionUpTo
  <1>4. PICK f \in [0..L -> Nat] : f[0] = 0 /\ \A k \in 1..L : f[k] = step[<<k, f[k - 1]>>]
    BY <1>3 DEF Recurs
  <1>5. \A k \in 1..L : f[k] = f[k - 1] + argv[k] + 1
    <2> SUFFICES ASSUME NEW k \in 1..L PROVE f[k] = f[k - 1] + argv[k] + 1
      OBVIOUS
    <2>1. f[k - 1] \in Nat
      BY <1>1
    <2>2. f[k] = step[<<k, f[k - 1]>>]
      BY <1>4
    <2> QED  BY <2>1, <2>2
  <1>6. Fits(f)
    <2>1. f = [k \in 0..L |-> f[k]]
      OBVIOUS
    <2>2. \A k \in 0..L : f[k] = IF k = 0 THEN 0 ELSE f[k - 1] + argv[k] + 1
      BY <1>1, <1>4, <1>5
    <2> QED  BY <2>1, <2>2
  <1>7. Fits(StringSize)
    BY <1>6 DEF StringSize
  <1>8. /\ StringSize[0] = 0
        /\ \A k \in 1..L : StringSize[k] = StringSize[k - 1] + argv[k] + 1
    <2> DEFINE body(k) == IF k = 0 THEN 0 ELSE StringSize[k - 1] + argv[k] + 1
    <2>1. StringSize = [k \in 0..L |-> body(k)]
      BY <1>7
    <2>2. \A k \in 0..L : StringSize[k] = body(k)
      <3> HIDE DEF body
      <3> QED  BY <2>1
    <2>3. 0 \in 0..L /\ \A k \in 1..L : k \in 0..L /\ k # 0
      BY <1>1
    <2> QED  BY <2>2, <2>3
  <1> DEFINE S == {k \in Nat : k <= L => StringSize[k] \in Nat}
  <1>9. Nat \subseteq S
    <2>1. 0 \in S
      BY <1>8
    <2>2. \A k \in S : k + 1 \in S
      <3> SUFFICES ASSUME NEW k \in S, k + 1 <= L PROVE StringSize[k + 1] \in Nat
        OBVIOUS
      <3>1. k + 1 \in 1..L /\ StringSize[k] \in Nat /\ (k + 1) - 1 = k
        BY <1>1
      <3>2. StringSize[k + 1] = StringSize[k] + argv[k + 1] + 1
        BY <1>8, <3>1
      <3>3. argv[k + 1] \in Nat
        BY <1>1, <3>1
      <3>4. StringSize[k] + argv[k + 1] + 1 \in Nat
        <4> HIDE DEF L, S
        <4> QED  BY <3>1, <3>3
      <3> QED  BY <3>2, <3>4
    <2>3. S \in SUBSET Nat
      OBVIOUS
    <2> HIDE DEF S
    <2> QED  BY <2>1, <2>2, <2>3, NatSetInduction
  <1>10. \A i \in 0..L : StringSize[i] \in Nat
    BY <1>1, <1>9
  <1> QED  BY <1>1, <1>8, <1>10

LEMMA StringSizeGrows ==
    ASSUME argv \in Seq(Nat), NEW i \in 0..argc
    PROVE  \A k \in 0..argc : i <= k => StringSize[i] <= StringSize[k]
  <1>1. argc \in Nat /\ \A k \in 0..argc : StringSize[k] \in Nat
    BY StringSizes
  <1> DEFINE S == {k \in Nat : k <= argc /\ i <= k => StringSize[i] <= StringSize[k]}
  <1>2. Nat \subseteq S
    <2>1. 0 \in S
      BY <1>1
    <2>2. \A k \in S : k + 1 \in S
      <3> SUFFICES ASSUME NEW k \in S, k + 1 <= argc, i <= k + 1 PROVE StringSize[i] <= StringSize[k + 1]
        OBVIOUS
      <3>1. k \in Nat /\ k + 1 \in 1..argc /\ (k + 1) - 1 = k /\ k \in 0..argc /\ i \in Nat
        BY <1>1
      <3>2. StringSize[k + 1] = StringSize[k] + argv[k + 1] + 1 /\ argv[k + 1] \in Nat
        BY <3>1, StringSizes
      <3>3. CASE i = k + 1
        BY <1>1, <3>1, <3>3
      <3>4. CASE i <= k
        <4>1. StringSize[i] <= StringSize[k]
          BY <3>1, <3>4
        <4> QED  BY <1>1, <3>1, <3>2, <4>1, SMTT(60)
      <3> QED  BY <3>1, <3>3, <3>4
    <2>3. S \in SUBSET Nat
      OBVIOUS
    <2> HIDE DEF S
    <2> QED  BY <2>1, <2>2, <2>3, NatSetInduction
  <1> QED  BY <1>1, <1>2

\* What init_stack() puts at a place of the page, by name.
Strings == PGSIZE - StringSize[argc]
TextAt(b) == {s \in {<<i, b - string_store[i]>> : i \in 1..argc} : s[2] >= 0 /\ s[2] < argv[s[1]]}
EntryAt(b) == (b - argv_store) \div WORD

LEMMA ArrangedAs ==
    ASSUME NEW b \in 0..(PGSIZE - 1)
    PROVE  Arrange[b] = IF TextAt(b) # {} THEN LET s == CHOOSE s \in TextAt(b) : TRUE IN Char(s[1], s[2])
                        ELSE IF (b - argv_store) % WORD # 0 THEN Zero
                        ELSE IF EntryAt(b) \in 0..(argc - 1) THEN Pointer(string_store[EntryAt(b) + 1])
                        ELSE IF EntryAt(b) = -1 THEN Pointer(argv_store)
                        ELSE IF EntryAt(b) = -2 THEN Pointer(argc)
                        ELSE Zero
  BY DEF Arrange, TextAt, EntryAt

\* The strings end the page; the array lies below them, aligned.
LEMMA Layout ==
    ASSUME argv \in Seq(Nat), argv_store - 2 * WORD >= 0
    PROVE  /\ PGSIZE \in Nat \ {0} /\ WORD \in Nat \ {0} /\ argc \in Nat
           /\ Strings \in Nat /\ Strings <= PGSIZE
           /\ argv_store \in Nat /\ argv_store + WORD * (argc + 1) <= Strings
           /\ (argv_store - 2 * WORD) % WORD = 0
           /\ \A i \in 1..argc : string_store[i] = Strings + StringSize[i - 1] /\ StringSize[i - 1] \in Nat
  <1>1. PGSIZE \in Nat \ {0} /\ WORD \in Nat \ {0} /\ argc \in Nat
    BY LoaderAssumption, StringSizes
  <1>2. StringSize[argc] \in Nat
    BY <1>1, StringSizes
  <1> DEFINE x == Strings
             q == x \div WORD
             w == WORD * (argc + 1)
             d == RoundDown(x, WORD)
  <1>3. x \in Int /\ x <= PGSIZE
    BY <1>1, <1>2 DEF Strings
  <1>4. d \in Int /\ d <= x /\ d = WORD * q /\ q \in Int
    <2> HIDE DEF x
    <2> DEFINE p == WORD * q
               r == x % WORD
    <2>1. x = p + r /\ r \in 0..(WORD - 1) /\ q \in Int
      BY <1>1, <1>3
    <2>2. p \in Int
      <3> HIDE DEF q
      <3> QED  BY <1>1, <2>1
    <2>3. d = x - r
      BY DEF RoundDown
    <2> HIDE DEF p, r, q, d
    <2>4. d = p /\ d <= x /\ d \in Int
      BY <1>1, <1>3, <2>1, <2>2, <2>3
    <2> QED  BY <2>1, <2>4 DEF p
  <1>5. argv_store = d - w /\ w \in Nat
    <2>1. argv_store = d - w
      BY DEF argv_store, Strings
    <2>2. w \in Nat
      BY <1>1
    <2> QED  BY <2>1, <2>2
  <1>6. argv_store \in Nat /\ argv_store + w <= x /\ x \in Nat
    <2> HIDE DEF d, w, x
    <2> QED  BY <1>1, <1>3, <1>4, <1>5
  <1>7. (argv_store - 2 * WORD) % WORD = 0
    <2> DEFINE c == q - (argc + 1) - 2
    <2>1. argv_store - 2 * WORD = WORD * c /\ c \in Int
      <3>1. argv_store - 2 * WORD = (WORD * q - WORD * (argc + 1)) - 2 * WORD
        BY <1>4, <1>5
      <3> HIDE DEF q
      <3> QED  BY <1>1, <1>4, <3>1
    <2>2. 0 \in 0..(WORD - 1) /\ WORD * c + 0 = WORD * c
      <3> HIDE DEF c
      <3> QED  BY <1>1, <2>1
    <2>3. (WORD * c + 0) % WORD = 0
      <3> HIDE DEF c
      <3> QED  BY <1>1, <2>1, <2>2, Quotient
    <2> HIDE DEF c
    <2> QED  BY <2>1, <2>2, <2>3
  <1>8. \A i \in 1..argc : string_store[i] = Strings + StringSize[i - 1] /\ StringSize[i - 1] \in Nat
    <2> SUFFICES ASSUME NEW i \in 1..argc
                 PROVE  string_store[i] = Strings + StringSize[i - 1] /\ StringSize[i - 1] \in Nat
      OBVIOUS
    <2>1. i - 1 \in 0..argc
      BY <1>1
    <2>2. StringSize[i - 1] \in Nat
      BY <2>1, StringSizes
    <2>3. string_store[i] = PGSIZE - StringSize[argc] + StringSize[i - 1]
      BY DEF string_store
    <2>4. PGSIZE - StringSize[argc] + StringSize[i - 1] = (PGSIZE - StringSize[argc]) + StringSize[i - 1]
      BY <1>1, <1>2, <2>2
    <2> QED  BY <2>2, <2>3, <2>4 DEF Strings
  <1> QED  BY <1>1, <1>3, <1>6, <1>7, <1>8

LEMMA BelowLast ==
    ASSUME NEW s \in Nat, NEW x \in Nat, NEW y \in Nat, NEW b \in Nat, b < s + x, x <= y, NEW z, s + y = z
    PROVE  b < z
  OBVIOUS

LEMMA InString ==
    ASSUME NEW s \in Nat, NEW p \in Nat, NEW n \in Nat, NEW j \in Nat, j <= n,
           NEW q, q = p + n + 1, NEW b, b = s + p + j
    PROVE  b \in Nat /\ b >= s /\ b < s + q
  OBVIOUS

LEMMA BeforeString ==
    ASSUME NEW s \in Nat, NEW p \in Nat, NEW q \in Nat, q <= p, NEW t, t = s + p, NEW b \in Nat, b < s + q
    PROVE  ~(b - t >= 0)
  OBVIOUS

LEMMA BehindString ==
    ASSUME NEW s \in Nat, NEW p \in Nat, NEW n \in Nat, NEW r \in Nat, NEW j \in Nat, p + n + 1 <= r,
           NEW t, t = s + p, NEW b, b = (s + r) + j
    PROVE  ~(b - t < n)
  OBVIOUS

\* Where string i lies, and that no other is there.
LEMMA StringPlace ==
    ASSUME argv \in Seq(Nat), argv_store - 2 * WORD >= 0, NEW i \in 1..argc,
           NEW j \in 0..argv[i], NEW b, b = string_store[i] + j
    PROVE  /\ b \in 0..(PGSIZE - 1) /\ b >= Strings
           /\ \A s \in TextAt(b) : s = <<i, j>>
           /\ j < argv[i] => <<i, j>> \in TextAt(b)
           /\ j = argv[i] => TextAt(b) = {}
  <1>1. /\ PGSIZE \in Nat \ {0} /\ argc \in Nat /\ Strings \in Nat
        /\ \A k \in 1..argc : string_store[k] = Strings + StringSize[k - 1] /\ StringSize[k - 1] \in Nat
    BY Layout
  <1>2. \A k \in 1..argc : /\ StringSize[k] = StringSize[k - 1] + argv[k] + 1 /\ argv[k] \in Nat
                           /\ StringSize[k] \in Nat
    BY <1>1, StringSizes
  <1> DEFINE p(k) == StringSize[k - 1]
             q(k) == StringSize[k]
  <1>0. \A k \in 1..argc : /\ string_store[k] = Strings + p(k) /\ p(k) \in Nat /\ q(k) \in Nat
                           /\ q(k) = p(k) + argv[k] + 1 /\ argv[k] \in Nat
    BY <1>1, <1>2
  <1>3. b \in Nat /\ j \in Nat /\ b - string_store[i] = j /\ b >= Strings /\ b < Strings + q(i)
    <2> HIDE DEF p, q
    <2>1. /\ string_store[i] = Strings + p(i) /\ p(i) \in Nat /\ q(i) \in Nat
          /\ q(i) = p(i) + argv[i] + 1 /\ argv[i] \in Nat
      BY <1>0
    <2>2. j \in Nat /\ j <= argv[i]
      BY <2>1
    <2>3. Strings \in Nat /\ b = Strings + p(i) + j
      BY <1>1, <2>1
    <2>4. b \in Nat /\ b >= Strings /\ b < Strings + q(i)
      BY <1>1, <2>1, <2>2, <2>3, InString
    <2>5. b - string_store[i] = j
      BY <2>1, <2>2, <2>3
    <2> QED  BY <2>2, <2>4, <2>5
  <1>4. b < PGSIZE
    <2>1. i \in 0..argc /\ argc \in 0..argc /\ i <= argc
      BY <1>1
    <2>2. StringSize[i] <= StringSize[argc] /\ StringSize[argc] \in Nat
      BY <1>1, <1>2, <2>1, StringSizeGrows
    <2>3. Strings + StringSize[argc] = PGSIZE
      BY <1>1, <2>2 DEF Strings
    <2>4. b \in Nat /\ b < Strings + StringSize[i]
      BY <1>3
    <2>5. Strings \in Nat /\ StringSize[i] \in Nat
      BY <1>1, <1>2
    <2> QED  BY <2>2, <2>3, <2>4, <2>5, BelowLast
  <1>5. \A k \in 1..argc : b - string_store[k] >= 0 /\ b - string_store[k] < argv[k] => k = i
    <2> SUFFICES ASSUME NEW k \in 1..argc, b - string_store[k] >= 0, b - string_store[k] < argv[k], k # i
                 PROVE  FALSE
      OBVIOUS
    <2>1. k \in 0..argc /\ i \in 0..argc /\ k - 1 \in 0..argc /\ i - 1 \in 0..argc /\ k \in Nat /\ i \in Nat
      BY <1>1
    <2>2. CASE k < i
      <3>1. StringSize[k] <= StringSize[i - 1]
        <4>1. k <= i - 1
          BY <2>1, <2>2
        <4> QED  BY <2>1, <4>1, StringSizeGrows
      <3>2. q(k) <= p(i)
        BY <3>1
      <3> HIDE DEF p, q
      <3>3. /\ string_store[k] = Strings + p(k) /\ p(k) \in Nat /\ q(k) \in Nat
            /\ q(k) = p(k) + argv[k] + 1 /\ argv[k] \in Nat
        BY <1>0
      <3>4. /\ string_store[i] = Strings + p(i) /\ p(i) \in Nat /\ q(i) \in Nat
        BY <1>0
      <3>5. Strings \in Nat /\ b \in Nat /\ j \in Nat /\ b - string_store[i] = j
        BY <1>1, <1>3
      <3>6. b = (Strings + p(i)) + j /\ p(k) + argv[k] + 1 <= p(i)
        BY <3>2, <3>3, <3>4, <3>5
      <3>7. ~(b - string_store[k] < argv[k])
        BY <3>3, <3>4, <3>5, <3>6, BehindString
      <3> QED  BY <3>7
    <2>3. CASE i < k
      <3>1. StringSize[i] <= StringSize[k - 1]
        <4>1. i <= k - 1
          BY <2>1, <2>3
        <4> QED  BY <2>1, <4>1, StringSizeGrows
      <3>2. q(i) <= p(k)
        BY <3>1
      <3> HIDE DEF p, q
      <3>3. /\ string_store[k] = Strings + p(k) /\ p(k) \in Nat /\ q(k) \in Nat
            /\ q(k) = p(k) + argv[k] + 1 /\ argv[k] \in Nat
        BY <1>0
      <3>4. /\ string_store[i] = Strings + p(i) /\ p(i) \in Nat /\ q(i) \in Nat
        BY <1>0
      <3>5. Strings \in Nat /\ b \in Nat /\ j \in Nat /\ b - string_store[i] = j
        BY <1>1, <1>3
      <3>6. b < Strings + q(i)
        BY <1>3
      <3>7. ~(b - string_store[k] >= 0)
        BY <3>2, <3>3, <3>4, <3>5, <3>6, BeforeString
      <3> QED  BY <3>7
    <2> QED  BY <2>1, <2>2, <2>3
  <1>6. \A s \in TextAt(b) : s = <<i, j>> /\ j < argv[i]
    <2> SUFFICES ASSUME NEW s \in TextAt(b) PROVE s = <<i, j>> /\ j < argv[i]
      OBVIOUS
    <2>1. PICK k \in 1..argc : s = <<k, b - string_store[k]>>
      BY DEF TextAt
    <2>2. b - string_store[k] >= 0 /\ b - string_store[k] < argv[k]
      BY <2>1 DEF TextAt
    <2>3. k = i
      BY <1>5, <2>2
    <2> QED  BY <1>3, <2>1, <2>2, <2>3
  <1>7. j < argv[i] => <<i, j>> \in TextAt(b)
    BY <1>3 DEF TextAt
  <1>8. j = argv[i] => TextAt(b) = {}
    BY <1>2, <1>3, <1>6
  <1> QED  BY <1>1, <1>3, <1>4, <1>6, <1>7, <1>8, SMTT(60)

\* Entry e of the array, and the two below it.
LEMMA EntryPlace ==
    ASSUME argv \in Seq(Nat), argv_store - 2 * WORD >= 0, NEW e \in (-2)..argc, NEW b, b = argv_store + WORD * e
    PROVE  /\ b \in 0..(PGSIZE - 1)
           /\ Arrange[b] = IF e \in 0..(argc - 1) THEN Pointer(string_store[e + 1])
                           ELSE IF e = -1 THEN Pointer(argv_store)
                           ELSE IF e = -2 THEN Pointer(argc)
                           ELSE Zero
  <1>1. /\ PGSIZE \in Nat \ {0} /\ WORD \in Nat \ {0} /\ argc \in Nat
        /\ Strings \in Nat /\ Strings <= PGSIZE
        /\ argv_store \in Nat /\ argv_store + WORD * (argc + 1) <= Strings
        /\ \A i \in 1..argc : string_store[i] = Strings + StringSize[i - 1] /\ StringSize[i - 1] \in Nat
    BY Layout
  <1> DEFINE m == WORD * e
  <1>2. m \in Int /\ m >= -(2 * WORD) /\ m < WORD * (argc + 1) /\ b \in Int /\ e \in Int
    <2>1. e \in Int /\ argc \in Nat /\ WORD \in Nat \ {0}
      BY <1>1
    <2>2. m \in Int /\ b \in Int
      BY <1>1, <2>1
    <2>3. m >= -(2 * WORD)
      <3>1. WORD * (e + 2) >= 0
        BY <1>1, <2>1
      <3> QED  BY <1>1, <2>1, <3>1
    <2>4. m < WORD * (argc + 1)
      <3>1. WORD * (argc + 1 - e) >= WORD
        <4> DEFINE z == argc - e
        <4>1. z \in Nat
          BY <1>1, <2>1
        <4>2. argc + 1 - e = z + 1
          BY <2>1
        <4>3. WORD * (z + 1) >= WORD
          <5> HIDE DEF z
          <5> QED  BY <1>1, <4>1
        <4> HIDE DEF z
        <4> QED  BY <4>2, <4>3
      <3> QED  BY <1>1, <2>1, <3>1
    <2> QED  BY <2>1, <2>2, <2>3, <2>4
  <1>3. b \in 0..(PGSIZE - 1) /\ b < Strings
    <2> DEFINE w == WORD * (argc + 1)
    <2>1. w \in Nat /\ m \in Int /\ m < w /\ m >= -(2 * WORD) /\ b = argv_store + m /\ argv_store + w <= Strings
      BY <1>1, <1>2
    <2> HIDE DEF w, m
    <2> QED  BY <1>1, <2>1
  <1>4. TextAt(b) = {}
    <2>1. ASSUME NEW i \in 1..argc PROVE ~(b - string_store[i] >= 0)
      <3> DEFINE p == StringSize[i - 1]
      <3>1. string_store[i] = Strings + p /\ p \in Nat
        BY <1>1
      <3> HIDE DEF p
      <3> QED  BY <1>1, <1>2, <1>3, <3>1
    <2> QED  BY <2>1 DEF TextAt
  <1>5. (b - argv_store) % WORD = 0 /\ EntryAt(b) = e
    <2>1. b - argv_store = WORD * e + 0
      BY <1>1, <1>2
    <2>2. 0 \in 0..(WORD - 1)
      BY <1>1
    <2>3. (WORD * e + 0) % WORD = 0 /\ (WORD * e + 0) \div WORD = e
      BY <1>1, <1>2, <2>2, Quotient
    <2> QED  BY <2>1, <2>3 DEF EntryAt
  <1> QED  BY <1>3, <1>4, <1>5, ArrangedAs

\* The page that init_stack() arranges is the one the program starts on.
StackPageInv ==
    /\ who = "spawn" => argv \in Arguments
    /\ who = "spawn" /\ stack # NoPage =>
         stack = Arrange /\ rsp = argv_store - 2 * WORD /\ argv_store - 2 * WORD >= 0

LEMMA StackPageStep ==
    ASSUME StackPageInv, [Next]_vars
    PROVE  StackPageInv'
  <1> DEFINE Kept == who' = who /\ argv' = argv /\ stack' = stack /\ rsp' = rsp
  <1>0. ASSUME argv' = argv PROVE Arrange' = Arrange /\ argv_store' = argv_store
    <2>1. argc' = argc
      BY <1>0 DEF argc
    <2>2. StringSize' = StringSize
      BY <1>0, <2>1 DEF StringSize
    <2>3. string_store' = string_store /\ argv_store' = argv_store
      BY <2>1, <2>2 DEF string_store, argv_store
    <2> QED  BY <1>0, <2>1, <2>3 DEF Arrange
  <1>1. CASE Kept
    BY <1>0, <1>1 DEF StackPageInv
  <1>2. CASE init_stack
    <2>1. CASE Kept
      BY <1>1, <2>1
    <2>2. CASE /\ argv_store - 2 * WORD >= 0 /\ stack' = Arrange /\ rsp' = argv_store - 2 * WORD
               /\ argv' = argv /\ who' = who
      BY <1>0, <2>2 DEF StackPageInv
    <2> QED  BY <1>2, <2>1, <2>2 DEF init_stack, Fails, Fixed
  <1>3. CASE spawn_error
    <2>1. who' = who /\ argv' = argv /\ stack' = NoPage
      BY <1>3 DEF spawn_error, Fixed
    <2> QED  BY <2>1 DEF StackPageInv, NoPage
  <1>4. CASE icode_stack
    <2>1. who = "kernel" /\ who' = who
      BY <1>4 DEF icode_stack
    <2> QED  BY <2>1 DEF StackPageInv
  <1>5. CASE UNCHANGED loaderVars
    BY <1>1, <1>5 DEF loaderVars
  <1>6. CASE bootmain \/ readsect \/ i386_init \/ env_create \/ region_alloc \/ load_icode
    BY <1>1, <1>6 DEF bootmain, readsect, i386_init, env_create, region_alloc, load_icode
  <1>7. CASE spawn \/ spawn_exofork \/ spawn_close \/ spawn_trapframe
    BY <1>1, <1>7 DEF spawn, spawn_exofork, spawn_close, spawn_trapframe, Fails, Fixed
  <1>8. CASE map_blank \/ map_read \/ map_page \/ map_next
    BY <1>1, <1>8 DEF map_blank, map_read, map_page, map_next, Fails, Fixed
  <1> QED  BY <1>2, <1>3, <1>4, <1>5, <1>6, <1>7, <1>8 DEF Next, Load, LoaderNext, Start, StartOther, vars

LEMMA ArgumentsInPlace ==
    ASSUME StackPageInv
    PROVE  ArgumentsArrive
  <1> SUFFICES ASSUME who = "spawn", stack # NoPage PROVE ArgumentsArrive
    BY DEF ArgumentsArrive
  <1>1. /\ argv \in Seq(Nat) /\ stack = Arrange /\ rsp = argv_store - 2 * WORD /\ argv_store - 2 * WORD >= 0
    BY LoaderAssumption DEF StackPageInv
  <1>2. /\ PGSIZE \in Nat \ {0} /\ WORD \in Nat \ {0} /\ argc \in Nat /\ argv_store \in Nat
        /\ rsp % WORD = 0
    BY <1>1, Layout
  <1>3. DOMAIN stack = 0..(PGSIZE - 1)
    BY <1>1 DEF Arrange
  \* argc, and argv of the new program
  <1>4. rsp \in DOMAIN stack /\ stack[rsp] = Pointer(argc)
    <2>1. rsp = argv_store + WORD * (-2) /\ -2 \in (-2)..argc /\ -2 \notin 0..(argc - 1) /\ -2 # -1
      BY <1>1, <1>2
    <2>2. rsp \in 0..(PGSIZE - 1) /\ Arrange[rsp] = Pointer(argc)
      BY <1>1, <2>1, EntryPlace
    <2> QED  BY <1>1, <1>3, <2>2
  <1>5. rsp + WORD \in DOMAIN stack /\ stack[rsp + WORD] = Pointer(argv_store)
    <2>1. rsp + WORD = argv_store + WORD * (-1) /\ -1 \in (-2)..argc /\ -1 \notin 0..(argc - 1)
      BY <1>1, <1>2
    <2>2. rsp + WORD \in 0..(PGSIZE - 1) /\ Arrange[rsp + WORD] = Pointer(argv_store)
      BY <1>1, <2>1, EntryPlace
    <2> QED  BY <1>1, <1>3, <2>2
  \* the array, and the null that ends it
  <1>6. ASSUME NEW i \in 1..argc
        PROVE  /\ argv_store + WORD * (i - 1) \in DOMAIN stack
               /\ stack[argv_store + WORD * (i - 1)] = Pointer(string_store[i])
    <2> DEFINE e == i - 1
               b == argv_store + WORD * e
    <2>1. e \in (-2)..argc /\ e \in 0..(argc - 1) /\ e + 1 = i
      BY <1>2
    <2> HIDE DEF e
    <2>2. b \in 0..(PGSIZE - 1) /\ Arrange[b] = Pointer(string_store[e + 1])
      BY <1>1, <2>1, EntryPlace
    <2>3. b \in DOMAIN stack /\ stack[b] = Pointer(string_store[i])
      BY <1>1, <1>3, <2>1, <2>2
    <2> QED  BY <2>3 DEF e
  <1>7. argv_store + WORD * argc \in DOMAIN stack /\ stack[argv_store + WORD * argc] = Zero
    <2>1. argc \in (-2)..argc /\ argc \notin 0..(argc - 1) /\ argc # -1 /\ argc # -2
      BY <1>2
    <2> DEFINE b == argv_store + WORD * argc
    <2>2. b \in 0..(PGSIZE - 1) /\ Arrange[b] = Zero
      BY <1>1, <2>1, EntryPlace
    <2> QED  BY <1>1, <1>3, <2>2
  \* the strings, each with its null
  <1>8. ASSUME NEW i \in 1..argc, NEW j \in 0..(argv[i] - 1)
        PROVE  stack[string_store[i] + j] = Char(i, j)
    <2> DEFINE b == string_store[i] + j
    <2>1. argv[i] \in Nat
      BY <1>1, StringSizes
    <2>2. j \in 0..argv[i] /\ j < argv[i]
      BY <2>1
    <2>3. b \in 0..(PGSIZE - 1) /\ (\A s \in TextAt(b) : s = <<i, j>>) /\ <<i, j>> \in TextAt(b)
      BY <1>1, <2>2, StringPlace
    <2> HIDE DEF b
    <2>4. TextAt(b) # {} /\ (CHOOSE s \in TextAt(b) : TRUE) = <<i, j>>
      BY <2>3
    <2>5. Arrange[b] = Char(i, j)
      BY <2>3, <2>4, ArrangedAs
    <2> QED  BY <1>1, <2>5 DEF b
  <1>9. ASSUME NEW i \in 1..argc
        PROVE  string_store[i] + argv[i] \in DOMAIN stack /\ stack[string_store[i] + argv[i]] = Zero
    <2> DEFINE b == string_store[i] + argv[i]
    <2>1. argv[i] \in Nat /\ argv[i] \in 0..argv[i]
      BY <1>1, StringSizes
    <2>2. b \in 0..(PGSIZE - 1) /\ b >= Strings /\ TextAt(b) = {}
      BY <1>1, <2>1, StringPlace
    <2> HIDE DEF b
    <2>3. EntryAt(b) \in Int /\ EntryAt(b) >= argc
      <3> DEFINE x == b - argv_store
                 q == x \div WORD
                 w == WORD * (argc + 1)
      <3>1. argv_store + w <= Strings /\ Strings \in Nat /\ w \in Nat
        BY <1>1, <1>2, Layout
      <3>2. x \in Int /\ x >= w
        <4> HIDE DEF w
        <4> QED  BY <1>2, <2>2, <3>1
      <3> HIDE DEF x
      <3>3. x = WORD * q + (x % WORD) /\ x % WORD \in 0..(WORD - 1) /\ q \in Int
        BY <1>2, <3>2
      <3> HIDE DEF q
      <3>4. q >= argc
        <4> SUFFICES ASSUME q < argc PROVE FALSE
          BY <1>2, <3>3
        <4> DEFINE z == argc - q - 1
        <4>1. z \in Nat /\ argc + 1 = z + q + 2
          BY <1>2, <3>3
        <4>2. WORD * (z + q + 2) = WORD * z + WORD * q + 2 * WORD
          <5> HIDE DEF z
          <5> QED  BY <1>2, <3>3, <4>1
        <4>3. WORD * z \in Nat
          <5> HIDE DEF z
          <5> QED  BY <1>2, <4>1
        <4> DEFINE m == WORD * q
                   y == WORD * z
                   r == x % WORD
        <4>4. w = y + m + 2 * WORD /\ y \in Nat /\ m \in Int /\ x = m + r /\ r \in 0..(WORD - 1)
          BY <1>2, <3>3, <4>1, <4>2, <4>3
        <4> HIDE DEF m, y, r, w
        <4> QED  BY <1>2, <3>2, <4>4
      <3> QED  BY <3>3, <3>4 DEF EntryAt, q, x
    <2>4. Arrange[b] = Zero
      <3>1. EntryAt(b) \notin 0..(argc - 1) /\ EntryAt(b) # -1 /\ EntryAt(b) # -2
        BY <1>2, <2>3
      <3> QED  BY <2>2, <3>1, ArrangedAs
    <2> QED  BY <1>1, <1>3, <2>2, <2>4 DEF b
  <1>10. /\ \A a : Pointer(a)[1] = "pointer" /\ Pointer(a)[2] = a
    BY DEF Pointer
  <1> DEFINE args == stack[rsp + WORD][2]
             string(i) == stack[args + WORD * (i - 1)][2]
  <1>11. args = argv_store
    BY <1>5, <1>10
  <1>12. \A i \in 1..argc : string(i) = string_store[i]
    BY <1>6, <1>10, <1>11
  <1> HIDE DEF args, string
  <1>13. /\ rsp \in DOMAIN stack /\ stack[rsp][1] = "pointer" /\ stack[rsp][2] = argc
         /\ rsp + WORD \in DOMAIN stack /\ stack[rsp + WORD][1] = "pointer"
    BY <1>4, <1>5, <1>10
  <1>14. \A i \in 1..argc :
           /\ args + WORD * (i - 1) \in DOMAIN stack /\ stack[args + WORD * (i - 1)][1] = "pointer"
           /\ string(i) + argv[i] \in DOMAIN stack
           /\ \A j \in 0..(argv[i] - 1) : stack[string(i) + j] = Char(i, j)
           /\ stack[string(i) + argv[i]] = Zero
    BY <1>6, <1>8, <1>9, <1>10, <1>11, <1>12
  <1>15. args + WORD * argc \in DOMAIN stack /\ stack[args + WORD * argc] = Zero
    BY <1>7, <1>11
  <1> QED  BY <1>2, <1>13, <1>14, <1>15 DEF ArgumentsArrive, args, string

(*****************************************************************************)
(* Whatever the arguments are, if they fit: a spawned program finds argc,    *)
(* argv, every string with its null and the null that ends the array where   *)
(* its entry code looks for them; nothing lies over anything else.           *)
(*****************************************************************************)
THEOREM ArgumentsDoArrive == Spec => []ArgumentsArrive
  <1>1. Init => StackPageInv
    <2> SUFFICES ASSUME Init PROVE StackPageInv
      OBVIOUS
    <2>1. stack = NoPage /\ (who = "spawn" => argv \in Arguments)
      BY DEF Init, LoaderInit
    <2> QED  BY <2>1 DEF StackPageInv
  <1>2. StackPageInv /\ [Next]_vars => StackPageInv'
    BY StackPageStep
  <1>3. StackPageInv => ArgumentsArrive
    BY ArgumentsInPlace
  <1> QED  BY <1>1, <1>2, <1>3, PTL DEF Spec

-------------------------------------------------------------------------------
(*****************************************************************************)
(* Orders.  A strict order of the places of a sequence gives each a rank,    *)
(* and each rank a place; a sequence put in order has the same members.      *)
(*****************************************************************************)
IsOrder(B, n) ==
    /\ n \in Nat /\ B \in [1..n -> SUBSET (1..n)]
    /\ \A k \in 1..n : k \notin B[k]
    /\ \A k, l \in 1..n : k \in B[l] => B[k] \subseteq B[l]
    /\ \A k, l \in 1..n : k = l \/ k \in B[l] \/ l \in B[k]

LEMMA Ranking ==
    ASSUME NEW n, NEW B, IsOrder(B, n)
    PROVE  /\ \A i \in 1..n : \E k \in 1..n : Cardinality(B[k]) = i - 1
           /\ \A k, l \in 1..n : Cardinality(B[k]) = Cardinality(B[l]) => k = l
  <1> USE DEF IsOrder
  <1>1. IsFiniteSet(1..n) /\ Cardinality(1..n) = n
    <2>1. 1 \in Int /\ n \in Int
      OBVIOUS
    <2>2. IsFiniteSet(1..n) /\ Cardinality(1..n) = IF 1 > n THEN 0 ELSE n - 1 + 1
      BY <2>1, FS_Interval
    <2> QED  BY <2>2
  <1>2. \A k \in 1..n : IsFiniteSet(B[k]) /\ Cardinality(B[k]) \in Nat
    <2> SUFFICES ASSUME NEW k \in 1..n PROVE IsFiniteSet(B[k]) /\ Cardinality(B[k]) \in Nat
      OBVIOUS
    <2>1. IsFiniteSet(B[k])
      BY <1>1, FS_Subset
    <2> QED  BY <2>1, FS_CardinalityType
  <1>3. \A k, l \in 1..n : k \in B[l] => Cardinality(B[k]) < Cardinality(B[l])
    <2> SUFFICES ASSUME NEW k \in 1..n, NEW l \in 1..n, k \in B[l]
                 PROVE  Cardinality(B[k]) < Cardinality(B[l])
      OBVIOUS
    <2> DEFINE X == B[k]
               Y == B[l]
    <2>1. X \subseteq Y \ {k} /\ k \in Y /\ IsFiniteSet(Y) /\ Cardinality(Y) \in Nat /\ Cardinality(X) \in Nat
      BY <1>2
    <2> HIDE DEF X, Y
    <2>2. IsFiniteSet(Y \ {k}) /\ Cardinality(Y \ {k}) = Cardinality(Y) - 1
      BY <2>1, FS_RemoveElement
    <2>3. Cardinality(X) <= Cardinality(Y \ {k})
      BY <2>1, <2>2, FS_Subset
    <2>4. Cardinality(X) < Cardinality(Y)
      BY <2>1, <2>2, <2>3
    <2> QED  BY <2>4 DEF X, Y
  <1>4. \A k, l \in 1..n : Cardinality(B[k]) = Cardinality(B[l]) => k = l
    <2> SUFFICES ASSUME NEW k \in 1..n, NEW l \in 1..n, Cardinality(B[k]) = Cardinality(B[l]) PROVE k = l
      OBVIOUS
    <2>1. Cardinality(B[k]) \in Nat
      BY <1>2
    <2>2. k \notin B[l] /\ l \notin B[k]
      BY <1>3, <2>1
    <2> QED  BY <2>2
  <1>5. \A k \in 1..n : Cardinality(B[k]) < n
    <2> SUFFICES ASSUME NEW k \in 1..n PROVE Cardinality(B[k]) < n
      OBVIOUS
    <2> DEFINE X == B[k]
    <2>1. X \subseteq (1..n) \ {k} /\ Cardinality(X) \in Nat
      BY <1>2
    <2> HIDE DEF X
    <2> DEFINE Z == (1..n) \ {k}
    <2>2. IsFiniteSet(Z) /\ Cardinality(Z) = n - 1 /\ X \in SUBSET Z
      BY <1>1, <2>1, FS_RemoveElement
    <2> HIDE DEF Z
    <2>3. Cardinality(X) <= n - 1
      <3>1. Cardinality(X) <= Cardinality(Z)
        BY <2>2, FS_Subset
      <3> QED  BY <2>2, <3>1
    <2> QED  BY <2>1, <2>3 DEF X
  <1> DEFINE T == 0..(n - 1)
             f == [k \in 1..n |-> Cardinality(B[k])]
  <1>6. IsFiniteSet(T) /\ Cardinality(T) = n
    <2>1. 0 \in Int /\ n - 1 \in Int
      OBVIOUS
    <2>2. IsFiniteSet(0..(n - 1)) /\ Cardinality(0..(n - 1)) = IF 0 > n - 1 THEN 0 ELSE n - 1 - 0 + 1
      BY <2>1, FS_Interval
    <2> QED  BY <2>2
  <1>7. f \in Injection(1..n, T)
    <2>1. f \in [1..n -> T]
      BY <1>2, <1>5
    <2>2. \A k, l \in 1..n : f[k] = f[l] => k = l
      BY <1>4
    <2> HIDE DEF f, T
    <2> QED  BY <2>1, <2>2 DEF Injection, IsInjective
  <1>8. f \in Surjection(1..n, T)
    <2> HIDE DEF f, T
    <2> QED  BY <1>1, <1>6, <1>7, FS_Injection
  <1>9. ASSUME NEW i \in 1..n PROVE \E k \in 1..n : Cardinality(B[k]) = i - 1
    <2>1. i - 1 \in T
      OBVIOUS
    <2>2. \E k \in 1..n : f[k] = i - 1
      <3> HIDE DEF f, T
      <3> QED  BY <1>8, <2>1 DEF Surjection
    <2> QED  BY <2>2
  <1> QED  BY <1>4, <1>9

Distinct(s) == \A i, j \in DOMAIN s : s[i] = s[j] => i = j

Within(t, s) == \A i \in DOMAIN t : \E k \in DOMAIN s : t[i] = s[k]
Ranks(rank, s, B) == rank = [k \in DOMAIN s |-> Cardinality(B[k])]
Sorts(t, s, rank) == t = [i \in DOMAIN s |-> s[CHOOSE k \in DOMAIN s : rank[k] = i - 1]]

LEMMA FunctionIsSeq ==
    ASSUME NEW V, NEW n \in Nat, NEW t \in [1..n -> V]
    PROVE  t \in Seq(V) /\ Len(t) = n /\ DOMAIN t = 1..n
  OBVIOUS

LEMMA Reordered ==
    ASSUME NEW V, NEW s \in Seq(V), NEW B, IsOrder(B, Len(s)),
           NEW rank, Ranks(rank, s, B), NEW t, Sorts(t, s, rank)
    PROVE  /\ t \in Seq(V) /\ Len(t) = Len(s)
           /\ Within(t, s)
           /\ Distinct(s) => Distinct(t)
  <1> DEFINE n == Len(s)
             c(i) == CHOOSE k \in 1..n : rank[k] = i - 1
  <1>1. n \in Nat /\ DOMAIN s = 1..n /\ \A k \in 1..n : s[k] \in V
    OBVIOUS
  <1>2. \A i \in 1..n : c(i) \in 1..n /\ Cardinality(B[c(i)]) = i - 1
    <2>1. \A i \in 1..n : \E k \in 1..n : Cardinality(B[k]) = i - 1
      BY Ranking
    <2>2. \A k \in 1..n : rank[k] = Cardinality(B[k])
      BY <1>1 DEF Ranks
    <2> QED  BY <2>1, <2>2
  <1>3. t = [i \in 1..n |-> s[c(i)]]
    BY <1>1 DEF Sorts
  <1> HIDE DEF c
  <1>4. t \in Seq(V) /\ Len(t) = n /\ DOMAIN t = 1..n
    <2>1. t \in [1..n -> V]
      BY <1>1, <1>2, <1>3
    <2> HIDE DEF n
    <2> QED  BY <1>1, <2>1, FunctionIsSeq
  <1>5. \A i \in 1..n : t[i] = s[c(i)]
    BY <1>3
  <1>6. Distinct(s) => Distinct(t)
    <2> SUFFICES ASSUME Distinct(s), NEW i \in 1..n, NEW j \in 1..n, t[i] = t[j] PROVE i = j
      BY <1>4 DEF Distinct
    <2>1. c(i) = c(j)
      <3>1. c(i) \in DOMAIN s /\ c(j) \in DOMAIN s
        BY <1>1, <1>2
      <3>2. s[c(i)] = s[c(j)]
        BY <1>5
      <3> QED  BY <3>1, <3>2 DEF Distinct
    <2>2. i - 1 = j - 1
      BY <1>2, <2>1
    <2> QED  BY <2>2
  <1>7. Within(t, s)
    BY <1>1, <1>2, <1>4, <1>5 DEF Within
  <1> QED  BY <1>4, <1>6, <1>7

-------------------------------------------------------------------------------
(*****************************************************************************)
(* The memory map and what it comes to.                                      *)
(*****************************************************************************)
MapInv ==
    /\ machine \in Machines /\ turn \in Nat
    /\ mmap \in Seq(MapEntry)
    /\ stage = "sanitize" => turn >= 2
    /\ stage \in {"detect", "alloc", "page_init", "map"} => turn >= 1

LEMMA RestrictiveType ==
    ASSUME NEW t1 \in {Restrictive[i] : i \in 1..5}, NEW t2 \in {Restrictive[i] : i \in 1..5}
    PROVE  restrictive_type(t1, t2) \in {Restrictive[i] : i \in 1..5}
  <1> DEFINE S == {i \in 1..5 : Restrictive[i] \in {t1, t2}}
             P(i) == Restrictive[i] \in {t1, t2} /\ \A j \in 1..(i - 1) : Restrictive[j] \notin {t1, t2}
  <1>1. S \in SUBSET Nat /\ S # {}
    OBVIOUS
  <1>2. PICK m \in S : \A k \in S : m <= k
    <2> HIDE DEF S
    <2> QED  BY <1>1, LeastNatural
  <1>3. m \in 1..5 /\ P(m)
    BY <1>2
  <1>4. (CHOOSE i \in 1..5 : P(i)) \in 1..5
    <2> HIDE DEF P
    <2> QED  BY <1>3
  <1> QED  BY <1>4 DEF restrictive_type

LEMMA SortedMapIsMap ==
    ASSUME NEW map \in Seq(MapEntry)
    PROVE  SortedMap(map) \in Seq(MapEntry)
  <1> DEFINE n == Len(map)
             before(j, k) == map[j].addr < map[k].addr \/ (map[j].addr = map[k].addr /\ j < k)
             B == [k \in 1..n |-> {j \in 1..n : before(j, k)}]
  <1>1. n \in Nat /\ DOMAIN map = 1..n /\ \A k \in 1..n : map[k].addr \in Nat
    <2>1. n \in Nat /\ DOMAIN map = 1..n /\ \A k \in 1..n : map[k] \in MapEntry
      OBVIOUS
    <2> QED  BY <2>1 DEF MapEntry
  <1>2. /\ \A k \in 1..n : ~before(k, k)
        /\ \A j, k, l \in 1..n : before(j, k) /\ before(k, l) => before(j, l)
        /\ \A k, l \in 1..n : k = l \/ before(k, l) \/ before(l, k)
    BY <1>1
  <1>3. IsOrder(B, n)
    <2> HIDE DEF before
    <2> QED  BY <1>1, <1>2 DEF IsOrder
  <1> DEFINE rank == [k \in DOMAIN map |-> Cardinality({j \in DOMAIN map : before(j, k)})]
  <1> DEFINE t == SortedMap(map)
  <1>4. Sorts(t, map, rank)
    BY DEF SortedMap, InOrder, Sorts
  <1>5. Ranks(rank, map, B)
    <2>1. rank = [k \in DOMAIN map |-> Cardinality(B[k])]
      <3> HIDE DEF before
      <3> QED  BY <1>1
    <2> HIDE DEF B, rank
    <2> QED  BY <2>1 DEF Ranks
  <1>6. IsOrder(B, Len(map))
    BY <1>3
  <1> HIDE DEF B, rank, t
  <1>7. t \in Seq(MapEntry)
    BY <1>4, <1>5, <1>6, Reordered
  <1> QED  BY <1>7 DEF t

LEMMA MultibootSum ==
    ASSUME mmap \in Seq(MapEntry), NEW low \in BOOLEAN
    PROVE  multiboot_read(low) \in Nat
  <1> DEFINE L == Len(mmap)
             part(n) == IF Counts(mmap[n], low) THEN mmap[n].len ELSE 0
             step == [x \in (1..L) \X Nat |-> x[2] + part(x[1])]
             Fits(f) == f = [n \in 0..L |-> IF n = 0 THEN 0 ELSE f[n - 1] + part(n)]
             sum == CHOOSE f : Fits(f)
  <1>1. L \in Nat /\ \A n \in 1..L : part(n) \in Nat
    <2>1. L \in Nat /\ \A n \in 1..L : mmap[n] \in MapEntry
      OBVIOUS
    <2>2. \A n \in 1..L : mmap[n].len \in Nat
      BY <2>1 DEF MapEntry
    <2> QED  BY <2>1, <2>2
  <1>2. multiboot_read(low) = sum[L]
    BY DEF multiboot_read
  <1> HIDE DEF part
  <1>3. IsStep(step, L, Nat)
    BY <1>1 DEF IsStep
  <1>4. \E f : Recurs(f, L, Nat, 0, step)
    <2> HIDE DEF L, step
    <2> QED  BY <1>1, <1>3, RecursionUpTo
  <1>5. PICK f \in [0..L -> Nat] : f[0] = 0 /\ \A k \in 1..L : f[k] = step[<<k, f[k - 1]>>]
    BY <1>4 DEF Recurs
  <1>6. \A k \in 1..L : f[k] = f[k - 1] + part(k)
    <2> SUFFICES ASSUME NEW k \in 1..L PROVE f[k] = f[k - 1] + part(k)
      OBVIOUS
    <2>1. f[k - 1] \in Nat
      BY <1>1, SMTT(60)
    <2>2. f[k] = step[<<k, f[k - 1]>>]
      BY <1>5
    <2> QED  BY <2>1, <2>2
  <1>7. Fits(f)
    <2>1. f = [k \in 0..L |-> f[k]]
      OBVIOUS
    <2>2. \A k \in 0..L : f[k] = IF k = 0 THEN 0 ELSE f[k - 1] + part(k)
      BY <1>1, <1>5, <1>6
    <2> QED  BY <2>1, <2>2
  <1>8. Fits(sum)
    <2> HIDE DEF Fits
    <2> QED  BY <1>7
  <1> HIDE DEF sum
  <1>9. sum[0] = 0 /\ \A k \in 1..L : sum[k] = sum[k - 1] + part(k)
    <2> DEFINE body(k) == IF k = 0 THEN 0 ELSE sum[k - 1] + part(k)
    <2>1. sum = [k \in 0..L |-> body(k)]
      BY <1>8
    <2>2. \A k \in 0..L : sum[k] = body(k)
      <3> HIDE DEF body
      <3> QED  BY <2>1
    <2> QED  BY <1>1, <2>2
  <1> DEFINE S == {k \in Nat : k <= L => sum[k] \in Nat}
  <1>10. Nat \subseteq S
    <2> HIDE DEF L
    <2>1. 0 \in S
      BY <1>9
    <2>2. \A k \in S : k + 1 \in S
      <3> SUFFICES ASSUME NEW k \in S, k + 1 <= L PROVE sum[k + 1] \in Nat
        OBVIOUS
      <3>1. k + 1 \in 1..L /\ sum[k] \in Nat /\ (k + 1) - 1 = k
        BY <1>1
      <3>2. sum[k + 1] = sum[k] + part(k + 1)
        BY <1>9, <3>1
      <3> QED  BY <1>1, <3>1, <3>2
    <2>3. S \in SUBSET Nat
      OBVIOUS
    <2> HIDE DEF S
    <2> QED  BY <2>1, <2>2, <2>3, NatSetInduction
  <1> QED  BY <1>1, <1>2, <1>10

LEMMA Halves ==
    ASSUME NEW a \in Nat, NEW n \in Nat \ {0}
    PROVE  a \div n \in Nat
  OBVIOUS

LEMMA Detected ==
    ASSUME MapInv
    PROVE  /\ basemem \in Nat /\ basemem \div UNITS \in Nat /\ npages_extmem \in Nat
           /\ \A n \in Nat : Limited(n) \in Nat
  <1>1. mmap \in Seq(MapEntry) /\ machine \in Machines
    BY DEF MapInv
  <1>2. machine.nvram.base \in Nat /\ machine.nvram.ext \in Nat /\ machine.nvram.ext16 \in Nat
    BY <1>1, BootAssumption
  <1>3. multiboot_read(TRUE) \in Nat /\ multiboot_read(FALSE) \in Nat
    BY <1>1, MultibootSum
  <1>4. UNITS \in Nat \ {0} /\ MaxPages \in Nat /\ Spare \in Nat /\ Spare <= MaxPages
    BY BootAssumption
  <1>5. basemem \in Nat
    BY <1>2, <1>3 DEF basemem
  <1>6. basemem \div UNITS \in Nat
    BY <1>4, <1>5, Halves
  <1>7. npages_extmem \in Nat
    <2> DEFINE x == IF machine.nvram.ext = More THEN machine.nvram.ext16
                    ELSE IF mmap # <<>> THEN multiboot_read(FALSE) ELSE machine.nvram.ext
    <2>1. x \in Nat
      BY <1>2, <1>3
    <2>2. npages_extmem = x \div UNITS
      BY DEF npages_extmem
    <2> HIDE DEF x
    <2> QED  BY <1>4, <2>1, <2>2, Halves
  <1>8. \A n \in Nat : Limited(n) \in Nat
    BY <1>4 DEF Limited
  <1> QED  BY <1>5, <1>6, <1>7, <1>8

\* One turn of sanitizing leaves entries of a map.
LEMMA SanitizedMap ==
    ASSUME MapInv, sanitize, turn <= Len(mmap)
    PROVE  mmap' \in Seq(MapEntry)
  <1> DEFINE n == Len(mmap)
             prev == mmap[turn - 1]
             this == mmap[turn]
             type == restrictive_type(prev.type, this.type)
             Types == {Restrictive[i] : i \in 1..5}
  <1>1. n \in Nat /\ mmap \in [1..n -> MapEntry] /\ turn \in 1..n /\ turn - 1 \in 1..n /\ turn - 1 # turn
    BY DEF MapInv, sanitize
  <1>2. prev \in MapEntry /\ this \in MapEntry
    BY <1>1
  <1>3. /\ prev.addr \in Nat /\ prev.len \in Nat /\ prev.type \in Types
        /\ this.addr \in Nat /\ this.len \in Nat /\ this.type \in Types
        /\ prev = [addr |-> prev.addr, len |-> prev.len, type |-> prev.type]
        /\ this = [addr |-> this.addr, len |-> this.len, type |-> this.type]
    <2> HIDE DEF prev, this
    <2> QED  BY <1>2 DEF MapEntry
  <1>4. type \in Types
    <2> HIDE DEF prev, this
    <2> QED  BY <1>3, RestrictiveType
  <1> DEFINE p1 == [prev EXCEPT !.len = 0]
             t1 == [prev EXCEPT !.len = prev.len + this.len]
             p2 == [prev EXCEPT !.type = type]
             t2 == [this EXCEPT !.type = type]
  <1>5. \/ mmap' = [mmap EXCEPT ![turn - 1] = p1, ![turn] = t1]
        \/ mmap' = [mmap EXCEPT ![turn - 1] = p2, ![turn] = t2]
        \/ mmap' = mmap
    BY DEF sanitize
  <1>6. p1 \in MapEntry /\ t1 \in MapEntry /\ p2 \in MapEntry /\ t2 \in MapEntry
    <2> HIDE DEF prev, this, type
    <2>1. p1 \in MapEntry
      BY <1>2, <1>3 DEF MapEntry
    <2>2. p2 \in MapEntry
      BY <1>2, <1>3, <1>4 DEF MapEntry
    <2>3. t2 \in MapEntry
      BY <1>2, <1>3, <1>4 DEF MapEntry
    <2>4. t1 \in MapEntry
      BY <1>2, <1>3, SMTT(60) DEF MapEntry
    <2> QED  BY <2>1, <2>2, <2>3, <2>4
  <1> HIDE DEF p1, t1, p2, t2
  <1>7. mmap' # mmap => mmap' \in [1..n -> MapEntry]
    BY <1>1, <1>5, <1>6
  <1>8. CASE mmap' = mmap
    BY <1>8 DEF MapInv
  <1> QED  BY <1>1, <1>7, <1>8, FunctionIsSeq

-------------------------------------------------------------------------------
(*****************************************************************************)
(* The list of free pages.  It is made once, from numbers that do not change *)
(* any more; everything else only takes from it or changes its order.        *)
(*****************************************************************************)
BeforeList == {"start", "sanitize", "detect", "alloc", "page_init"}
Freeable == (1..(MPENTRY - 1)) \cup ((npages_basemem + (EXTPHYSMEM - IOPHYSMEM) + nextfree)..(npages - 1))
ListInv ==
    /\ npages \in Nat /\ npages_basemem \in Nat /\ nextfree \in Nat /\ nextfree >= KernelEnd
    /\ stage \in BeforeList => page_free_list = <<>> /\ lost = {}
    /\ page_free_list \in Seq(Freeable) /\ Distinct(page_free_list)
    /\ \A i \in DOMAIN page_free_list : page_free_list[i] \notin lost
FreeInv == MapInv /\ ListInv

LEMMA Divided ==
    ASSUME NEW a \in Nat, NEW n \in Nat \ {0}
    PROVE  CeilDiv(a, n) \in Nat
  <1> DEFINE x == a + n - 1
  <1>1. x \in Nat
    OBVIOUS
  <1>2. CeilDiv(a, n) = x \div n
    BY DEF CeilDiv
  <1> HIDE DEF x
  <1> QED  BY <1>1, <1>2, Halves

\* A sequence without its first n members.
LEMMA TailOf ==
    ASSUME NEW V, NEW s \in Seq(V), NEW n \in Nat, NEW t, t = SubSeq(s, n + 1, Len(s))
    PROVE  /\ t \in Seq(V) /\ DOMAIN t = 1..Len(t) /\ Len(t) \in Nat
           /\ \A i \in DOMAIN t : i + n \in DOMAIN s /\ t[i] = s[i + n]
           /\ Within(t, s)
  <1>1. Len(s) \in Nat /\ DOMAIN s = 1..Len(s)
    OBVIOUS
  <1> DEFINE l == Len(s)
             m == n + 1
  <1>2. l \in Int /\ m \in Int /\ \A i \in m..l : s[i] \in V
    BY <1>1
  <1> HIDE DEF l, m
  <1>3. /\ SubSeq(s, m, l) \in Seq(V)
        /\ Len(SubSeq(s, m, l)) = IF m <= l THEN l - m + 1 ELSE 0
        /\ \A i \in 1..(l - m + 1) : SubSeq(s, m, l)[i] = s[m + i - 1]
    BY <1>2, SubSeqProperties
  <1>5. t = SubSeq(s, m, l) /\ m = n + 1 /\ l = Len(s)
    BY DEF l, m
  <1>6. t \in Seq(V) /\ DOMAIN t = 1..Len(t) /\ Len(t) \in Nat
    BY <1>3, <1>5
  <1>7. Len(t) = IF n < l THEN l - n ELSE 0
    BY <1>1, <1>3, <1>5
  <1>8. \A i \in DOMAIN t : i \in Nat /\ i + n \in DOMAIN s /\ t[i] = s[i + n]
    <2> SUFFICES ASSUME NEW i \in DOMAIN t PROVE i \in Nat /\ i + n \in DOMAIN s /\ t[i] = s[i + n]
      OBVIOUS
    <2>1. i \in Nat /\ i >= 1 /\ n < l /\ i <= l - n
      <3> DEFINE k == Len(t)
      <3>1. i \in 1..k /\ k \in Nat /\ k = IF n < l THEN l - n ELSE 0
        BY <1>6, <1>7
      <3> HIDE DEF k
      <3> QED  BY <1>2, <3>1
    <2>2. i \in 1..(l - m + 1) /\ m + i - 1 = i + n /\ i + n \in 1..l
      BY <1>1, <1>5, <2>1
    <2>3. t[i] = s[m + i - 1]
      BY <1>3, <1>5, <2>2
    <2> QED  BY <1>1, <1>5, <2>1, <2>2, <2>3
  <1>9. Within(t, s)
    BY <1>8 DEF Within
  <1> QED  BY <1>6, <1>8, <1>9

LEMMA TailDistinct ==
    ASSUME NEW V, NEW s \in Seq(V), NEW n \in Nat, NEW t, t = SubSeq(s, n + 1, Len(s)), Distinct(s)
    PROVE  Distinct(t)
  <1>1. \A i \in DOMAIN t : i + n \in DOMAIN s /\ t[i] = s[i + n]
    BY TailOf
  <1>2. DOMAIN t = 1..Len(t) /\ Len(t) \in Nat
    BY TailOf
  <1> SUFFICES ASSUME NEW i \in DOMAIN t, NEW j \in DOMAIN t, t[i] = t[j] PROVE i = j
    BY DEF Distinct
  <1>3. i + n \in DOMAIN s /\ j + n \in DOMAIN s /\ s[i + n] = s[j + n] /\ i \in Nat /\ j \in Nat
    BY <1>1, <1>2
  <1>4. i + n = j + n
    BY <1>3 DEF Distinct
  <1> QED  BY <1>3, <1>4

\* The page tables that a region needs can be counted.
LEMMA WalkCount ==
    ASSUME NEW r, r.va \in Int, r.size \in Int
    PROVE  Cardinality(pml4e_walk(r)) \in Nat
  <1> DEFINE I == r.va..(r.va + r.size - 1)
             f1 == [v \in I |-> <<1, v \div TABLE>>]
             f2 == [v \in I |-> <<2, v \div TABLE2>>]
             f3 == [v \in I |-> <<3, v \div (TABLE * TABLE2)>>]
             T1 == {f1[v] : v \in I}
             T2 == {f2[v] : v \in I}
             T3 == {f3[v] : v \in I}
  <1>1. IsFiniteSet(I)
    BY FS_Interval
  <1>2. ASSUME NEW S, NEW f, IsFiniteSet(S), f = [v \in S |-> f[v]] PROVE IsFiniteSet({f[v] : v \in S})
    <2> DEFINE T == {f[v] : v \in S}
    <2>1. f \in Surjection(S, T)
      BY <1>2 DEF Surjection
    <2> HIDE DEF T
    <2>2. IsFiniteSet(T)
      BY <1>2, <2>1, FS_Surjection
    <2> QED  BY <2>2 DEF T
  <1>3. f1 = [v \in I |-> f1[v]] /\ f2 = [v \in I |-> f2[v]] /\ f3 = [v \in I |-> f3[v]]
    OBVIOUS
  <1>4. pml4e_walk(r) \subseteq (T1 \cup T2) \cup T3
    BY DEF pml4e_walk
  <1> HIDE DEF f1, f2, f3, I
  <1>5. IsFiniteSet(T1) /\ IsFiniteSet(T2) /\ IsFiniteSet(T3)
    BY <1>1, <1>2, <1>3
  <1> HIDE DEF T1, T2, T3
  <1>6. IsFiniteSet((T1 \cup T2) \cup T3)
    BY <1>5, FS_Union
  <1>7. IsFiniteSet(pml4e_walk(r))
    BY <1>4, <1>6, FS_Subset
  <1> QED  BY <1>7, FS_CardinalityType

LEMMA RegionTyped ==
    ASSUME npages \in Nat
    PROVE  /\ Len(x64_vm_init) \in Nat
           /\ \A k \in 1..Len(x64_vm_init) : x64_vm_init[k].va \in Int /\ x64_vm_init[k].size \in Int
  <1> DEFINE V == [va : Int, size : Int, pa : Int]
             c == CeilDiv(npages, INFOS)
  <1>1. /\ NCPU \in Nat /\ KERNBASE \in Nat /\ KSTKSIZE \in Nat /\ KSTKGAP \in Nat /\ KStacks \in Nat
        /\ UPAGES \in Nat /\ UENVS \in Nat /\ ENVPAGES \in Nat /\ KernelEnd \in Nat /\ INFOS \in Nat \ {0}
    BY BootAssumption
  <1>2. c \in Nat
    BY <1>1, Divided
  <1>3. pages \in Nat /\ envs \in Nat
    <2>1. pages \in Nat /\ envs = pages + c
      BY <1>1 DEF pages, envs
    <2> HIDE DEF c
    <2> QED  BY <1>2, <2>1
  <1>4. mem_init_mp \in Seq(V)
    <2>1. \A i \in 1..NCPU : (i - 1) * (KSTKSIZE + KSTKGAP) \in Int /\ (i - 1) * KSTKSIZE \in Int
      BY <1>1
    <2>2. \A i \in 1..NCPU : Region(kstacktop(i - 1) - KSTKSIZE, KSTKSIZE, KStacks + (i - 1) * KSTKSIZE) \in V
      BY <1>1, <2>1 DEF Region, kstacktop
    <2>3. mem_init_mp \in [1..NCPU -> V]
      BY <2>2 DEF mem_init_mp
    <2> QED  BY <1>1, <2>3, FunctionIsSeq
  <1> DEFINE five == <<Region(UPAGES, c, pages), Region(KERNBASE + pages, 1, pages), Region(UENVS, ENVPAGES, envs),
                       Region(KERNBASE - KSTKSIZE, KSTKSIZE, KStacks + NCPU * KSTKSIZE), Region(KERNBASE, npages, 0)>>
  <1>5. five \in Seq(V)
    <2>1. NCPU * KSTKSIZE \in Int
      BY <1>1
    <2> HIDE DEF c
    <2>2. Region(UPAGES, c, pages) \in V /\ Region(KERNBASE + pages, 1, pages) \in V /\ Region(UENVS, ENVPAGES, envs) \in V
      BY <1>1, <1>2, <1>3 DEF Region
    <2>3. Region(KERNBASE - KSTKSIZE, KSTKSIZE, KStacks + NCPU * KSTKSIZE) \in V /\ Region(KERNBASE, npages, 0) \in V
      BY <1>1, <2>1 DEF Region
    <2> HIDE DEF V
    <2> QED  BY <2>2, <2>3
  <1>6. x64_vm_init = five \o mem_init_mp
    BY DEF x64_vm_init
  <1>7. x64_vm_init \in Seq(V)
    <2> HIDE DEF five, V
    <2> QED  BY <1>4, <1>5, <1>6
  <1>8. Len(x64_vm_init) \in Nat /\ \A k \in 1..Len(x64_vm_init) : x64_vm_init[k] \in V
    <2> HIDE DEF V
    <2> QED  BY <1>7
  <1> QED  BY <1>8

LEMMA MapStep ==
    ASSUME MapInv, [Next]_vars
    PROVE  MapInv'
  <1>0. turn \in Nat /\ mmap \in Seq(MapEntry) /\ machine \in Machines
    BY DEF MapInv
  <1>1. CASE UNCHANGED bootVars
    BY <1>1 DEF MapInv, bootVars
  <1>2. CASE do_e820
    <2>1. /\ mmap' = (IF Len(machine.e820) > 1 THEN SortedMap(machine.e820) ELSE <<>>)
          /\ turn' = 2 /\ stage' = "sanitize" /\ machine' = machine
      BY <1>2 DEF do_e820
    <2>2. mmap' \in Seq(MapEntry)
      <3>1. machine.e820 \in Seq(MapEntry)
        BY <1>0, BootAssumption
      <3>2. SortedMap(machine.e820) \in Seq(MapEntry)
        BY <3>1, SortedMapIsMap
      <3> QED  BY <2>1, <3>2
    <2> QED  BY <1>0, <2>1, <2>2 DEF MapInv
  <1>3. CASE sanitize
    <2>1. stage = "sanitize" /\ machine' = machine
      BY <1>3 DEF sanitize
    <2>2. CASE turn > Len(mmap)
      <3>1. stage' = "detect" /\ turn' = 1 /\ mmap' = mmap
        BY <1>3, <2>2 DEF sanitize
      <3> QED  BY <1>0, <2>1, <3>1 DEF MapInv
    <2>3. CASE ~(turn > Len(mmap))
      <3>1. turn' = turn + 1 /\ stage' = stage
        BY <1>3, <2>3 DEF sanitize
      <3>2. turn <= Len(mmap)
        BY <1>0, <2>3
      <3>3. mmap' \in Seq(MapEntry)
        BY <1>3, <3>2, SanitizedMap
      <3>4. turn >= 2
        BY <2>1 DEF MapInv
      <3> QED  BY <1>0, <2>1, <3>1, <3>3, <3>4 DEF MapInv
    <2> QED  BY <2>2, <2>3
  <1>4. CASE i386_detect_memory \/ boot_alloc \/ page_init
    <2>1. /\ stage \in {"detect", "alloc", "page_init"} /\ stage' # "sanitize"
          /\ mmap' = mmap /\ turn' = turn /\ machine' = machine
      BY <1>4 DEF i386_detect_memory, boot_alloc, page_init, Panic
    <2> QED  BY <2>1 DEF MapInv
  <1>5. CASE map_regions
    <2>1. /\ stage = "map" /\ mmap' = mmap /\ machine' = machine
          /\ stage' \in {"map", "panic", "fault", "check_low"}
          /\ \/ turn' = turn + 1
             \/ stage' = "check_low" /\ turn' = 0
      BY <1>5 DEF map_regions, boot_map_region, Panic
    <2> QED  BY <1>0, <2>1 DEF MapInv
  <1>6. CASE check_page_free_list \/ check_page_alloc \/ page_check \/ check_boot_pml4e \/ mp_init \/ lapic_init
    <2>1. /\ mmap' = mmap /\ turn' = turn /\ machine' = machine
          /\ stage' \notin {"sanitize", "detect", "alloc", "page_init", "map"}
      BY <1>6 DEF check_page_free_list, check_page_alloc, page_check, check_boot_pml4e, mp_init, lapic_init, Panic
    <2> QED  BY <2>1 DEF MapInv
  <1>7. CASE boot_aps \/ boot_wait
    <2>1. /\ mmap' = mmap /\ turn' \in {turn, turn + 1} /\ machine' = machine
          /\ stage' \notin {"sanitize", "detect", "alloc", "page_init", "map"}
      BY <1>7 DEF boot_aps, boot_wait
    <2> QED  BY <1>0, <2>1 DEF MapInv
  <1>8. CASE \E p \in ApicIds : OtherProcessor(p)
    <2>1. /\ mmap' = mmap /\ turn' = turn /\ machine' = machine /\ stage' \in {stage, "panic"}
      BY <1>8 DEF OtherProcessor, mpentry_start, mp_main, mp_started, Panic
    <2> QED  BY <2>1 DEF MapInv
  <1> QED  BY <1>1, <1>2, <1>3, <1>4, <1>5, <1>6, <1>7, <1>8
           DEF Next, Load, Start, StartOther, vars, BootProcessor

\* What a step needs to show when the list exists.
LEMMA ListAgain ==
    ASSUME ListInv, npages' = npages, npages_basemem' = npages_basemem, nextfree' = nextfree,
           stage' \notin BeforeList,
           page_free_list' \in Seq(Freeable), Distinct(page_free_list'),
           \A i \in DOMAIN page_free_list' : page_free_list'[i] \notin lost'
    PROVE  ListInv'
  <1>1. Freeable' = Freeable
    BY DEF Freeable
  <1> QED  BY <1>1 DEF ListInv, BeforeList

\* The list may lose its first pages.
LEMMA ListTaken ==
    ASSUME ListInv, npages' = npages, npages_basemem' = npages_basemem, nextfree' = nextfree, lost' = lost,
           stage' \notin BeforeList, NEW n \in Nat,
           page_free_list' = SubSeq(page_free_list, n + 1, Len(page_free_list))
    PROVE  ListInv'
  <1> DEFINE s == page_free_list
             t == page_free_list'
  <1>1. s \in Seq(Freeable) /\ Distinct(s) /\ \A i \in DOMAIN s : s[i] \notin lost
    BY DEF ListInv
  <1>2. /\ t \in Seq(Freeable) /\ Distinct(t) /\ Within(t, s)
    <2>1. t = SubSeq(s, n + 1, Len(s))
      OBVIOUS
    <2>2. s \in Seq(Freeable) /\ Distinct(s)
      BY <1>1
    <2> HIDE DEF s, t
    <2>3. t \in Seq(Freeable)
      BY <2>1, <2>2, TailOf
    <2>4. Distinct(t)
      BY <2>1, <2>2, TailDistinct, ZenonT(60)
    <2>5. Within(t, s)
      BY <2>1, <2>2, TailOf
    <2> QED  BY <2>3, <2>4, <2>5
  <1>3. \A i \in DOMAIN t : t[i] \notin lost'
    BY <1>1, <1>2 DEF Within
  <1> QED  BY <1>2, <1>3, ListAgain

\* A step that leaves memory alone.
LEMMA ListSame ==
    ASSUME ListInv, UNCHANGED <<npages, npages_basemem, nextfree, page_free_list, lost>>,
           stage' \in BeforeList => stage \in BeforeList
    PROVE  ListInv'
  <1>1. Freeable' = Freeable
    BY DEF Freeable
  <1> QED  BY <1>1 DEF ListInv

LEMMA PushedRange ==
    ASSUME NEW a \in Int, NEW b \in Int
    PROVE  /\ Pushed(a, b) \in Seq(a..(b - 1))
           /\ Distinct(Pushed(a, b))
  <1>1. CASE b <= a
    <2>1. Pushed(a, b) = <<>>
      BY <1>1 DEF Pushed
    <2> QED  BY <2>1 DEF Distinct
  <1>2. CASE ~(b <= a)
    <2> DEFINE n == b - a
               f == [i \in 1..n |-> b - i]
    <2>1. n \in Nat /\ Pushed(a, b) = f
      BY <1>2 DEF Pushed
    <2>2. f \in [1..n -> a..(b - 1)]
      BY <1>2
    <2>3. Distinct(f)
      BY <2>1 DEF Distinct
    <2> HIDE DEF f, n
    <2> QED  BY <2>1, <2>2, <2>3, FunctionIsSeq
  <1> QED  BY <1>1, <1>2

LEMMA Joined ==
    ASSUME NEW S, NEW T, NEW s \in Seq(S), NEW t \in Seq(T), Distinct(s), Distinct(t), S \cap T = {}
    PROVE  s \o t \in Seq(S \cup T) /\ Distinct(s \o t)
  <1>1. s \in Seq(S \cup T) /\ t \in Seq(S \cup T)
    BY SeqMonotonic
  <1>2. /\ s \o t \in Seq(S \cup T) /\ Len(s \o t) = Len(s) + Len(t)
        /\ \A i \in 1..(Len(s) + Len(t)) : (s \o t)[i] = IF i <= Len(s) THEN s[i] ELSE t[i - Len(s)]
    BY <1>1, ConcatProperties
  <1> DEFINE u == s \o t
             k == Len(s)
             l == Len(t)
  <1>3. k \in Nat /\ l \in Nat /\ DOMAIN s = 1..k /\ DOMAIN t = 1..l
    OBVIOUS
  <1>4. /\ u \in Seq(S \cup T) /\ DOMAIN u = 1..(k + l)
        /\ \A i \in 1..(k + l) : u[i] = IF i <= k THEN s[i] ELSE t[i - k]
    BY <1>2, <1>3
  <1>5. (\A i \in 1..k : s[i] \in S) /\ (\A i \in 1..l : t[i] \in T)
    BY ElementOfSeq
  <1> HIDE DEF u, k, l
  <1>6. ASSUME NEW i \in 1..(k + l), NEW j \in 1..(k + l), u[i] = u[j] PROVE i = j
    <2>1. CASE i <= k /\ j <= k
      <3>1. i \in DOMAIN s /\ j \in DOMAIN s /\ s[i] = s[j]
        BY <1>3, <1>4, <1>6, <2>1
      <3> QED  BY <3>1 DEF Distinct
    <2>2. CASE ~(i <= k) /\ ~(j <= k)
      <3>1. i - k \in DOMAIN t /\ j - k \in DOMAIN t /\ t[i - k] = t[j - k]
        BY <1>3, <1>4, <1>6, <2>2
      <3>2. i - k = j - k
        BY <3>1 DEF Distinct
      <3> QED  BY <1>3, <3>2
    <2>3. CASE i <= k /\ ~(j <= k)
      <3>1. i \in 1..k /\ j - k \in 1..l
        BY <1>3, <2>3
      <3> QED  BY <1>4, <1>5, <1>6, <2>3, <3>1
    <2>4. CASE ~(i <= k) /\ j <= k
      <3>1. j \in 1..k /\ i - k \in 1..l
        BY <1>3, <2>4
      <3> QED  BY <1>4, <1>5, <1>6, <2>4, <3>1
    <2> QED  BY <2>1, <2>2, <2>3, <2>4
  <1>7. Distinct(u)
    BY <1>4, <1>6 DEF Distinct
  <1> QED  BY <1>4, <1>7 DEF u

\* The list may be put into another order.
LEMMA ListMoved ==
    ASSUME ListInv, npages' = npages, npages_basemem' = npages_basemem, nextfree' = nextfree, lost' = lost,
           stage' \notin BeforeList, page_free_list' = LowFirst
    PROVE  ListInv'
  <1> DEFINE s == page_free_list
             t == page_free_list'
             n == Len(s)
             low(i) == s[i] < TABLE
             before(j, k) == (low(j) /\ ~low(k)) \/ (low(j) = low(k) /\ j < k)
             B == [k \in 1..n |-> {j \in 1..n : before(j, k)}]
             rank == [k \in DOMAIN s |-> Cardinality({j \in DOMAIN s : before(j, k)})]
  <1>1. s \in Seq(Freeable) /\ Distinct(s) /\ \A i \in DOMAIN s : s[i] \notin lost
    BY DEF ListInv
  <1>2. n \in Nat /\ DOMAIN s = 1..n
    BY <1>1
  <1>3. IsOrder(B, n)
    <2> DEFINE L == [i \in 1..n |-> low(i)]
    <2>0. \A i \in 1..n : L[i] \in BOOLEAN /\ L[i] = low(i)
      OBVIOUS
    <2>1. \A j, k \in 1..n : before(j, k) <=> (low(j) /\ ~low(k)) \/ ((low(j) <=> low(k)) /\ j < k)
      OBVIOUS
    <2> HIDE DEF low
    <2>2. /\ \A k \in 1..n : ~before(k, k)
          /\ \A j, k, l \in 1..n : before(j, k) /\ before(k, l) => before(j, l)
          /\ \A k, l \in 1..n : k = l \/ before(k, l) \/ before(l, k)
      <3> HIDE DEF before
      <3>1. \A k \in 1..n : ~before(k, k)
        BY <1>2, <2>1
      <3>2. \A j, k, l \in 1..n : before(j, k) /\ before(k, l) => before(j, l)
        BY <1>2, <2>1
      <3>3. \A k, l \in 1..n : k = l \/ before(k, l) \/ before(l, k)
        BY <1>2, <2>1
      <3> QED  BY <3>1, <3>2, <3>3
    <2> HIDE DEF before
    <2> QED  BY <1>2, <2>2 DEF IsOrder
  <1>4. Sorts(t, s, rank)
    BY DEF LowFirst, InOrder, Sorts
  <1>5. Ranks(rank, s, B)
    <2>1. rank = [k \in DOMAIN s |-> Cardinality(B[k])]
      <3> HIDE DEF before
      <3> QED  BY <1>2
    <2> HIDE DEF B, rank
    <2> QED  BY <2>1 DEF Ranks
  <1>6. IsOrder(B, Len(s))
    BY <1>3
  <1>7. s \in Seq(Freeable) /\ Distinct(s)
    BY <1>1
  <1>8. t \in Seq(Freeable) /\ Distinct(t) /\ Within(t, s)
    <2> HIDE DEF B, rank, s, t
    <2>1. t \in Seq(Freeable)
      BY <1>4, <1>5, <1>6, <1>7, Reordered
    <2>2. Distinct(s) => Distinct(t)
      BY <1>4, <1>5, <1>6, <1>7, Reordered
    <2>3. Within(t, s)
      BY <1>4, <1>5, <1>6, <1>7, Reordered
    <2> QED  BY <1>7, <2>1, <2>2, <2>3
  <1>9. \A i \in DOMAIN t : t[i] \notin lost'
    BY <1>1, <1>8 DEF Within
  <1> QED  BY <1>8, <1>9, ListAgain

\* page_check() keeps three pages of the first six, gives the others back and
\* lets the test of mmio_map_region() take from what is there then.
LEMMA ListChecked ==
    ASSUME ListInv, page_check
    PROVE  ListInv'
  <1>1. CASE Len(page_free_list) < 6
    <2>1. stage' = "panic" /\ UNCHANGED <<npages, npages_basemem, nextfree, page_free_list, lost>>
      BY <1>1 DEF page_check, Panic
    <2> QED  BY <2>1, ListSame DEF BeforeList
  <1>2. CASE ~(Len(page_free_list) < 6)
    <2> DEFINE s == page_free_list
               m == 6
               tail == SubSeq(s, m + 1, Len(s))
               head == <<s[4], s[3], s[1]>>
               rest == head \o tail
               n == Cardinality(mmio_check)
               t == page_free_list'
               gone == {s[2], s[5], s[6]}
    <2>1. /\ stage' = "check_all" /\ lost' = gone /\ t = SubSeq(rest, n + 1, Len(rest))
          /\ UNCHANGED <<npages, npages_basemem, nextfree>>
      <3>1. 3 + 1 = 4 /\ 2 + 1 = 3 /\ 0 + 1 = 1 /\ 1 + 1 = 2 /\ 4 + 1 = 5 /\ 5 + 1 = 6 /\ 6 + 1 = 7
        OBVIOUS
      <3>2. lost' = gone
        BY <1>2, <3>1 DEF page_check
      <3>3. t = SubSeq(rest, n + 1, Len(rest))
        BY <1>2, <3>1, Zenon DEF page_check
      <3>4. stage' = "check_all" /\ UNCHANGED <<npages, npages_basemem, nextfree>>
        BY <1>2 DEF page_check
      <3> QED  BY <3>2, <3>3, <3>4
    <2>2. s \in Seq(Freeable) /\ Distinct(s) /\ Len(s) \in Nat /\ DOMAIN s = 1..Len(s) /\ Len(s) >= 6
      BY <1>2 DEF ListInv
    <2>3. n \in Nat
      <3>1. Region(MMIOBASE, 3, 0).va \in Int /\ Region(MMIOBASE, 3, 0).size \in Int
        BY BootAssumption DEF Region
      <3> QED  BY <3>1, WalkCount DEF mmio_check
    <2>4. \A i, j \in 1..6 : i # j => s[i] # s[j]
      BY <2>2 DEF Distinct
    <2>5. \A i \in 1..6 : s[i] \in Freeable
      BY <2>2
    <2>6. /\ tail \in Seq(Freeable) /\ Distinct(tail) /\ DOMAIN tail = 1..Len(tail) /\ Len(tail) \in Nat
          /\ \A i \in DOMAIN tail : \A k \in 1..6 : tail[i] # s[k]
      <3>1. tail = SubSeq(s, m + 1, Len(s)) /\ m \in Nat /\ m = 6
        OBVIOUS
      <3>2. s \in Seq(Freeable) /\ Distinct(s)
        BY <2>2
      <3> HIDE DEF s, tail, m
      <3>3. tail \in Seq(Freeable)
        BY <3>1, <3>2, TailOf
      <3>4. Distinct(tail)
        BY <3>1, <3>2, TailDistinct, ZenonT(60)
      <3>5. \A i \in DOMAIN tail : i + m \in DOMAIN s /\ tail[i] = s[i + m]
        BY <3>1, <3>2, TailOf
      <3>6. DOMAIN tail = 1..Len(tail) /\ Len(tail) \in Nat
        BY <3>3
      <3>7. ASSUME NEW i \in DOMAIN tail, NEW k \in 1..6 PROVE tail[i] # s[k]
        <4>1. i \in Nat /\ i >= 1 /\ i + m \in DOMAIN s /\ tail[i] = s[i + m]
          BY <3>5, <3>6
        <4>2. k \in DOMAIN s /\ k # i + m
          BY <2>2, <3>1, <4>1
        <4> QED  BY <2>2, <4>1, <4>2 DEF Distinct
      <3> QED  BY <3>2, <3>3, <3>4, <3>6, <3>7
    <2>7. /\ rest \in Seq(Freeable \ gone) /\ Distinct(rest)
      <3> DEFINE H == {s[1], s[3], s[4]}
                 T == Freeable \ {s[k] : k \in 1..6}
      <3>1. head \in Seq(H)
        <4> DEFINE a == s[4]
                   b == s[3]
                   c == s[1]
        <4>1. a \in H /\ b \in H /\ c \in H
          OBVIOUS
        <4> HIDE DEF H, a, b, c
        <4>2. <<a, b, c>> \in Seq(H)
          BY <4>1
        <4> QED  BY <4>2 DEF a, b, c
      <3>2. Distinct(head)
        BY <2>4 DEF Distinct
      <3>3. tail \in Seq(T)
        <4>1. \A i \in 1..Len(tail) : tail[i] \in T
          <5> HIDE DEF tail
          <5> QED  BY <2>6
        <4>2. tail \in [1..Len(tail) -> T] /\ Len(tail) \in Nat
          <5>1. tail = [i \in 1..Len(tail) |-> tail[i]]
            <6> HIDE DEF tail
            <6> QED  BY <2>6
          <5> HIDE DEF tail, T
          <5> QED  BY <2>6, <4>1, <5>1
        <4> HIDE DEF tail, T
        <4> QED  BY <4>2, FunctionIsSeq
      <3>4. H \cap T = {}
        OBVIOUS
      <3>5. H \cup T \subseteq Freeable \ gone
        BY <2>4, <2>5
      <3> HIDE DEF H, T, gone, head, tail
      <3>6. rest \in Seq(H \cup T)
        BY <2>6, <3>1, <3>2, <3>3, <3>4, Joined
      <3>7. Distinct(rest)
        BY <2>6, <3>1, <3>2, <3>3, <3>4, Joined
      <3>8. rest \in Seq(Freeable \ gone)
        <4> HIDE DEF rest
        <4> QED  BY <3>5, <3>6, SeqMonotonic
      <3> QED  BY <3>7, <3>8
    <2>8. t \in Seq(Freeable \ gone) /\ Distinct(t)
      <3>1. t = SubSeq(rest, n + 1, Len(rest))
        BY <2>1
      <3> DEFINE V == Freeable \ gone
      <3> HIDE DEF t, rest, n, V
      <3>2. rest \in Seq(V) /\ Distinct(rest)
        BY <2>7 DEF V
      <3>3. t \in Seq(V)
        BY <2>3, <3>1, <3>2, TailOf
      <3>4. Distinct(t)
        BY <2>3, <3>1, <3>2, TailDistinct, ZenonT(60)
      <3> QED  BY <3>2, <3>3, <3>4 DEF V
    <2>9. t \in Seq(Freeable) /\ \A i \in DOMAIN t : t[i] \notin lost'
      <3> HIDE DEF t, gone
      <3>1. t \in Seq(Freeable)
        BY <2>8, SeqMonotonic
      <3>2. \A i \in DOMAIN t : t[i] \in Freeable \ gone
        BY <2>8, ElementOfSeq
      <3> QED  BY <2>1, <3>1, <3>2
    <2>10. stage' \notin BeforeList
      BY <2>1 DEF BeforeList
    <2> HIDE DEF gone
    <2> QED  BY <2>1, <2>8, <2>9, <2>10, ListAgain
  <1> QED  BY <1>1, <1>2

LEMMA FreeInit ==
    ASSUME Init
    PROVE  FreeInv
  <1>1. KernelEnd \in Nat
    BY BootAssumption
  <1>2. MapInv
    BY DEF Init, BootInit, MapInv
  <1>3. ListInv
    BY <1>1 DEF Init, BootInit, ListInv, Distinct
  <1> QED  BY <1>2, <1>3 DEF FreeInv

\* page_init() makes the list.
LEMMA ListMade ==
    ASSUME ListInv, page_init
    PROVE  ListInv'
  <1> DEFINE from == npages_basemem + (EXTPHYSMEM - IOPHYSMEM) + nextfree
             S == from..(npages - 1)
             T == 1..(MPENTRY - 1)
             s == Pushed(from, npages)
             t == Pushed(1, MPENTRY)
  <1>1. /\ MPENTRY \in Nat /\ EXTPHYSMEM \in Nat /\ IOPHYSMEM \in Nat /\ KernelEnd \in Nat
        /\ MPENTRY < IOPHYSMEM /\ IOPHYSMEM < EXTPHYSMEM /\ EXTPHYSMEM <= KernelEnd
    BY BootAssumption
  <1>2. npages \in Nat /\ npages_basemem \in Nat /\ nextfree \in Nat /\ nextfree >= KernelEnd
    BY DEF ListInv
  <1>3. /\ page_free_list' = s \o t /\ lost' = lost /\ stage' = "map" /\ stage = "page_init"
        /\ UNCHANGED <<npages, npages_basemem, nextfree>>
    BY DEF page_init
  <1>4. lost = {}
    BY <1>3 DEF ListInv, BeforeList
  <1>5. from \in Int /\ from > MPENTRY
    BY <1>1, <1>2
  <1>6. S \cap T = {}
    <2> HIDE DEF from
    <2> QED  BY <1>1, <1>2, <1>5
  <1>7. Freeable = S \cup T
    BY DEF Freeable
  <1>8. s \in Seq(S) /\ Distinct(s) /\ t \in Seq(T) /\ Distinct(t)
    <2> HIDE DEF from
    <2> QED  BY <1>1, <1>2, <1>5, PushedRange
  <1>9. s \o t \in Seq(S \cup T) /\ Distinct(s \o t)
    <2> HIDE DEF s, t, S, T
    <2> QED  BY <1>6, <1>8, Joined
  <1>10. page_free_list' \in Seq(Freeable) /\ Distinct(page_free_list')
    BY <1>3, <1>7, <1>9
  <1>11. stage' \notin BeforeList /\ \A i \in DOMAIN page_free_list' : page_free_list'[i] \notin lost'
    BY <1>3, <1>4 DEF BeforeList
  <1> QED  BY <1>3, <1>10, <1>11, ListAgain

LEMMA ListStep ==
    ASSUME MapInv, ListInv, [Next]_vars
    PROVE  ListInv'
  <1> DEFINE Same == UNCHANGED <<npages, npages_basemem, nextfree, page_free_list, lost>>
  <1>1. CASE UNCHANGED bootVars
    BY <1>1, ListSame DEF bootVars
  <1>2. CASE do_e820 \/ sanitize
    <2>1. Same /\ stage \in BeforeList
      BY <1>2 DEF do_e820, sanitize, memVars, BeforeList
    <2> QED  BY <2>1, ListSame
  <1>3. CASE i386_detect_memory
    <2>1. npages' \in Nat /\ npages_basemem' \in Nat
      <3>1. basemem \div UNITS \in Nat /\ npages_extmem \in Nat /\ EXTPHYSMEM \in Nat
        BY Detected, BootAssumption
      <3>2. \A n \in Nat : Limited(n) \in Nat
        BY Detected
      <3> DEFINE n == IF npages_extmem > 0 THEN EXTPHYSMEM + npages_extmem ELSE basemem \div UNITS
      <3>3. n \in Nat
        <4> HIDE DEF n
        <4> QED  BY <3>1 DEF n
      <3>4. \/ npages' = npages /\ npages_basemem' = npages_basemem
            \/ npages' = Limited(n) /\ npages_basemem' = basemem \div UNITS
        BY <1>3 DEF i386_detect_memory
      <3>5. npages \in Nat /\ npages_basemem \in Nat
        BY DEF ListInv
      <3> HIDE DEF n
      <3> QED  BY <3>1, <3>2, <3>3, <3>4, <3>5
    <2>2. stage = "detect" /\ UNCHANGED <<nextfree, page_free_list, lost>>
      BY <1>3 DEF i386_detect_memory
    <2>3. page_free_list = <<>> /\ lost = {} /\ nextfree \in Nat /\ nextfree >= KernelEnd
      BY <2>2 DEF ListInv, BeforeList
    <2> QED  BY <2>1, <2>2, <2>3 DEF ListInv, Distinct
  <1>4. CASE boot_alloc
    <2>1. stage = "alloc" /\ UNCHANGED <<npages, npages_basemem, page_free_list, lost>>
          /\ (nextfree' = nextfree \/ nextfree' = envs + ENVPAGES)
      BY <1>4 DEF boot_alloc
    <2>2. page_free_list = <<>> /\ lost = {} /\ nextfree \in Nat /\ nextfree >= KernelEnd
          /\ npages \in Nat /\ npages_basemem \in Nat
      BY <2>1 DEF ListInv, BeforeList
    <2>3. envs + ENVPAGES \in Nat /\ envs + ENVPAGES >= KernelEnd
      <3> DEFINE c == CeilDiv(npages, INFOS)
      <3>1. KernelEnd \in Nat /\ ENVPAGES \in Nat /\ INFOS \in Nat \ {0}
        BY BootAssumption
      <3>2. c \in Nat
        BY <2>2, <3>1, Divided
      <3>3. envs = KernelEnd + 1 + c
        BY DEF envs, pages
      <3> HIDE DEF c
      <3> QED  BY <3>1, <3>2, <3>3
    <2>4. nextfree' \in Nat /\ nextfree' >= KernelEnd
      BY <2>1, <2>2, <2>3
    <2> QED  BY <2>1, <2>2, <2>4 DEF ListInv, Distinct
  <1>5. CASE page_init
    BY <1>5, ListMade
  <1>6. CASE map_regions
    <2>1. stage = "map" /\ UNCHANGED <<npages, npages_basemem, nextfree, lost>>
      BY <1>6 DEF map_regions
    <2> DEFINE r == x64_vm_init[turn]
               n == Cardinality(pml4e_walk(r))
    <2>2. stage' \notin BeforeList
      BY <1>6 DEF map_regions, boot_map_region, Panic, BeforeList
    <2>3. \/ page_free_list' = page_free_list
          \/ turn <= Len(x64_vm_init) /\ page_free_list' = SubSeq(page_free_list, n + 1, Len(page_free_list))
      BY <1>6 DEF map_regions, boot_map_region
    <2>4. CASE page_free_list' = page_free_list
      BY <2>1, <2>2, <2>4, ListSame
    <2>5. CASE turn <= Len(x64_vm_init) /\ page_free_list' = SubSeq(page_free_list, n + 1, Len(page_free_list))
      <3>1. npages \in Nat /\ turn \in Nat /\ turn >= 1
        BY <2>1 DEF ListInv, MapInv
      <3>2. r.va \in Int /\ r.size \in Int
        <4> DEFINE L == Len(x64_vm_init)
        <4>1. \A k \in 1..L : x64_vm_init[k].va \in Int /\ x64_vm_init[k].size \in Int
          BY <3>1, RegionTyped
        <4>2. L \in Nat => turn \in 1..L
          <5>1. turn <= L
            BY <2>5
          <5> HIDE DEF L
          <5> QED  BY <3>1, <5>1
        <4>3. L \in Nat
          BY <3>1, RegionTyped
        <4> QED  BY <4>1, <4>2, <4>3
      <3> HIDE DEF r
      <3>3. n \in Nat
        BY <3>2, WalkCount
      <3> HIDE DEF n
      <3> QED  BY <2>1, <2>2, <2>5, <3>3, ListTaken
    <2> QED  BY <2>3, <2>4, <2>5
  <1>7. CASE check_page_free_list
    <2>1. /\ UNCHANGED <<npages, npages_basemem, nextfree, lost>>
          /\ page_free_list' = page_free_list \/ page_free_list' = LowFirst
      BY <1>7 DEF check_page_free_list
    <2>2. stage' \notin BeforeList
      BY <1>7 DEF check_page_free_list, BeforeList
    <2>3. CASE page_free_list' = page_free_list
      BY <2>1, <2>2, <2>3, ListSame
    <2>4. CASE page_free_list' = LowFirst
      BY <2>1, <2>2, <2>4, ListMoved
    <2> QED  BY <2>1, <2>3, <2>4
  <1>8. CASE page_check
    BY <1>8, ListChecked
  <1>9. CASE check_page_alloc \/ check_boot_pml4e \/ mp_init \/ lapic_init \/ boot_aps \/ boot_wait
    <2>1. Same
      BY <1>9 DEF check_page_alloc, check_boot_pml4e, mp_init, lapic_init, boot_aps, boot_wait, memVars
    <2>2. stage' \notin BeforeList
      BY <1>9 DEF check_page_alloc, check_boot_pml4e, mp_init, lapic_init, boot_aps, boot_wait, BeforeList
    <2> QED  BY <2>1, <2>2, ListSame
  <1>10. CASE \E p \in ApicIds : OtherProcessor(p)
    <2>1. Same /\ stage' \in {stage, "panic"}
      BY <1>10 DEF OtherProcessor, mpentry_start, mp_main, mp_started, Panic, memVars
    <2> QED  BY <2>1, ListSame DEF BeforeList
  <1> QED  BY <1>1, <1>2, <1>3, <1>4, <1>5, <1>6, <1>7, <1>8, <1>9, <1>10
           DEF Next, Load, Start, StartOther, vars, BootProcessor

LEMMA FreeSafe ==
    ASSUME FreeInv
    PROVE  FreePagesUnused
  <1> SUFFICES ASSUME Plain PROVE FreePagesUnused
    BY DEF FreePagesUnused
  <1> DEFINE s == page_free_list
  <1>1. s \in Seq(Freeable) /\ Distinct(s) /\ \A i \in DOMAIN s : s[i] \notin lost
    BY DEF FreeInv, ListInv
  <1>2. npages \in Nat /\ npages_basemem \in Nat /\ nextfree \in Nat /\ nextfree >= KernelEnd
    BY DEF FreeInv, ListInv
  <1>3. /\ MPENTRY \in Nat /\ EXTPHYSMEM \in Nat /\ IOPHYSMEM \in Nat /\ KernelEnd \in Nat /\ 0 < MPENTRY
        /\ MPENTRY < IOPHYSMEM /\ IOPHYSMEM < EXTPHYSMEM /\ EXTPHYSMEM <= KernelEnd
    BY BootAssumption
  <1>4. ASSUME NEW p \in Freeable
        PROVE  /\ p # 0 /\ p # MPENTRY /\ p \notin EXTPHYSMEM..(nextfree - 1)
               /\ p \in 1..(MPENTRY - 1) \/ p \in EXTPHYSMEM..(npages - 1)
    BY <1>2, <1>3, <1>4 DEF Freeable
  <1>5. ASSUME NEW p \in Freeable PROVE RamPage(p)
    BY <1>4, <1>5, Zenon DEF Plain
  <1>6. DOMAIN s = 1..Len(s) /\ Len(s) \in Nat /\ \A i \in DOMAIN s : s[i] \in Freeable
    BY <1>1, ElementOfSeq
  <1>7. \A i \in DOMAIN s : \A j \in 1..(i - 1) : s[i] # s[j]
    <2> HIDE DEF s
    <2>1. \A i \in DOMAIN s : \A j \in 1..(i - 1) : j \in DOMAIN s /\ j # i
      BY <1>6
    <2> QED  BY <1>1, <2>1 DEF Distinct
  <1>8. \A i \in DOMAIN s : /\ RamPage(s[i]) /\ s[i] # 0 /\ s[i] # MPENTRY /\ s[i] \notin lost
                            /\ s[i] \notin EXTPHYSMEM..(nextfree - 1)
    <2> HIDE DEF s
    <2> QED  BY <1>1, <1>4, <1>5, <1>6
  <1> QED  BY <1>7, <1>8, Zenon DEF FreePagesUnused

(* The list of free pages names memory that exists and is in nobody's use, on   *)
(* every machine whose memory i386_detect_memory() counts rightly, and never a  *)
(* page twice: however long the tables of the BIOS and of the kernel's regions  *)
(* are, page_init() starts behind what boot_alloc() gave away, and the walks,   *)
(* the reordering of check_page_free_list() and the three pages that            *)
(* page_check() keeps take from the list and add nothing to it.                 *)
THEOREM FreePagesAreUnused == Spec => []FreePagesUnused
  <1>1. Init => FreeInv
    BY FreeInit
  <1>2. FreeInv /\ [Next]_vars => FreeInv'
    BY MapStep, ListStep DEF FreeInv
  <1>3. FreeInv => FreePagesUnused
    BY FreeSafe
  <1> QED  BY <1>1, <1>2, <1>3, PTL DEF Spec
=============================================================================
