------------------------------ MODULE MCStartup ------------------------------
EXTENDS Startup
(* Images as a linker makes them: a first segment of one or two pages, a second *)
(* one with the bss behind it, and a header that is not for loading; offsets    *)
(* agree with addresses modulo the page size, and no page has two segments.     *)
S(va, offset, filesz, memsz, load) == [va |-> va, offset |-> offset, filesz |-> filesz, memsz |-> memsz, load |-> load]
Stack == S(0, 0, 0, 0, FALSE)
First == {S(8 + o, 8 + o, n, n, TRUE) : o \in {0, 3}, n \in {4, 8}}
Second(f) ==
    LET off == RoundUp(f.offset + f.filesz, PGSIZE)
    IN  {S(RoundUp(f.va + f.filesz, PGSIZE) + o, off + o, n, n + b, TRUE) : o \in {0, 5}, n \in {0, 3, 8}, b \in {0, 2, 9}}
SomeImages ==
    UNION {{[magic |-> TRUE, segs |-> <<f, Stack, s>>] : s \in Second(f)} : f \in First}
    \cup {[magic |-> FALSE, segs |-> <<f>>] : f \in First}
Lists == UNION {[1..n -> {0, 1, 5}] : n \in 0..3}
TheImage == [magic |-> TRUE, segs |-> <<S(11, 11, 8, 8, TRUE), Stack, S(37, 37, 3, 12, TRUE)>>]

(* Memory: what the BIOS tells, in the shape that machines have it and in       *)
(* shapes that the code is surprised by; tables with and without gaps.          *)
M(addr, len, type) == [addr |-> addr, len |-> len, type |-> type]
Nvram(base, ext, ext16) == [base |-> base, ext |-> ext, ext16 |-> ext16]
Base == {<<M(0, b, "usable"), M(b, 10 - b, "reserved"), M(14, 2, "reserved")>> : b \in {7, 9}}
Extended == {<<M(16, e, "usable"), M(16 + e, 4, "reserved")>> : e \in {20, 64, 75, 120}}
            \cup {<<M(16, 60, "usable"), M(76, 10, "reclaimable")>>,
                  <<M(16, 40, "usable"), M(56, 40, "usable")>>,
                  <<M(60, 24, "usable"), M(16, 44, "usable")>>,
                  <<M(16, 40, "usable"), M(70, 30, "usable")>>,
                  <<M(16, 60, "usable"), M(70, 30, "nvs")>>}
Maps == {b \o e : b \in Base, e \in Extended} \cup {<<>>, <<M(0, 90, "usable")>>}
Nvrams == {Nvram(9, 64, 0), Nvram(0, 64, 0), Nvram(10, More, 75), Nvram(8, 0, 0)}

P(apic, enabled, boot) == [kind |-> "proc", apic |-> apic, enabled |-> enabled, boot |-> boot]
Other == [kind |-> "other", apic |-> 0, enabled |-> FALSE, boot |-> FALSE]
Unknown == [kind |-> "unknown", apic |-> 0, enabled |-> FALSE, boot |-> FALSE]
Mp(conf, places, ebda, entries) == [conf |-> conf, places |-> places, ebda |-> ebda, entries |-> entries]
Four == <<P(0, TRUE, TRUE), P(1, TRUE, FALSE), P(2, TRUE, FALSE), P(3, TRUE, FALSE), Other>>
Lists3 == {<<P(0, TRUE, TRUE)>>, Four,
           <<P(0, TRUE, TRUE), Other, P(1, TRUE, FALSE), P(2, FALSE, FALSE)>>,
           <<P(0, TRUE, TRUE), P(1, FALSE, FALSE), P(2, TRUE, FALSE)>>,
           <<P(0, TRUE, FALSE), P(1, TRUE, FALSE), P(2, TRUE, TRUE)>>,
           <<P(1, TRUE, TRUE), P(0, TRUE, FALSE), P(2, TRUE, FALSE)>>,
           <<P(0, TRUE, TRUE), P(1, TRUE, FALSE), Unknown, P(2, TRUE, FALSE)>>}
Mps == {Mp("good", {"rom"}, e, l) : e \in BOOLEAN, l \in Lists3}
       \cup {Mp("bad", {"ebda"}, TRUE, Four), Mp("good", {"base"}, TRUE, Four), Mp("good", {"base"}, FALSE, Four)}
Bsp(l) == LET b == {k \in DOMAIN l : l[k].boot} IN l[CHOOSE k \in b : TRUE].apic
Mc(map, nvram, mp) == [e820 |-> map, nvram |-> nvram, mp |-> mp, bsp |-> Bsp(mp.entries)]
TheMachine == Mc(<<M(0, 9, "usable"), M(9, 1, "reserved"), M(16, 75, "usable")>>, Nvram(9, More, 75), Mp("good", {"rom"}, TRUE, Four))
SomeMachines == {Mc(m, n, TheMachine.mp) : m \in Maps, n \in Nvrams} \cup
                {Mc(TheMachine.e820, TheMachine.nvram, mp) : mp \in Mps} 
===============================================================================
