------------------------------- MODULE Startup -------------------------------
(*****************************************************************************)
(* The start of the machine, from the boot sector to the first programs:     *)
(* boot/main.c brings the kernel in and i386_init() clears its bss (Loader), *)
(* the kernel sets itself up and starts the other processors (Boot), and     *)
(* then the programs are loaded, by the kernel and later by spawn() (Loader).*)
(*****************************************************************************)
EXTENDS Loader, Boot

CONSTANTS OneImage, OneMachine,   \* an image and a machine for the other part to vary
          Needed                  \* extended memory, in pages, that is enough to boot

\* Either the images and arguments vary or the machines do.
Init == LoaderInit /\ BootInit /\ (machine = OneMachine \/ (who = "boot" /\ img = OneImage))

Load == LoaderNext /\ UNCHANGED bootVars
Start == who = "boot" /\ pc = "loaded" /\ BootProcessor /\ UNCHANGED loaderVars
StartOther(p) == OtherProcessor(p) /\ UNCHANGED loaderVars

Next == Load \/ Start \/ \E p \in ApicIds : StartOther(p)

vars == <<loaderVars, bootVars>>
\* The processors run by themselves; nobody else holds them up.
Spec == Init /\ [][Next]_vars
        /\ WF_vars(Start) /\ \A p \in ApicIds : WF_vars(StartOther(p))

(* With enough memory, not more than bootstrap.S maps, and an orderly table,   *)
(* a kernel that is loaded comes up: no assertion of the self-checks and no        *)
(* allocation fails, no processor is waited for in vain, and every processor   *)
(* of the table that cpus[] has room for runs mp_main().                       *)
BootCompletes ==
    (who = "boot" /\ pc = "loaded" /\ stage = "alloc"
      /\ Plain /\ Orderly /\ npages \in (EXTPHYSMEM + Needed)..BootMapped)
      ~> (stage = "done" /\ (mpconfig /\ MpTable.ismp =>
                               \A p \in Present : p < NCPU => p = machine.bsp \/ ap[p] = "up"))
===============================================================================
