-------------------------------- MODULE MCFork --------------------------------
(* Tables of 2 entries and directories of 2 tables.  Pages: 1 is PFTEMP, 2 the *)
(* text, 3 the data, 4 to 7 the second directory, 13 the stack, 15 the         *)
(* exception stack; the third directory is missing.  Of the first layout the   *)
(* loop of fork() loses page 7, of the second, behind another hole, page 4.    *)
EXTENDS Fork

Addresses == {0, 1, 2, 3, 4, 5, 7, 13, 15}
Linked == (2 :> "ro") @@ (3 :> "rw")
ProgramLayouts == {Linked @@ (4 :> "share") @@ (7 :> "rw"), Linked @@ (4 :> "rw")}
AllocLayouts == {Linked}
Store == 1..14

\* What is left on a free page does not matter: page_alloc() clears it.
Content == LET free == FreePages IN [p \in Page |-> IF p \in free THEN Zero ELSE mem[p]]
Shape == <<env_status, pt, Content, upcall, handler, pc, utf, child, addr, perm, word, shared, refused, forks>>
===============================================================================
