------------------------------- MODULE MCPmap -------------------------------
\* Page tables of three entries; user addresses on both sides of the limits of
\* env_free().
EXTENDS Pmap

Top == <<1, 0, 1, 0>>

\* Two pages of one table, and one in another directory.
Low == {<<0, 0, 0, 0>>, <<0, 0, 0, 1>>, <<0, 1, 0, 0>>}
\* The last entry of a table; the stack, above PDX(UTOP) in the last gigabyte.
Stack == {<<0, 1, 2, 2>>}
\* Below UTOP, but in the tables that all environments share.
Shared == {<<0, 0, 0, 0>>, <<1, 0, 0, 0>>}
Vectors == [ZeroPage EXCEPT ![1] = [addr |-> 3, perm |-> {"P"}]]
None == <<>>
Text == <<<<0, 0, 0, 0>>>>

(***************************************************************************)
(* Free pages are interchangeable: page_alloc() clears the page it takes   *)
(* and nobody looks at its number.  The view names a page by the places    *)
(* that lead to it instead of by its number, and keeps all else: counts,   *)
(* flags, the length of the free list and what is lost to it.              *)
(***************************************************************************)
Place == Env \X VA \X (0 .. 4)

\* The entries on the way from e's top-level table to va, starting at "none".
EntryAt(x) ==
    LET pml4e == env_pml4e[x[1]]
        va == x[2]
        pdpt == mem[pml4e][PML4(va)]
        pd == mem[pdpt.addr][PDPE(va)]
        pt == mem[pd.addr][PDX(va)]
    IN  IF pml4e = NULL THEN Zero
        ELSE CASE x[3] = 0 -> [addr |-> pml4e, perm |-> {}]
               [] x[3] = 1 -> pdpt
               [] x[3] = 2 -> pd
               [] x[3] = 3 -> pt
               [] x[3] = 4 -> mem[pt.addr][PTX(va)]

Shape ==
    LET ways == {<<x, EntryAt(x)>> : x \in Place}
        used == {w[2].addr : w \in ways}
        free == {page_free_list[i] : i \in DOMAIN page_free_list}
        lost == UserPages \ (free \cup used)
        To(p) == {<<w[1], w[2].perm>> : w \in {v \in ways : v[2].addr = p}}
    IN  <<{<<pp_ref[p], To(p)>> : p \in used},
          Live, Len(page_free_list), Cardinality(free), 0 \in free,
          Cardinality(lost), {pp_ref[p] : p \in lost}, panicstr>>
=============================================================================
