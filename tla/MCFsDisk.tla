------------------------------- MODULE MCFsDisk -------------------------------
EXTENDS FsDisk
CONSTANTS a, newmotd

\* One file in the root directory and one in /bin; and /bin itself, which can be
\* removed, cut and written: then "a" may be a directory, with a file in it.
SomePaths == {<<a>>, <<"bin", a>>, <<"bin">>, <<a, a>>}
\* Two blocks through the indirect block, or the second of them alone, so that a cut
\* to three blocks keeps the indirect block; reads fill the hole in front of them.
SomeWrites == {<<2, 2>>, <<3, 1>>}

\* A block that is marked free, and that no file has, is cleared before it is used
\* again: what is in it does not matter, nor whether it is written.
Used(c) == {1, 2} \cup (Block \ ({0} \cup c[2].free))
           \cup (IF c[1].kind = "super" THEN {r[3] : r \in References(c)} ELSE {})
Shape ==
    LET used == Used(cache) \cup Used(disk)
        blank(c) == [k \in used \ {0} |-> c[k]]
    IN  <<blank(disk), blank(cache), dirty \cap used, todo, server, mounts, durable, promise, bootcrash, cutinside>>
===============================================================================
