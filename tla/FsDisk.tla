-------------------------------- MODULE FsDisk --------------------------------
(* The file system of fs/fs.c on the block cache of fs/bc.c: the free block    *)
(* bitmap, files with direct and indirect blocks, directories, and the order   *)
(* in which changes reach the disk.  The server is sequential, so an           *)
(* operation is one step on the cache; the blocks that it writes are written   *)
(* one at a time after it (todo), and the machine may stop between any two.    *)
(*                                                                             *)
(* Operators take and return a record of the cache: c the contents, d which    *)
(* blocks have PTE_D set, w the blocks written so far in order, r the result.  *)
EXTENDS Integers, Sequences, SequencesExt, FiniteSetsExt

\* The path that fs_test() expects not to be there.
NotFound == "not-found"

CONSTANTS
    NBLOCKS,        \* super->s_nblocks
    NDIRECT, NINDIRECT, BLKFILES,
    Paths,          \* the paths that programs use, each a sequence of names
    Motd,           \* "/newmotd", which fs_test() expects
    Sizes,          \* sizes that programs set, in blocks
    Writes,         \* offsets and lengths of writes, in blocks
    Reads,          \* offsets of reads
    MaxMounts       \* bound on starts of the file server

ASSUME FsAssumption ==
    /\ NBLOCKS \in Nat /\ NBLOCKS >= 5
    /\ NDIRECT \in Nat \ {0} /\ NINDIRECT \in Nat \ {0} /\ BLKFILES \in Nat \ {0}
    /\ \A p \in Paths : p # <<>> /\ p[1] \notin {Motd, NotFound}

VARIABLES disk, cache, dirty, todo, server, mounts,
          durable,      \* history: what files were when they were last flushed, if not changed since
          promise,      \* history: what the flush under way will make durable
          bootcrash,    \* history: the machine has stopped while the server was starting
          cutinside     \* history: a file was cut and kept its indirect block
vars == <<disk, cache, dirty, todo, server, mounts, durable, promise, bootcrash, cutinside>>

E_INVAL == -3
E_NO_DISK == -9
E_NOT_FOUND == -10
E_FILE_EXISTS == -13

Block == 0..(NBLOCKS - 1)
NoName == "none"
\* What is in a block: the path of the file that wrote it, or the message of the day.
Message == <<"message">>
Zeros == <<>>

(***************************** struct File, blocks ***************************)
FTYPE_REG == "file"
FTYPE_DIR == "directory"
NoFile == [name |-> NoName, size |-> 0, type |-> FTYPE_REG,
           direct |-> [i \in 1..NDIRECT |-> 0], indirect |-> 0]
\* What data is taken for in a directory: nobody's name, and no free place.
Text == [NoFile EXCEPT !.name = "text"]

\* A block is interpreted by what points to it; a zeroed one is valid as anything.
ZeroBlock == [kind |-> "zero"]
Directory(files) == [kind |-> "files", files |-> files]
Files(blk) == IF blk.kind = "files" THEN blk.files
              ELSE [j \in 1..BLKFILES |-> IF blk.kind = "data" THEN Text ELSE NoFile]
Pointers(blk) == IF blk.kind = "pointers" THEN blk.pointers ELSE [k \in 1..NINDIRECT |-> 0]
Data(blk) == IF blk.kind = "data" THEN blk.data ELSE Zeros
Bitmap(free) == [kind |-> "bitmap", free |-> free]
Super(root) == [kind |-> "super", root |-> root]
Smashed == [kind |-> "OOPS!"]
Boot == [kind |-> "boot"]

\* A struct File is known by its block and its place there; the root by <<1, 0>>.
Root == <<1, 0>>
FileAt(c, f) == IF f = Root THEN c[1].root ELSE Files(c[f[1]])[f[2]]

(******************************** block cache ********************************)
Store(s, b, content) == [s EXCEPT !.c[b] = content, !.d = @ \cup {b}]
SetFile(s, f, file) ==
    IF f = Root THEN Store(s, 1, Super(file))
    ELSE Store(s, f[1], Directory([Files(s.c[f[1]]) EXCEPT ![f[2]] = file]))

flush_block(s, b) ==
    IF b \in s.d THEN [s EXCEPT !.d = @ \ {b}, !.w = Append(@, <<b, s.c[b]>>)] ELSE s

FlushAll(s, blocks) == FoldLeft(flush_block, s, blocks)

\* A new block is cleared and written.
Clear(s, b) == flush_block(Store(s, b, ZeroBlock), b)

(********************************** bitmap ***********************************)
block_is_free(c, b) == b \in c[2].free
free_block(s, b) == Store(s, 2, Bitmap(s.c[2].free \cup {b}))

\* Mistake: the bitmap is left for a later flush.
AllocWithoutFlush(s) ==
    LET free == s.c[2].free IN
    IF free = {} THEN [s EXCEPT !.r = E_NO_DISK]
    ELSE [Store(s, 2, Bitmap(free \ {Min(free)})) EXCEPT !.r = Min(free)]

alloc_block(s) ==
    LET free == s.c[2].free IN
    IF free = {} THEN [s EXCEPT !.r = E_NO_DISK]
    ELSE [flush_block(Store(s, 2, Bitmap(free \ {Min(free)})), 2) EXCEPT !.r = Min(free)]

\* What follows a step that may fail; an error ends the operation.
IfOk(s, next(_)) == IF s.r < 0 THEN s ELSE next(s)

(******************************* files' blocks *******************************)
\* The slot for block n of file f: in the file itself, or in its indirect block.
HasSlot(c, f, n) == n < NDIRECT \/ (n < NDIRECT + NINDIRECT /\ FileAt(c, f).indirect # 0)
Slot(c, f, n) ==
    IF n < NDIRECT THEN FileAt(c, f).direct[n + 1]
    ELSE Pointers(c[FileAt(c, f).indirect])[n - NDIRECT + 1]
SetSlot(s, f, n, b) ==
    LET file == FileAt(s.c, f) IN
    IF n < NDIRECT THEN SetFile(s, f, [file EXCEPT !.direct[n + 1] = b])
    ELSE Store(s, file.indirect,
               [kind |-> "pointers",
                pointers |-> [Pointers(s.c[file.indirect]) EXCEPT ![n - NDIRECT + 1] = b]])

\* file_block_walk(): afterwards f has a slot for block n, or r is the error.
file_block_walk(s, f, n, alloc) ==
    IF n >= NDIRECT + NINDIRECT THEN [s EXCEPT !.r = E_INVAL]
    ELSE IF HasSlot(s.c, f, n) THEN [s EXCEPT !.r = 0]
    ELSE IF ~alloc THEN [s EXCEPT !.r = E_NOT_FOUND]
    ELSE IfOk(alloc_block(s), LAMBDA a :
           [Clear(SetFile(a, f, [FileAt(a.c, f) EXCEPT !.indirect = a.r]), a.r) EXCEPT !.r = 0])

\* file_get_block(): r is the disk block, which is allocated if there is none.
file_get_block(s, f, n) ==
    IfOk(file_block_walk(s, f, n, TRUE), LAMBDA v :
        IF Slot(v.c, f, n) # 0 THEN [v EXCEPT !.r = Slot(v.c, f, n)]
        ELSE IfOk(alloc_block(v), LAMBDA a : [Clear(SetSlot(a, f, n, a.r), a.r) EXCEPT !.r = a.r]))

\* file_free_block(): nothing happens when there is no block.
file_free_block(s, f, n) ==
    IfOk(file_block_walk(s, f, n, FALSE), LAMBDA v :
        IF Slot(v.c, f, n) = 0 THEN v ELSE SetSlot(free_block(v, Slot(v.c, f, n)), f, n, 0))

Upto(a, b) == [i \in 1..(IF b > a THEN b - a ELSE 0) |-> a + i - 1]

\* Mistake: the indirect block is given back while the file still points to it.
KeepsIndirect(cut, f, newsize) ==
    IF newsize <= NDIRECT /\ FileAt(cut.c, f).indirect # 0
    THEN free_block(cut, FileAt(cut.c, f).indirect) ELSE cut
FreeIndirect(cut, f, newsize) ==
    IF newsize <= NDIRECT /\ FileAt(cut.c, f).indirect # 0
    THEN SetFile(free_block(cut, FileAt(cut.c, f).indirect), f, [FileAt(cut.c, f) EXCEPT !.indirect = 0])
    ELSE cut

file_truncate_blocks(s, f, newsize) ==
    LET free(t, n) == file_free_block(t, f, n)
    IN  FreeIndirect(FoldLeft(free, s, Upto(newsize, FileAt(s.c, f).size)), f, newsize)

PutSize(s, f, size) == flush_block(SetFile(s, f, [FileAt(s.c, f) EXCEPT !.size = size]), f[1])
file_set_size(s, f, newsize) ==
    [PutSize(IF FileAt(s.c, f).size > newsize THEN file_truncate_blocks(s, f, newsize) ELSE s, f, newsize)
     EXCEPT !.r = 0]

\* Mistake: the indirect block is forgotten.
FlushesOnlyTheFile(s, f) ==
    LET file == FileAt(s.c, f)
        there == SelectSeq(Upto(0, file.size), LAMBDA n : HasSlot(s.c, f, n) /\ Slot(s.c, f, n) # 0)
    IN  flush_block(FlushAll(s, [i \in 1..Len(there) |-> Slot(s.c, f, there[i])]), f[1])

\* Contents first, then the struct File, then the indirect block.
file_flush(s, f) ==
    LET file == FileAt(s.c, f)
        there == SelectSeq(Upto(0, file.size), LAMBDA n : HasSlot(s.c, f, n) /\ Slot(s.c, f, n) # 0)
        contents == [i \in 1..Len(there) |-> Slot(s.c, f, there[i])]
    IN  FlushAll(s, Append(contents, f[1]) \o IF file.indirect # 0 THEN <<file.indirect>> ELSE <<>>)

(******************************** directories ********************************)
\* A search through the blocks of directory dir, which get allocated if they are
\* missing.  It stops at the first error or match: x is the place found.
Hits(blk, want) == {j \in 1..BLKFILES : Files(blk)[j].name = want}
Looked(t, g, want) ==
    IF g.r < 0 THEN [stop |-> TRUE, s |-> g, x |-> Root]
    ELSE IF Hits(g.c[g.r], want) = {} THEN [t EXCEPT !.s = g]
    ELSE [stop |-> TRUE, s |-> [g EXCEPT !.r = 0], x |-> <<g.r, Min(Hits(g.c[g.r], want))>>]
Search(s, dir, want) ==
    LET look(t, n) == IF t.stop THEN t ELSE Looked(t, file_get_block(t.s, dir, n), want)
    IN  FoldLeft(look, [stop |-> FALSE, s |-> s, x |-> Root], Upto(0, FileAt(s.c, dir).size))

dir_lookup(s, dir, name) ==
    LET absent(w) == IF w.stop THEN w ELSE [w EXCEPT !.s.r = E_NOT_FOUND]
    IN  absent(Search(s, dir, name))

\* A free struct File: one without a name, or the first of a new block.  The size
\* of the directory is increased first, and stays so if there is no block.
Enlarged(s, dir) == SetFile(s, dir, [FileAt(s.c, dir) EXCEPT !.size = @ + 1])
dir_alloc_file(s, dir) ==
    LET fresh(g) == [stop |-> g.r < 0, s |-> IF g.r < 0 THEN g ELSE [g EXCEPT !.r = 0], x |-> <<g.r, 1>>]
        slot(w) == IF w.stop THEN w
                   ELSE fresh(file_get_block(Enlarged(w.s, dir), dir, FileAt(w.s.c, dir).size))
    IN  slot(Search(s, dir, NoName))

\* walk_path(): x is the file found; in is the directory (or none) in which only
\* the last name is missing.  A step through what is no directory finds nothing.
Enter(w, name, last) ==
    IF FileAt(w.s.c, w.x).type # FTYPE_DIR THEN [w EXCEPT !.s.r = E_NOT_FOUND]
    ELSE LET l == dir_lookup(w.s, w.x, name)
         IN  [s |-> l.s, x |-> l.x, in |-> IF l.s.r = E_NOT_FOUND /\ last THEN {w.x} ELSE {}]
walk_path(s, path) ==
    LET enter(w, i) == IF w.s.r < 0 THEN w ELSE Enter(w, path[i], i = Len(path))
    IN  FoldLeft(enter, [s |-> [s EXCEPT !.r = 0], x |-> Root, in |-> {}], Upto(1, Len(path) + 1))

\* What is done with the file that a walk has found.
IfFound(w, next(_, _)) == IF w.s.r < 0 THEN w.s ELSE next(w.s, w.x)

file_open(s, path) == walk_path(s, path)

\* The slot is reused with whatever type, size and blocks the last file left in it.
file_create(s, path) ==
    LET named(t, f, dir) ==
            [file_flush(SetFile(t, f, [FileAt(t.c, f) EXCEPT !.name = Last(path)]), dir) EXCEPT !.r = 0]
        new(w) == IF w.s.r = 0 THEN [w.s EXCEPT !.r = E_FILE_EXISTS]
                  ELSE IF w.in = {} THEN w.s
                  ELSE LET dir == CHOOSE d \in w.in : TRUE
                       IN  IfFound(dir_alloc_file(w.s, dir), LAMBDA t, f : named(t, f, dir))
    IN  new(walk_path(s, path))

file_remove(s, path) ==
    LET unname(t, f) == flush_block(SetFile(t, f, [FileAt(t.c, f) EXCEPT !.name = NoName, !.size = 0]), f[1])
    IN  IfFound(walk_path(s, path),
                LAMBDA t, f : [unname(file_truncate_blocks(t, f, 0), f) EXCEPT !.r = 0])

(***************************** reading and writing ***************************)
\* Blocks from offset up to offset + count; the first error ends the loop.
Blocks(s, f, from, to, what(_, _)) ==
    LET one(t, n) == IF t.r < 0 THEN t ELSE IfOk(file_get_block(t, f, n), LAMBDA g : what(g, g.r))
    IN  FoldLeft(one, [s EXCEPT !.r = 0], Upto(from, to))

file_read(s, f, offset, count) ==
    LET size == FileAt(s.c, f).size
        keep(t, b) == t
    IN  IF offset >= size THEN [s EXCEPT !.r = 0]
        ELSE Blocks(s, f, offset, Min({offset + count, size}), keep)

file_write(s, f, offset, count, data) ==
    LET grown == IF offset + count > FileAt(s.c, f).size
                 THEN file_set_size(s, f, offset + count) ELSE s
        put(t, b) == Store(t, b, [kind |-> "data", data |-> data])
    IN  Blocks(grown, f, offset, offset + count, put)

fs_sync(s) == FlushAll(s, Upto(1, NBLOCKS))

(********************************* starting **********************************)
\* check_bc() overwrites the super block on the disk and writes it back;
\* check_super() and check_bitmap() test what was read.
fs_init(s) ==
    LET super == s.c[1]
        smashed == flush_block(Store(s, 1, Smashed), 1)
        back == flush_block(Store(smashed, 1, super), 1)
    IN  [back EXCEPT !.r = IF super.kind = "super" /\ back.c[2].free \cap {0, 1, 2} = {} THEN 0 ELSE -1]

\* Mistake: the new message stays in the cache.
TestWithoutFlush(b, f) ==
    IF Data(b.c[b.r]) # Message THEN [b EXCEPT !.r = -1]
    ELSE IfOk(file_get_block(file_set_size(file_set_size(b, f, 0), f, 1), f, 0), LAMBDA g :
            [Store(g, g.r, [kind |-> "data", data |-> Message]) EXCEPT !.r = 0])
\* The second half of fs_test(): the message of the day, in block b.r, is compared,
\* flushed, cut to nothing and written again.
test_motd(b, f) ==
    IF Data(b.c[b.r]) # Message THEN [b EXCEPT !.r = -1]
    ELSE IfOk(file_get_block(file_set_size(file_set_size(file_flush(Store(b, b.r, b.c[b.r]), f), f, 0), f, 1), f, 0),
              LAMBDA g : [file_flush(Store(g, g.r, [kind |-> "data", data |-> Message]), f) EXCEPT !.r = 0])

\* A file must not be there, and the search for it must not fail otherwise.
test_absent(s) ==
    LET w == file_open(s, <<NotFound>>)
    IN  [w.s EXCEPT !.r = CASE w.s.r = E_NOT_FOUND -> 0 [] w.s.r = 0 -> -1 [] OTHER -> @]

\* fs_test() takes a block for good, searches the whole root directory, which fills
\* its holes, and rewrites the message of the day.
fs_test(s) ==
    IfOk(alloc_block(s), LAMBDA a :
        IfOk(test_absent(a), LAMBDA n :
            IfFound(file_open(n, <<Motd>>), LAMBDA t, f :
                IfOk(file_get_block(t, f, 0), LAMBDA b : test_motd(b, f)))))

-------------------------------------------------------------------------------
(* What a program sees of file f: its blocks in order, holes as zero.          *)
Contents(c, f) == [i \in 1..FileAt(c, f).size |->
                     IF HasSlot(c, f, i - 1) /\ Slot(c, f, i - 1) # 0 THEN Data(c[Slot(c, f, i - 1)])
                     ELSE Zeros]

BlocksOf(c, f) ==
    LET file == FileAt(c, f) IN
    ({file.direct[i] : i \in 1..NDIRECT}
       \cup (IF file.indirect = 0 THEN {} ELSE ToSet(Pointers(c[file.indirect])))) \ {0}

\* The files in a directory, or nothing; those of a path; and all there are.
\* Only fsformat makes directories, in the root, so that there are two levels.
Entries(c, f) ==
    IF FileAt(c, f).type # FTYPE_DIR THEN {}
    ELSE {g \in BlocksOf(c, f) \X (1..BLKFILES) : Files(c[g[1]])[g[2]].name \notin {NoName, Text.name}}
At(c, path) ==
    FoldLeft(LAMBDA fs, name : {g \in UNION {Entries(c, f) : f \in fs} : FileAt(c, g).name = name}, {Root}, path)
AllFiles(c) == LET top == Entries(c, Root)
               IN  {Root} \cup top \cup UNION {Entries(c, f) : f \in top}

\* All places that hold a block number, with it: direct, indirect, and in indirect blocks.
References(c) ==
    UNION {LET file == FileAt(c, f) IN
              {<<f, i, file.direct[i]>> : i \in 1..NDIRECT}
              \cup {<<f, 0, file.indirect>>}
              \cup {<<f, NDIRECT + k, IF file.indirect = 0 THEN 0 ELSE Pointers(c[file.indirect])[k]>>
                     : k \in 1..NINDIRECT} : f \in AllFiles(c)}
Referred(c) == {r \in References(c) : r[3] # 0}
OwnedOnce(c) ==
    LET referred == Referred(c)
        blocks == {r[3] : r \in referred}
    IN  /\ Cardinality(blocks) = Cardinality(referred)
        /\ blocks \cap ({0, 1, 2} \cup c[2].free) = {}

-------------------------------------------------------------------------------
Start == [c |-> cache, d |-> dirty, w |-> <<>>, r |-> 0]

\* An operation is over in the cache; its writes are still to be done.
Done(s) ==
    /\ cache' = s.c /\ dirty' = s.d /\ todo' = s.w
    /\ UNCHANGED <<disk, mounts, bootcrash>>

Ready == server = "up" /\ todo = <<>> /\ DOMAIN promise = {}
\* A change to the file of a path also changes what is above and below it.
Forget(path) ==
    durable' = [p \in {q \in DOMAIN durable : ~IsPrefix(q, path) /\ ~IsPrefix(path, q)} |-> durable[p]]

CreateFile(path) ==
    /\ Ready
    /\ Done(file_create(Start, path))
    /\ Forget(path)
    /\ UNCHANGED <<server, promise, cutinside>>

RemoveFile(path) ==
    /\ Ready
    /\ Done(file_remove(Start, path))
    /\ Forget(path)
    /\ UNCHANGED <<server, promise, cutinside>>

\* The operations on a file that has been found by its path.
On(path, op(_, _)) ==
    /\ Ready /\ file_open(Start, path).s.r = 0
    /\ Done(IfFound(file_open(Start, path), op))
    /\ UNCHANGED server

WriteFile(path, offset, count) ==
    /\ On(path, LAMBDA s, f : file_write(s, f, offset, count, path))
    /\ Forget(path) /\ UNCHANGED <<promise, cutinside>>

SetSize(path, size) ==
    /\ On(path, LAMBDA s, f : file_set_size(s, f, size))
    /\ Forget(path) /\ UNCHANGED promise
    /\ cutinside' = (cutinside \/ \E f \in At(cache, path) :
                                    NDIRECT < size /\ size < FileAt(cache, f).size)

\* Reading fills holes with blocks, so that what was flushed may be on the disk
\* without them: it still reads the same.
ReadFile(path, offset) ==
    /\ On(path, LAMBDA s, f : file_read(s, f, offset, 1))
    /\ UNCHANGED <<durable, promise, cutinside>>

\* What a flush promises holds when its last block has been written.
Promise(paths) == [p \in {q \in paths : At(cache, q) # {}} |->
                     Contents(cache, CHOOSE f \in At(cache, p) : TRUE)]
FlushFile(path) ==
    /\ On(path, file_flush)
    /\ promise' = Promise({path})
    /\ UNCHANGED <<durable, cutinside>>
Sync ==
    /\ Ready /\ Done(fs_sync(Start))
    /\ promise' = Promise(Paths \cup {<<Motd>>})
    /\ UNCHANGED <<server, durable, cutinside>>

\* ide_write() of one block.
ide_write ==
    /\ todo # <<>>
    /\ disk' = [disk EXCEPT ![Head(todo)[1]] = Head(todo)[2]]
    /\ todo' = Tail(todo)
    /\ server' = IF server = "starting" /\ Len(todo) = 1 THEN "up" ELSE server
    /\ UNCHANGED <<cache, dirty, mounts, durable, promise, bootcrash, cutinside>>

\* A flush has returned.
Flushed ==
    /\ server = "up" /\ todo = <<>> /\ DOMAIN promise # {}
    /\ durable' = [n \in DOMAIN durable \cup DOMAIN promise |->
                     IF n \in DOMAIN promise THEN promise[n] ELSE durable[n]]
    /\ promise' = <<>>
    /\ UNCHANGED <<disk, cache, dirty, todo, server, mounts, bootcrash, cutinside>>

\* A block that is touched for the first time is read from the disk, and is clean.
bc_pgfault == [c |-> disk, d |-> {}, w |-> <<>>, r |-> 0]

\* umain() of fs/serv.c up to serve(): the cache is empty, the disk is what it is.
Started(t) ==
    /\ cache' = t.c /\ dirty' = t.d /\ todo' = t.w
    /\ server' = IF t.r < 0 THEN "panic" ELSE "starting"
    /\ mounts' = mounts + 1
    /\ Forget(<<Motd>>) /\ promise' = IF t.r < 0 THEN <<>> ELSE (<<Motd>> :> <<Message>>)
    /\ UNCHANGED <<disk, bootcrash, cutinside>>
Mount ==
    /\ server = "down" /\ mounts < MaxMounts
    /\ Started(IfOk(fs_init(bc_pgfault), fs_test))

\* The machine stops; what is in the cache and not on the disk is gone.
Crash ==
    /\ server # "down" /\ mounts < MaxMounts
    /\ server' = "down"
    /\ cache' = disk /\ dirty' = {} /\ todo' = <<>>
    /\ promise' = <<>>
    /\ bootcrash' = (bootcrash \/ server = "starting")
    /\ UNCHANGED <<disk, mounts, durable, cutinside>>

(* The disk as fs/fsformat.c makes it: blocks are given out in order, to a      *)
(* file's contents, then to its indirect block, then to the root directory.    *)
(* The directories bin and sbin are always made; here nothing is put in them.  *)
alloc(pos, len) == pos + len
NeedsIndirect(len) == len >= NDIRECT

diradd(type, name) == [NoFile EXCEPT !.type = type, !.name = name]

\* The file whose len blocks begin at start, and the next block to give out.
finishfile(file, start, len) ==
    [file EXCEPT !.size = len,
                 !.direct = [i \in 1..NDIRECT |-> IF i <= len THEN start + i - 1 ELSE 0],
                 !.indirect = IF NeedsIndirect(len) THEN start + len ELSE 0]
Indirect(start, len) == [kind |-> "pointers", pointers |->
    [k \in 1..NINDIRECT |-> IF NDIRECT + k <= len THEN start + NDIRECT + k - 1 ELSE 0]]
writefile(pos, len) == alloc(pos, len + (IF NeedsIndirect(len) THEN 1 ELSE 0))

opendisk == 3
finishdisk(pos) == Bitmap(pos..(NBLOCKS - 1))

fsformat(name, data) ==
    LET len == Len(data)
        dir == writefile(opendisk, len)
        entries == <<finishfile(diradd(FTYPE_DIR, "bin"), opendisk, 0),
                     finishfile(diradd(FTYPE_DIR, "sbin"), opendisk, 0),
                     finishfile(diradd(FTYPE_REG, name), opendisk, len)>>
    IN  [b \in Block |->
           CASE b = 0 -> Boot
             [] b = 1 -> Super(finishfile(diradd(FTYPE_DIR, "/"), dir, 1))
             [] b = 2 -> finishdisk(writefile(dir, 1))
             [] b - opendisk \in 0..(len - 1) -> [kind |-> "data", data |-> data[b - opendisk + 1]]
             [] b = opendisk + len /\ b # dir -> Indirect(opendisk, len)
             [] b = dir -> Directory([j \in 1..BLKFILES |-> IF j <= 3 THEN entries[j] ELSE NoFile])
             [] OTHER -> ZeroBlock]

Init ==
    /\ disk = fsformat(Motd, <<Message>>)
    /\ cache = disk /\ dirty = {} /\ todo = <<>>
    /\ server = "down" /\ mounts = 0
    /\ durable = (<<Motd>> :> <<Message>>) /\ promise = <<>>
    /\ bootcrash = FALSE /\ cutinside = FALSE

Next ==
    \/ ide_write \/ Flushed \/ Crash \/ Mount \/ Sync
    \/ \E p \in Paths :
          \/ CreateFile(p) \/ RemoveFile(p) \/ FlushFile(p)
          \/ \E z \in Sizes : SetSize(p, z)
          \/ (\E o \in Reads : ReadFile(p, o)) \/ \E w \in Writes : WriteFile(p, w[1], w[2])

Spec == Init /\ [][Next]_vars

-------------------------------------------------------------------------------
(* What a crash has mixed up on the disk can only come from a file that was    *)
(* cut and kept its indirect block (see DiskOwnedOnce).                        *)
MixedByCrash == cutinside /\ mounts > 1

(* In the cache no block belongs to two files or to two places of one, and a   *)
(* block of a file is never marked free: file_get_block() would give it away   *)
(* again, and bc_pgfault() would panic.  (fs/fs.c alloc_block, file_block_walk,*)
(* file_truncate_blocks, dir_alloc_file with a reused slot; full disk included)*)
BlocksOwnedOnce == server = "up" /\ ~MixedByCrash => OwnedOnce(cache)

(* At every moment the disk alone, without the cache, is a file system in which*)
(* blocks are owned once and not free, except while check_bc() has the super   *)
(* block smashed: a crash loses blocks and data, never mixes files.  A file    *)
(* that was cut and keeps its indirect block is the exception: the pointers    *)
(* are cleared in the cache only, and the bitmap reaches the disk before them. *)
DiskOwnedOnce == disk[1].kind = "super" /\ ~cutinside => OwnedOnce(disk)

(* What file_flush() or fs_sync() wrote survives: until the file is changed    *)
(* again, the disk has the file under its name with these contents.            *)
FlushedSurvives ==
    (disk[1].kind = "super" /\ server # "panic" /\ ~MixedByCrash) =>
        \A n \in DOMAIN durable :
            \E f \in At(disk, n) : Contents(disk, f) = durable[n]

(* The blocks that the search of the root directory has to allocate: those it  *)
(* lacks, and the indirect block if one is missing.                            *)
RootLacks(c) ==
    LET size == c[1].root.size IN
    Cardinality({n \in 0..(size - 1) : ~HasSlot(c, Root, n) \/ Slot(c, Root, n) = 0})
    + (IF size > NDIRECT /\ c[1].root.indirect = 0 THEN 1 ELSE 0)

(* The server starts on whatever a crash has left, as long as no crash hits a  *)
(* start (check_bc() and fs_test() rewrite the super block and a file of their *)
(* own) and the disk has a block for fs_test() to take and one for each that   *)
(* the root directory lacks: a create that fails on a full disk leaves it with *)
(* a hole, and fs_test() fills it (fs/test.c:23-34).                           *)
StartsAgain ==
    [][server = "down" /\ server' = "panic" =>
         bootcrash \/ Cardinality(disk[2].free) <= RootLacks(disk)]_vars
===============================================================================
