------------------------------- MODULE FsServer -------------------------------
(* Open files: the request loop of fs/serv.c, the client side of lib/file.c,   *)
(* lib/fd.c and lib/ipc.c, and the descriptor pages that they share.           *)
(*                                                                             *)
(* A descriptor of a file is a page that the server maps at opentab[i].o_fd and*)
(* every holder maps at its own address.  The server tells from pp_ref alone   *)
(* who still has the file open, clients move fd_offset themselves, and a call  *)
(* is a send, a receive, the server's work and its answer, with everybody else *)
(* running in between, dying included.  What the calls do to the disk is       *)
(* FsDisk; here a file is its name and size.                                   *)
EXTENDS Integers, FiniteSets, FiniteSetsExt

CONSTANTS
    Env,        \* client environments (slots of envs[])
    First,      \* the one that runs at the start
    MAXOPEN,    \* entries of opentab
    MAXFD,      \* descriptors of one environment
    IdMod,      \* 2^32: o_fileid is a uint32_t, returned as an int
    Names,      \* names of files
    NFILES,     \* struct Files of the directory
    Modes,      \* open modes: records of acc, creat, excl, trunc
    Reads, Writes,   \* n of read() and write()
    Sizes, Offsets,  \* arguments of ftruncate() and seek()
    PGSIZE,     \* what one request can carry
    WRITEMAX,   \* PGSIZE less the header of struct Fsreq_write
    MaxSize,    \* how far a file can grow before the disk is full
    MaxCalls,   \* bound on calls
    MaxKills,   \* bound on environments destroyed from outside
    MaxRefused  \* bound on sys_page_alloc() finding no memory

\* f_name[0] = 0: the struct File is free
NoName == "none"

ASSUME ServerAssumption ==
    /\ First \in Env /\ IsFiniteSet(Env)
    /\ MAXOPEN \in Nat \ {0} /\ MAXFD \in Nat \ {0} /\ NFILES \in Nat \ {0}
    /\ IdMod \in Nat \ {0} /\ IdMod % (2 * MAXOPEN) = 0
    /\ NoName \notin Names
    /\ (Reads \cup Writes \cup Sizes \cup Offsets) \subseteq Nat /\ PGSIZE \in Nat /\ WRITEMAX < PGSIZE
    /\ MaxSize \in Nat /\ MaxCalls \in Nat /\ MaxKills \in Nat /\ MaxRefused \in Nat

VARIABLES
    pc,         \* where a client is: free, run, send, recv, wait, answer, map, panic
    gen,        \* generation of env_id
    call,       \* the call that it makes, and r, its answer
    cow,        \* fsipcbuf is copy-on-write
    fdtab,      \* fdtab[e][d]: the entry whose Fd page e maps at descriptor d
    opentab,    \* o_fileid, o_file, whether the server has a page at o_fd, and how
                \* many mappings of it are left of environments that were destroyed
    fd,         \* the Fd pages; pos, raced and forked are history
    files,      \* the struct Files of the directory
    srv,        \* the server: pc, whom, the request and the answer
    calls, kills, refused,
    opened,     \* history: what e opened as d, or got by dup() or fork()
    orphaned,   \* history: somebody died before its request was answered
    unlinked    \* history: files that were removed while open
vars == <<pc, gen, call, cow, fdtab, opentab, fd, files, srv, calls, kills, refused,
          opened, orphaned, unlinked>>

clientVars == <<pc, gen, call, cow>>
boundVars == <<calls, kills, refused>>
tableVars == <<opentab, fd, files>>
histVars == <<opened, orphaned, unlinked>>

E_INVAL == -3
E_NO_MEM == -4
E_MAX_OPEN == -8
E_NO_DISK == -9
E_NOT_FOUND == -10
E_FILE_EXISTS == -13

Entry == 0..(MAXOPEN - 1)
Fdnum == 0..(MAXFD - 1)
File == 1..NFILES
None == -1
Nothing == [id |-> None, name |-> NoName]
\* No call; the fields of a request that a call does not use stay what they are here.
Idle == [op |-> "none", type |-> "none", d |-> None, fileid |-> None, x |-> 0, name |-> NoName,
         mode |-> [acc |-> "none", creat |-> FALSE, excl |-> FALSE, trunc |-> FALSE], r |-> 0]

(********************************* descriptors *******************************)
\* Everybody who maps an Fd page counts in its pp_ref.
Mapped(tab, i) == {m \in Env \X Fdnum : tab[m[1]][m[2]] = i}
pageref(i) == IF opentab[i].mapped THEN 1 + Cardinality(Mapped(fdtab, i)) + opentab[i].lost ELSE 0

Unused(e) == {d \in Fdnum : fdtab[e][d] = None}
\* The smallest descriptor whose page is not mapped.
fd_alloc(e) == IF Unused(e) = {} THEN E_MAX_OPEN ELSE Min(Unused(e))
fd_lookup(e, d) == IF fdtab[e][d] = None THEN E_INVAL ELSE 0
FdOf(e, d) == fd[fdtab[e][d]]

(******************************** client calls *******************************)
\* What a client puts into fsipcbuf goes to a page of its own.  sync() writes
\* nothing there: a page that is still copy-on-write cannot be sent with PTE_W,
\* and ipc_send() panics.
Request(e, c, writes) ==
    /\ call' = [call EXCEPT ![e] = c]
    /\ pc' = [pc EXCEPT ![e] = IF cow[e] /\ ~writes THEN "panic" ELSE "send"]
    /\ cow' = [cow EXCEPT ![e] = @ /\ ~writes]
    /\ UNCHANGED <<gen, fdtab, srv, tableVars, kills, refused, histVars>>

Calls(e) == pc[e] = "run" /\ calls < MaxCalls /\ calls' = calls + 1
OnFile(e, op, type, d, x) ==
    Request(e, [Idle EXCEPT !.op = op, !.type = type, !.d = d, !.fileid = FdOf(e, d).id, !.x = x], TRUE)

\* The file device of lib/file.c: each operation is one request.
devfile_flush(e, op, d, x) == OnFile(e, op, "flush", d, x)
devfile_read(e, d, n) == OnFile(e, "read", "read", d, n)
devfile_stat(e, d) == OnFile(e, "fstat", "stat", d, 0)
devfile_trunc(e, d, size) == OnFile(e, "ftruncate", "set_size", d, size)

\* devfile_write() asserts that the bytes fit.
devfile_write(e, d, n) ==
    IF n <= WRITEMAX THEN OnFile(e, "write", "write", d, n)
    ELSE /\ pc' = [pc EXCEPT ![e] = "panic"]
         /\ UNCHANGED <<gen, call, cow, fdtab, srv, tableVars, kills, refused, histVars>>

open(e, name, mode) ==
    /\ Calls(e)
    /\ fd_alloc(e) >= 0
    /\ Request(e, [Idle EXCEPT !.op = "open", !.type = "open", !.d = fd_alloc(e), !.name = name, !.mode = mode], TRUE)

read(e, d, n) ==
    /\ Calls(e)
    /\ fd_lookup(e, d) = 0 /\ FdOf(e, d).omode # "wronly"
    /\ devfile_read(e, d, n)

write(e, d, n) ==
    /\ Calls(e)
    /\ fd_lookup(e, d) = 0 /\ FdOf(e, d).omode # "rdonly"
    /\ devfile_write(e, d, n)

ftruncate(e, d, size) ==
    /\ Calls(e)
    /\ fd_lookup(e, d) = 0 /\ FdOf(e, d).omode # "rdonly"
    /\ devfile_trunc(e, d, size)

fstat(e, d) ==
    /\ Calls(e)
    /\ fd_lookup(e, d) = 0
    /\ devfile_stat(e, d)

\* close() flushes first, and unmaps the page when the answer is there.
close(e, d) ==
    /\ Calls(e)
    /\ fd_lookup(e, d) = 0
    /\ devfile_flush(e, "close", d, 0)

\* dup() closes the new descriptor, then maps the page of the old one there.
dup(e, old, new) ==
    /\ Calls(e)
    /\ old # new /\ fd_lookup(e, old) = 0
    /\ IF fd_lookup(e, new) = 0
       THEN devfile_flush(e, "dup", new, old)
       ELSE /\ pc' = [pc EXCEPT ![e] = "map"]
            /\ call' = [call EXCEPT ![e] = [Idle EXCEPT !.op = "dup", !.d = new, !.x = old]]
            /\ UNCHANGED <<gen, cow, fdtab, srv, tableVars, kills, refused, histVars>>

\* fd_offset is written by the client, whatever the server is doing.
seek(e, d, offset) ==
    /\ Calls(e)
    /\ fd_lookup(e, d) = 0
    /\ fd' = [fd EXCEPT ![fdtab[e][d]] =
                 [id |-> @.id, omode |-> @.omode, offset |-> offset, pos |-> offset,
                  raced |-> @.raced \/ (srv.pc = "advance" /\ srv.o = fdtab[e][d]),
                  forked |-> @.forked]]
    /\ UNCHANGED <<clientVars, fdtab, srv, opentab, files, kills, refused, histVars>>

remove(e, name) ==
    /\ Calls(e)
    /\ Request(e, [Idle EXCEPT !.op = "remove", !.type = "remove", !.name = name], TRUE)

sync(e) ==
    /\ Calls(e)
    /\ Request(e, [Idle EXCEPT !.op = "sync", !.type = "sync"], FALSE)

\* exit() closes all descriptors in order, one request after the other.
Leave(e) ==
    /\ pc' = [pc EXCEPT ![e] = "free"]
    /\ gen' = [gen EXCEPT ![e] = @ + 1]
    /\ call' = [call EXCEPT ![e] = Idle]
    /\ cow' = [cow EXCEPT ![e] = FALSE]
    /\ fdtab' = [fdtab EXCEPT ![e] = [d \in Fdnum |-> None]]
close_all(e) ==
    LET open_ == Fdnum \ Unused(e) IN
    IF open_ = {} THEN Leave(e) /\ UNCHANGED <<srv, tableVars, kills, refused, orphaned, unlinked>>
                       /\ opened' = [opened EXCEPT ![e] = [d \in Fdnum |-> Nothing]]
    ELSE devfile_flush(e, "exit", Min(open_), 0)
exit(e) == Calls(e) /\ close_all(e)

\* fork() marks fsipcbuf copy-on-write in both and shares the Fd pages (PTE_SHARE).
Held(e) == {fdtab[e][d] : d \in Fdnum} \ {None}
fork(e, child) ==
    /\ Calls(e)
    /\ pc[child] = "free"
    /\ pc' = [pc EXCEPT ![child] = "run"]
    /\ cow' = [cow EXCEPT ![e] = TRUE, ![child] = TRUE]
    /\ fdtab' = [fdtab EXCEPT ![child] = fdtab[e]]
    /\ opened' = [opened EXCEPT ![child] = opened[e]]
    /\ fd' = [i \in Entry |-> [fd[i] EXCEPT !.forked = @ \/ i \in Held(e)]]
    /\ UNCHANGED <<gen, call, srv, opentab, files, kills, refused, orphaned, unlinked>>

\* sys_env_destroy() by a parent, or a fault that nobody handles.  env_free() stops
\* below the descriptor pages: their pp_ref counts the dead for ever.
Kill(e) ==
    /\ pc[e] # "free" /\ kills < MaxKills
    /\ Leave(e)
    /\ kills' = kills + 1
    /\ opentab' = [i \in Entry |->
                      [opentab[i] EXCEPT !.lost = @ + Cardinality({d \in Fdnum : fdtab[e][d] = i})]]
    /\ opened' = [opened EXCEPT ![e] = [d \in Fdnum |-> Nothing]]
    /\ orphaned' = (orphaned \/ (srv.pc \in {"serve", "advance", "send"} /\ srv.whom = <<e, gen[e]>>))
    /\ UNCHANGED <<srv, fd, files, calls, refused, unlinked>>

(******************************** lib/ipc.c **********************************)
\* ipc_send() to the server tries until the server receives.
ipc_send(e) ==
    /\ pc[e] = "send" /\ srv.pc = "recv"
    /\ pc' = [pc EXCEPT ![e] = "recv"]
    /\ srv' = [srv EXCEPT !.pc = "serve", !.whom = <<e, gen[e]>>, !.req = call[e]]
    /\ UNCHANGED <<gen, call, cow, fdtab, tableVars, boundVars, histVars>>

ipc_recv(e) ==
    /\ pc[e] = "recv"
    /\ pc' = [pc EXCEPT ![e] = "wait"]
    /\ UNCHANGED <<gen, call, cow, fdtab, srv, tableVars, boundVars, histVars>>

\* The answer is there: what open() and close(), dup() and exit() do with it.
Return(e) ==
    /\ pc[e] = "answer"
    /\ LET gone == [fdtab EXCEPT ![e][call[e].d] = None]
           forgot == [opened EXCEPT ![e][call[e].d] = Nothing]
           op == call[e].op
       IN  /\ IF op \in {"close", "dup", "exit"}
              THEN fdtab' = gone /\ opened' = forgot ELSE UNCHANGED <<fdtab, opened>>
           /\ pc' = [pc EXCEPT ![e] = CASE op = "dup" -> "map" [] op = "exit" -> "exit" [] OTHER -> "run"]
           /\ call' = [call EXCEPT ![e] = IF op = "dup" THEN @ ELSE Idle]
    /\ UNCHANGED <<gen, cow, srv, tableVars, boundVars, orphaned, unlinked>>

\* sys_page_map() of the old descriptor's page at the new one's address.
dup_map(e) ==
    /\ pc[e] = "map"
    /\ fdtab' = [fdtab EXCEPT ![e][call[e].d] = fdtab[e][call[e].x]]
    /\ opened' = [opened EXCEPT ![e][call[e].d] = opened[e][call[e].x]]
    /\ pc' = [pc EXCEPT ![e] = "run"]
    /\ call' = [call EXCEPT ![e] = Idle]
    /\ UNCHANGED <<gen, cow, srv, tableVars, boundVars, orphaned, unlinked>>

exit_next(e) ==
    /\ pc[e] = "exit" /\ close_all(e) /\ UNCHANGED calls

Step(e) == ipc_send(e) \/ ipc_recv(e) \/ Return(e) \/ dup_map(e) \/ exit_next(e)

(********************************* fs/serv.c *********************************)
NewFd(id, omode) == [id |-> id, offset |-> 0, omode |-> omode, pos |-> 0, raced |-> FALSE, forked |-> FALSE]

\* Mistake: an entry counts as free when nobody but its client has the page.
AllocLooksAtClients == {i \in Entry : pageref(i) <= 2}
\* An entry is free if it has no page, or a page that only the server maps.
Available == {i \in Entry : pageref(i) <= 1}

\* o_fileid of an entry that is taken again.
NextId(i) == (opentab[i].fileid + MAXOPEN) % IdMod

\* The entry of a file id, if somebody but the server has its page.
openfile_lookup(fileid) ==
    LET i == fileid % MAXOPEN
    IN  IF pageref(i) = 1 \/ opentab[i].fileid # fileid THEN E_INVAL ELSE 0

Find(name) == {f \in File : files[f].name = name}
Vacant == {f \in File : files[f].name = NoName}

\* The handler is done: r goes back to the client, with the page of entry o.
Answer(r, o) == srv' = [srv EXCEPT !.pc = "send", !.r = r, !.pg = o]
Serves(type) == srv.pc = "serve" /\ srv.req.type = type

\* Mistake: o_file is set only when the entry is used for the first time.
KeepsOldFile(i) ==
    /\ opentab' = [opentab EXCEPT ![i] = [fileid |-> NextId(i), mapped |-> TRUE, lost |-> @.lost,
                                          file |-> IF srv'.pg = i /\ ~@.mapped THEN srv'.file ELSE @.file]]
    /\ fd' = [fd EXCEPT ![i] = IF srv'.pg = i THEN NewFd(NextId(i), srv.req.mode.acc) ELSE NewFd(0, "rdonly")]

\* An entry is taken, with a new number, before it is known whether the file can
\* be opened; as an int, a large file id is an error.
openfile_alloc(i) ==
    /\ opentab' = [opentab EXCEPT ![i] = [fileid |-> NextId(i), mapped |-> TRUE, lost |-> @.lost,
                                          file |-> IF srv'.pg = i THEN srv'.file ELSE @.file]]
    /\ fd' = [fd EXCEPT ![i] = IF srv'.pg = i THEN NewFd(NextId(i), srv.req.mode.acc) ELSE NewFd(0, "rdonly")]

serve_open ==
    LET mode == srv.req.mode
        name == srv.req.name
        found == Find(name)
        create == mode.creat /\ found = {}
        f == IF create THEN Min(Vacant) ELSE Min(found)
        i == Min(Available)
    IN
    /\ Serves("open")
    /\ UNCHANGED <<clientVars, fdtab, calls, kills, histVars>>
    /\ \/ /\ Available = {}
          /\ Answer(E_MAX_OPEN, None)
          /\ UNCHANGED <<tableVars, refused>>
       \/ \* no memory for the page
          /\ Available # {} /\ pageref(i) = 0 /\ refused < MaxRefused
          /\ refused' = refused + 1
          /\ Answer(E_NO_MEM, None)
          /\ UNCHANGED tableVars
       \/ /\ Available # {}
          /\ \/ /\ NextId(i) >= IdMod \div 2
                /\ Answer(NextId(i) - IdMod, None)
                /\ UNCHANGED files
             \/ /\ NextId(i) < IdMod \div 2
                /\ \/ mode.creat /\ mode.excl /\ found # {}
                   \/ create /\ Vacant = {}
                   \/ ~mode.creat /\ found = {}
                /\ Answer(IF found # {} THEN E_FILE_EXISTS ELSE E_NOT_FOUND, None)
                /\ UNCHANGED files
             \/ /\ NextId(i) < IdMod \div 2
                /\ IF create THEN Vacant # {} ELSE found # {} /\ ~(mode.creat /\ mode.excl)
                /\ files' = [files EXCEPT ![f] = [name |-> name, size |-> IF mode.trunc THEN 0 ELSE @.size]]
                /\ srv' = [srv EXCEPT !.pc = "send", !.r = 0, !.pg = i, !.file = f]
          /\ openfile_alloc(i)
          /\ UNCHANGED refused

Lookup == openfile_lookup(srv.req.fileid)
Opened == opentab[srv.req.fileid % MAXOPEN]

FileRequests == {"read", "write", "set_size", "stat", "flush"}
\* Nothing to be changed: r goes back, which is an error if there is no such file.
Reply(r) == Answer(r, None) /\ UNCHANGED <<clientVars, fdtab, tableVars, boundVars, histVars>>

\* n bytes are read or written at fd_offset; the offset follows in a later access.
Transfer(n) ==
    LET i == srv.req.fileid % MAXOPEN IN
    /\ srv' = [srv EXCEPT !.pc = "advance", !.o = i, !.r = n]
    /\ fd' = [fd EXCEPT ![i].pos = @ + n]
    /\ UNCHANGED <<clientVars, fdtab, opentab, boundVars, histVars>>

Clip(n) == Min({n, PGSIZE})
serve_read ==
    LET offset == fd[srv.req.fileid % MAXOPEN].offset
        size == files[Opened.file].size
    IN
    /\ Serves("read")
    /\ IF Lookup < 0 THEN Reply(Lookup)
       ELSE /\ Transfer(IF offset >= size THEN 0 ELSE Min({Clip(srv.req.x), size - offset}))
            /\ UNCHANGED files

\* The size of the file is set before a block for the bytes is found.
serve_write ==
    LET end == fd[srv.req.fileid % MAXOPEN].offset + Clip(srv.req.x) IN
    /\ Serves("write")
    /\ IF Lookup < 0 THEN Reply(Lookup)
       ELSE /\ files' = [files EXCEPT ![Opened.file].size = Max({@, end})]
            /\ IF end <= MaxSize THEN Transfer(Clip(srv.req.x))
               ELSE Answer(E_NO_DISK, None) /\ UNCHANGED <<clientVars, fdtab, opentab, fd, boundVars, histVars>>

\* Mistake: the position is what it was when the request came in, plus r.
AdvanceFromStart ==
    /\ srv.pc = "advance"
    /\ fd' = [fd EXCEPT ![srv.o].offset = srv.r]
    /\ Answer(srv.r, None)
    /\ UNCHANGED <<clientVars, fdtab, opentab, files, boundVars, histVars>>
\* o->o_fd->fd_offset += r
advance ==
    /\ srv.pc = "advance"
    /\ fd' = [fd EXCEPT ![srv.o].offset = @ + srv.r]
    /\ Answer(srv.r, None)
    /\ UNCHANGED <<clientVars, fdtab, opentab, files, boundVars, histVars>>

serve_set_size ==
    /\ Serves("set_size")
    /\ files' = IF Lookup < 0 THEN files ELSE [files EXCEPT ![Opened.file].size = srv.req.x]
    /\ Answer(Lookup, None)
    /\ UNCHANGED <<clientVars, fdtab, opentab, fd, boundVars, histVars>>

\* stat and flush change no open file; sync asks for none.
serve_stat == Serves("stat") /\ Reply(Lookup)
serve_flush == Serves("flush") /\ Reply(Lookup)
serve_sync == Serves("sync") /\ Reply(0)

\* The directory entry is free again, whoever still has the file open.
serve_remove ==
    LET found == Find(srv.req.name) IN
    /\ Serves("remove")
    /\ IF found = {} THEN Answer(E_NOT_FOUND, None) /\ UNCHANGED <<files, unlinked>>
       ELSE /\ Answer(0, None)
            /\ files' = [files EXCEPT ![Min(found)] = [name |-> NoName, size |-> 0]]
            /\ unlinked' = unlinked \cup {Min(found)}
    /\ UNCHANGED <<clientVars, fdtab, opentab, fd, boundVars, opened, orphaned>>

\* The client gets the result, and the page at the descriptor that it has chosen.
Deliver(e) ==
    /\ pc' = [pc EXCEPT ![e] = "answer"]
    /\ call' = [call EXCEPT ![e].r = srv.r]
    /\ IF srv.pg = None THEN UNCHANGED <<fdtab, opened>>
       ELSE /\ fdtab' = [fdtab EXCEPT ![e][call[e].d] = srv.pg]
            /\ opened' = [opened EXCEPT ![e][call[e].d] =
                            [id |-> opentab[srv.pg].fileid, name |-> srv.req.name]]

\* Mistake: the server does not look at the result of sys_ipc_try_send().
AnswersBlindly ==
    LET e == srv.whom[1] IN
    /\ srv.pc = "send"
    /\ srv' = [srv EXCEPT !.pc = "again"]
    /\ IF pc[e] = "wait" /\ gen[e] = srv.whom[2]
       THEN Deliver(e) ELSE UNCHANGED <<pc, call, fdtab, opened>>
    /\ UNCHANGED <<gen, cow, tableVars, boundVars, orphaned, unlinked>>

\* Mistake: a client that does not wait yet is an error like any other.
PanicsUnlessWaiting ==
    LET e == srv.whom[1]
        exists == pc[e] = "wait" /\ gen[e] = srv.whom[2]
    IN
    /\ srv.pc = "send"
    /\ srv' = [srv EXCEPT !.pc = IF exists THEN "again" ELSE "panic"]
    /\ IF exists THEN Deliver(e) ELSE UNCHANGED <<pc, call, fdtab, opened>>
    /\ UNCHANGED <<gen, cow, tableVars, boundVars, orphaned, unlinked>>

\* ipc_send() of the answer: again until the client waits.  It panics if the client
\* is gone, and if there is no memory for the table that a descriptor page needs in
\* a client that has none mapped (page_insert() of sys_ipc_try_send()); that a table
\* outlives the pages in it is not counted on.
answer ==
    LET e == srv.whom[1]
        exists == pc[e] # "free" /\ gen[e] = srv.whom[2]
    IN
    /\ srv.pc = "send"
    /\ exists => pc[e] = "wait"
    /\ \/ /\ exists
          /\ srv' = [srv EXCEPT !.pc = "again"]
          /\ Deliver(e)
          /\ UNCHANGED refused
       \/ /\ ~exists
          /\ srv' = [srv EXCEPT !.pc = "panic"]
          /\ UNCHANGED <<pc, call, fdtab, opened, refused>>
       \/ /\ exists /\ srv.pg # None /\ Held(e) = {} /\ refused < MaxRefused
          /\ refused' = refused + 1
          /\ srv' = [srv EXCEPT !.pc = "panic"]
          /\ UNCHANGED <<pc, call, fdtab, opened>>
    /\ UNCHANGED <<gen, cow, tableVars, calls, kills, orphaned, unlinked>>

\* ipc_recv() of the server: nobody has asked yet.
Receiving == [pc |-> "recv", whom |-> <<First, 0>>, req |-> Idle, r |-> 0, pg |-> None, o |-> 0, file |-> 1]
\* The request page is unmapped and the server receives again.
serve ==
    /\ srv.pc = "again"
    /\ srv' = Receiving
    /\ UNCHANGED <<clientVars, fdtab, tableVars, boundVars, histVars>>

Server ==
    \/ serve_open \/ serve_read \/ serve_write \/ advance \/ serve_set_size
    \/ serve_stat \/ serve_flush \/ serve_sync \/ serve_remove \/ answer \/ serve

Init ==
    /\ pc = [e \in Env |-> IF e = First THEN "run" ELSE "free"]
    /\ gen = [e \in Env |-> 0]
    /\ call = [e \in Env |-> Idle]
    /\ cow = [e \in Env |-> FALSE]
    /\ fdtab = [e \in Env |-> [d \in Fdnum |-> None]]
    /\ opentab = [i \in Entry |-> [fileid |-> i, file |-> 1, mapped |-> FALSE, lost |-> 0]]
    /\ fd = [i \in Entry |-> NewFd(0, "rdonly")]
    /\ files = [f \in File |-> [name |-> NoName, size |-> 0]]
    /\ srv = Receiving
    /\ calls = 0 /\ kills = 0 /\ refused = 0
    /\ opened = [e \in Env |-> [d \in Fdnum |-> Nothing]]
    /\ orphaned = FALSE /\ unlinked = {}

Call(e) ==
    \/ \E n \in Names : remove(e, n) \/ \E m \in Modes : open(e, n, m)
    \/ \E d \in Fdnum : close(e, d) \/ fstat(e, d) \/ \E d2 \in Fdnum : dup(e, d, d2)
    \/ \E d \in Fdnum :
          \/ (\E n \in Reads : read(e, d, n)) \/ (\E n \in Writes : write(e, d, n))
          \/ (\E n \in Sizes : ftruncate(e, d, n)) \/ (\E n \in Offsets : seek(e, d, n))
    \/ sync(e) \/ exit(e) \/ \E c \in Env : fork(e, c)

Next == Server \/ \E e \in Env : Step(e) \/ Call(e) \/ Kill(e)
Spec == Init /\ [][Next]_vars

\* The scheduler runs every environment that can run; calls need not happen.
FairSpec == Spec /\ WF_vars(Server) /\ \A e \in Env : WF_vars(Step(e))

-------------------------------------------------------------------------------
CallRecords ==
    [op : {"none", "open", "read", "write", "ftruncate", "fstat", "close", "dup", "remove", "sync", "exit"},
     type : FileRequests \cup {"none", "open", "remove", "sync"}, d : Fdnum \cup {None}, fileid : Int, x : Nat,
     name : Names \cup {NoName}, mode : Modes \cup {Idle.mode}, r : Int]
TypeOK ==
    /\ pc \in [Env -> {"free", "run", "send", "recv", "wait", "answer", "map", "exit", "panic"}]
    /\ gen \in [Env -> Nat] /\ call \in [Env -> CallRecords] /\ cow \in [Env -> BOOLEAN]
    /\ fdtab \in [Env -> [Fdnum -> Entry \cup {None}]]
    /\ opentab \in [Entry -> [fileid : 0..(IdMod - 1), file : File, mapped : BOOLEAN, lost : Nat]]
    /\ fd \in [Entry -> [id : Int, offset : Nat, omode : {m.acc : m \in Modes} \cup {"rdonly"},
                          pos : Nat, raced : BOOLEAN, forked : BOOLEAN]]
    /\ files \in [File -> [name : Names \cup {NoName}, size : Nat]]
    /\ srv \in [pc : {"recv", "serve", "advance", "send", "again", "panic"}, whom : Env \X Nat, req : CallRecords,
               r : Int, pg : Entry \cup {None}, o : Entry, file : File]
    /\ opened \in [Env -> [Fdnum -> [id : Int, name : Names \cup {NoName}]]]
    /\ orphaned \in BOOLEAN /\ unlinked \subseteq File

(* A descriptor stays what it was when it was opened, inherited or copied: as  *)
(* long as anybody maps the page, its entry is not given to another open, the  *)
(* numbers in the page and in the table are the ones that open() got, and no   *)
(* request of a holder is refused as an unknown file.  (openfile_alloc and     *)
(* openfile_lookup judge by pp_ref; file ids wrap around.)                     *)
EntryKept ==
    /\ \A e \in Env, d \in Fdnum :
          LET i == fdtab[e][d] IN
          /\ i = None <=> opened[e][d] = Nothing
          /\ i # None => opentab[i].mapped /\ opentab[i].fileid = opened[e][d].id /\ fd[i].id = opened[e][d].id
    /\ (srv.pc = "send" /\ srv.req.type # "open" /\ srv.r = E_INVAL) => orphaned

(* A descriptor reads and writes the file whose name was opened, unless a file *)
(* was removed: then its struct File may already be another file's.            *)
DescriptorMeansFile ==
    \A e \in Env, d \in Fdnum :
        fdtab[e][d] # None =>
            LET f == opentab[fdtab[e][d]].file
            IN  f \in unlinked \/ files[f].name = opened[e][d].name

(* A program that shares a descriptor with no other, by fork(), goes on where   *)
(* it stopped: fd_offset is its last seek() plus everything read and written    *)
(* since, over dup(), retried calls, reused entries and clients that die in the *)
(* middle of a request.  Between two that share one it can be wrong: a seek()   *)
(* may fall between the server's transfer and its update of fd_offset.          *)
PrivateOffset ==
    \A i \in Entry :
        \/ fd[i].offset + (IF srv.pc = "advance" /\ srv.o = i THEN srv.r ELSE 0) = fd[i].pos
        \/ fd[i].raced /\ fd[i].forked

(* The server stops only because a client died before its request was answered  *)
(* (ipc_send() panics on -E_BAD_ENV), or because no memory was left when it had *)
(* a descriptor page to send (-E_NO_MEM); no order of calls, forks, exits and   *)
(* failed opens does it.                                                        *)
ServerSurvives ==
    srv.pc = "panic" => orphaned \/ (srv.req.type = "open" /\ srv.pg # None /\ refused > 0)

(* Whoever asks is answered, or dies, if the server has not stopped: no client *)
(* waits for an answer that went elsewhere, and the server never waits for one *)
(* that does not listen.                                                       *)
Answered ==
    \A e \in Env : pc[e] \in {"send", "recv", "wait"} ~> (pc[e] \in {"answer", "run", "map", "exit", "free"} \/ srv.pc = "panic")
===============================================================================
