-------------------------------- MODULE Pipe --------------------------------
(***************************************************************************)
(* Pipes: lib/pipe.c, with the parts of lib/fd.c, lib/fork.c and           *)
(* lib/pageref.c that change or read the reference counts from which       *)
(* _pipeisclosed() tells whether the other end is still open.              *)
(*                                                                         *)
(* A pipe is one page, struct Pipe, mapped beside the page of every        *)
(* descriptor of either end.  pages[].pp_ref of a descriptor's page counts *)
(* the descriptors of that end, pp_ref of the pipe's page those of both.   *)
(* The environments share these pages and run on NCPU processors; a system *)
(* call is one step, and so is each access to shared memory.               *)
(***************************************************************************)
EXTENDS Naturals, Sequences, FiniteSets

CONSTANTS
    Env,        \* environments
    First,      \* the one that called pipe()
    Reader,     \* the one that reads
    Writer,     \* the one that writes
    NCPU,       \* processors
    PIPEBUFSIZ,
    ReadLen,    \* the n of read()
    WriteLen,   \* the n of write()
    MaxWrites,  \* calls of write(): bounds p_wpos, an int32_t
    MaxFds,     \* descriptors of one end in one environment
    MaxTicks    \* timer interrupts within library code

ASSUME PipeAssumption ==
    /\ {First, Reader, Writer} \subseteq Env /\ IsFiniteSet(Env)
    /\ NCPU \in Nat \ {0}
    /\ PIPEBUFSIZ \in Nat \ {0}
    /\ ReadLen \in Nat \ {0}
    /\ WriteLen \in Nat \ {0}
    /\ MaxWrites \in Nat
    /\ MaxFds \in Nat \ {0}
    /\ MaxTicks \in Nat

VARIABLES
    p_rpos, p_wpos, p_buf,  \* struct Pipe
    fds,      \* fds[e][d]: descriptor pages of end d mapped in e
    datas,    \* datas[e][d]: mappings of struct Pipe that belong to them
    pc,       \* where e is
    end,      \* the end its call is about
    call,     \* which call it is: the program's own _pipeisclosed(), or I/O
    i,        \* bytes that its read() or write() has done
    ref,      \* pageref(fd), as e read it
    ret,      \* ret of _pipeisclosed()
    ran,      \* env_run(e) between e's two readings of its env_runs
    running,  \* the environments that are on a processor
    got,      \* what the reader has received, in order
    eof,      \* read() has returned 0
    writes,   \* calls of write() so far
    ticks     \* timer interrupts within library code so far

pipeVars == <<p_rpos, p_wpos, p_buf>>
mapVars == <<fds, datas>>
callVars == <<end, call, i, ref, ret>>
histVars == <<got, eof, writes>>
schedVars == <<ran, running, ticks>>
vars == <<pipeVars, mapVars, pc, callVars, histVars, schedVars>>

End == {"r", "w"}
Other(d) == IF d = "r" THEN "w" ELSE "r"

\* The mappings that some of the counts above stand for: <<environment, end,
\* number>>.  pages[].pp_ref is how many there are of a page: of the
\* descriptor page of end d, and of struct Pipe.
Mappings(count) == {m \in Env \X End \X (1 .. MaxFds) : m[3] <= count[m[1]][m[2]]}
FdRef(d) == Cardinality({m \in Mappings(fds) : m[2] = d})
PipeRef == Cardinality(Mappings(datas))

\* "unborn": no environment, or a child whose parent is still in fork().
Place == {"unborn", "user", "gone", "close", "dup", "fork_data", "fork_fd",
          "r_test", "r_take", "r_inc", "w_test", "w_store", "w_inc",
          "n", "ref", "ret", "nn"}

Init ==
    /\ p_rpos = 0 /\ p_wpos = 0
    /\ p_buf = [k \in 0 .. PIPEBUFSIZ - 1 |-> 0]
    /\ fds = [e \in Env |-> [d \in End |-> IF e = First THEN 1 ELSE 0]]
    /\ datas = fds
    /\ pc = [e \in Env |-> IF e = First THEN "user" ELSE "unborn"]
    /\ end = [e \in Env |-> "r"]
    /\ call = [e \in Env |-> "none"]
    /\ i = [e \in Env |-> 0]
    /\ ref = [e \in Env |-> 0]
    /\ ret = [e \in Env |-> FALSE]
    /\ ran = [e \in Env |-> FALSE]
    /\ running = {First}
    /\ got = <<>> /\ eof = FALSE /\ writes = 0 /\ ticks = 0

-----------------------------------------------------------------------------
(***************************************************************************)
(* The kernel: sched_yield() gives every runnable environment its turn     *)
(* (NoStarvation of Kernel.tla), and env_run() counts in env_runs.         *)
(***************************************************************************)
Exists(e) == pc[e] \notin {"unborn", "gone"}

env_run(e) ==
    /\ Exists(e) /\ e \notin running
    /\ Cardinality(running) < NCPU
    /\ running' = running \cup {e}
    /\ ran' = [ran EXCEPT ![e] = pc[e] \in {"ref", "ret", "nn"}]
    /\ UNCHANGED <<pipeVars, mapVars, pc, callVars, histVars, ticks>>

timer(e) ==
    /\ e \in running
    /\ pc[e] = "user" \/ ticks < MaxTicks
    /\ running' = running \ {e}
    /\ ticks' = IF pc[e] = "user" THEN ticks ELSE ticks + 1
    /\ UNCHANGED <<pipeVars, mapVars, pc, callVars, histVars, ran>>

\* Step of e from place to place on its own processor.
At(e, place) == e \in running /\ pc[e] = place
Goto(e, place) == pc' = [pc EXCEPT ![e] = place]
Stays == UNCHANGED schedVars

\* Entry of a library call on a descriptor of end d.
Enter(e, d, name, place) ==
    /\ At(e, "user")
    /\ fds[e][d] > 0
    /\ end' = [end EXCEPT ![e] = d]
    /\ call' = [call EXCEPT ![e] = name]
    /\ Goto(e, place)
    /\ UNCHANGED <<i, ref, ret>>

\* Back in the program; what was local to the call is gone.
Return(e) ==
    /\ Goto(e, "user")
    /\ end' = [end EXCEPT ![e] = "r"]
    /\ call' = [call EXCEPT ![e] = "none"]
    /\ i' = [i EXCEPT ![e] = 0]
    /\ ref' = [ref EXCEPT ![e] = 0]
    /\ ret' = [ret EXCEPT ![e] = FALSE]

-----------------------------------------------------------------------------
(***************************************************************************)
(* Descriptors.                                                            *)
(***************************************************************************)

\* devpipe_close(): the descriptor's page goes first.
close(e, d) ==
    /\ Enter(e, d, "close", "close")
    /\ fds' = [fds EXCEPT ![e][d] = @ - 1]
    /\ Stays /\ UNCHANGED <<pipeVars, datas, histVars>>

close_data(e) ==
    /\ At(e, "close")
    /\ datas' = [datas EXCEPT ![e][end[e]] = @ - 1]
    /\ Return(e)
    /\ Stays /\ UNCHANGED <<pipeVars, fds, histVars>>

\* dup(): the pipe's page is mapped first.
dup(e, d) ==
    /\ Enter(e, d, "dup", "dup")
    /\ fds[e][d] < MaxFds
    /\ datas' = [datas EXCEPT ![e][d] = @ + 1]
    /\ Stays /\ UNCHANGED <<pipeVars, fds, histVars>>

dup_fd(e) ==
    /\ At(e, "dup")
    /\ fds' = [fds EXCEPT ![e][end[e]] = @ + 1]
    /\ Return(e)
    /\ Stays /\ UNCHANGED <<pipeVars, datas, histVars>>

\* The environment that fork() is filling; one fork at a time.
Unborn == {f \in Env : pc[f] = "unborn"}
Child == CHOOSE f \in Unborn : TRUE

\* fork() walks down from the stack: the pages above FILEDATA come before the
\* descriptors' pages; all are PTE_SHARE, so duppage() maps them in the child.
fork(e) ==
    /\ At(e, "user")
    /\ Unborn # {}
    /\ \A f \in Env : pc[f] \notin {"fork_data", "fork_fd"}
    /\ Goto(e, "fork_data")
    /\ Stays /\ UNCHANGED <<pipeVars, mapVars, callVars, histVars>>

fork_data(e) ==
    /\ At(e, "fork_data")
    /\ LET f == Child
           todo == {d \in End : datas[f][d] < datas[e][d]}
       IN  IF todo = {} THEN Goto(e, "fork_fd") /\ UNCHANGED datas
           ELSE /\ \E d \in todo : datas' = [datas EXCEPT ![f][d] = @ + 1]
                /\ UNCHANGED pc
    /\ Stays /\ UNCHANGED <<pipeVars, fds, callVars, histVars>>

\* The last step is sys_env_set_status(envid, ENV_RUNNABLE).
fork_fd(e) ==
    /\ At(e, "fork_fd")
    /\ LET f == Child
           todo == {d \in End : fds[f][d] < fds[e][d]}
       IN  IF todo = {} THEN pc' = [pc EXCEPT ![e] = "user", ![f] = "user"] /\ UNCHANGED fds
           ELSE /\ \E d \in todo : fds' = [fds EXCEPT ![f][d] = @ + 1]
                /\ UNCHANGED pc
    /\ Stays /\ UNCHANGED <<pipeVars, datas, callVars, histVars>>

\* exit(): close_all(), then sys_env_destroy().
exit(e) ==
    /\ At(e, "user")
    /\ \A d \in End : fds[e][d] = 0
    /\ Goto(e, "gone")
    /\ running' = running \ {e}
    /\ UNCHANGED <<pipeVars, mapVars, callVars, histVars, ran, ticks>>

-----------------------------------------------------------------------------
(***************************************************************************)
(* _pipeisclosed(), called by the program or by devpipe_read() or          *)
(* devpipe_write() from their loops.                                       *)
(***************************************************************************)
pipeisclosed(e, d) ==
    /\ Enter(e, d, "pipeisclosed", "n")
    /\ Stays /\ UNCHANGED <<pipeVars, mapVars, histVars>>

\* n = thisenv->env_runs
read_n(e) ==
    /\ At(e, "n")
    /\ Goto(e, "ref")
    /\ Stays /\ UNCHANGED <<pipeVars, mapVars, callVars, histVars>>

\* pageref(fd)
read_ref(e) ==
    /\ At(e, "ref")
    /\ ref' = [ref EXCEPT ![e] = FdRef(end[e])]
    /\ Goto(e, "ret")
    /\ Stays /\ UNCHANGED <<pipeVars, mapVars, end, call, i, ret, histVars>>

\* ret = pageref(fd) == pageref(p)
read_ret(e) ==
    /\ At(e, "ret")
    /\ ret' = [ret EXCEPT ![e] = (ref[e] = PipeRef)]
    /\ Goto(e, "nn")
    /\ Stays /\ UNCHANGED <<pipeVars, mapVars, end, call, i, ref, histVars>>

\* Mutant: the answer is believed without a second look at env_runs.
read_nn_no_check(e) ==
    /\ At(e, "nn")
    /\ \/ /\ call[e] = "pipeisclosed" \/ ret[e]
          /\ Return(e)
          /\ eof' = (eof \/ call[e] = "read")
          /\ Stays
       \/ /\ call[e] # "pipeisclosed" /\ ~ret[e]
          /\ Goto(e, IF call[e] = "read" THEN "r_test" ELSE "w_test")
          /\ running' = running \ {e}
          /\ UNCHANGED <<callVars, eof, ran, ticks>>
    /\ UNCHANGED <<pipeVars, mapVars, got, writes>>

\* nn = thisenv->env_runs, and what follows from the answer: devpipe_read()
\* and devpipe_write() return 0 if the other end is closed, else they yield.
read_nn(e) ==
    /\ At(e, "nn")
    /\ \/ /\ ran[e]
          /\ Goto(e, "n")
          /\ ran' = [ran EXCEPT ![e] = FALSE]
          /\ UNCHANGED <<callVars, eof, running, ticks>>
       \/ /\ ~ran[e]
          /\ call[e] = "pipeisclosed" \/ ret[e]
          /\ Return(e)
          /\ eof' = (eof \/ call[e] = "read")
          /\ Stays
       \/ /\ ~ran[e]
          /\ call[e] # "pipeisclosed" /\ ~ret[e]
          /\ Goto(e, IF call[e] = "read" THEN "r_test" ELSE "w_test")
          /\ running' = running \ {e}
          /\ UNCHANGED <<callVars, eof, ran, ticks>>
    /\ UNCHANGED <<pipeVars, mapVars, got, writes>>

-----------------------------------------------------------------------------
(***************************************************************************)
(* devpipe_read() and devpipe_write().  A program that has seen the end of *)
(* the file stops reading.                                                 *)
(***************************************************************************)
read(e) ==
    /\ e = Reader /\ ~eof
    /\ Enter(e, "r", "read", "r_test")
    /\ Stays /\ UNCHANGED <<pipeVars, mapVars, histVars>>

\* Mutant: an empty pipe is waited for without asking whether it is closed.
r_test_wait(e) ==
    /\ At(e, "r_test")
    /\ \/ /\ p_rpos = p_wpos /\ i[e] = 0
          /\ running' = running \ {e}
          /\ UNCHANGED <<pc, callVars, ran, ticks>>
       \/ /\ p_rpos = p_wpos /\ i[e] > 0
          /\ Return(e) /\ Stays
       \/ /\ p_rpos # p_wpos
          /\ Goto(e, "r_take")
          /\ Stays /\ UNCHANGED callVars
    /\ UNCHANGED <<pipeVars, mapVars, histVars>>

r_test(e) ==
    /\ At(e, "r_test")
    /\ IF p_rpos = p_wpos /\ i[e] > 0 THEN Return(e)
       ELSE /\ Goto(e, IF p_rpos = p_wpos THEN "n" ELSE "r_take")
            /\ UNCHANGED callVars
    /\ Stays /\ UNCHANGED <<pipeVars, mapVars, histVars>>

r_take(e) ==
    /\ At(e, "r_take")
    /\ got' = Append(got, p_buf[p_rpos % PIPEBUFSIZ])
    /\ Goto(e, "r_inc")
    /\ Stays /\ UNCHANGED <<pipeVars, mapVars, callVars, eof, writes>>

r_inc(e) ==
    /\ At(e, "r_inc")
    /\ p_rpos' = p_rpos + 1
    /\ IF i[e] + 1 = ReadLen THEN Return(e)
       ELSE /\ i' = [i EXCEPT ![e] = @ + 1]
            /\ Goto(e, "r_test")
            /\ UNCHANGED <<end, call, ref, ret>>
    /\ Stays /\ UNCHANGED <<p_wpos, p_buf, mapVars, histVars>>

write(e) ==
    /\ e = Writer /\ writes < MaxWrites
    /\ Enter(e, "w", "write", "w_test")
    /\ writes' = writes + 1
    /\ Stays /\ UNCHANGED <<pipeVars, mapVars, got, eof>>

\* Mutant: the buffer is taken for one byte larger than it is.
w_test_off_by_one(e) ==
    /\ At(e, "w_test")
    /\ Goto(e, IF p_wpos > p_rpos + PIPEBUFSIZ THEN "n" ELSE "w_store")
    /\ Stays /\ UNCHANGED <<pipeVars, mapVars, callVars, histVars>>

w_test(e) ==
    /\ At(e, "w_test")
    /\ Goto(e, IF p_wpos >= p_rpos + PIPEBUFSIZ THEN "n" ELSE "w_store")
    /\ Stays /\ UNCHANGED <<pipeVars, mapVars, callVars, histVars>>

\* The k-th byte is called k.
w_store(e) ==
    /\ At(e, "w_store")
    /\ p_buf' = [p_buf EXCEPT ![p_wpos % PIPEBUFSIZ] = p_wpos + 1]
    /\ Goto(e, "w_inc")
    /\ Stays /\ UNCHANGED <<p_rpos, p_wpos, mapVars, callVars, histVars>>

w_inc(e) ==
    /\ At(e, "w_inc")
    /\ p_wpos' = p_wpos + 1
    /\ IF i[e] + 1 = WriteLen THEN Return(e)
       ELSE /\ i' = [i EXCEPT ![e] = @ + 1]
            /\ Goto(e, "w_test")
            /\ UNCHANGED <<end, call, ref, ret>>
    /\ Stays /\ UNCHANGED <<p_rpos, p_buf, mapVars, histVars>>

-----------------------------------------------------------------------------
\* Library code that e is in the middle of.
Library(e) ==
    \/ close_data(e) \/ dup_fd(e) \/ fork_data(e) \/ fork_fd(e)
    \/ read_n(e) \/ read_ref(e) \/ read_ret(e) \/ read_nn(e)
    \/ r_test(e) \/ r_take(e) \/ r_inc(e)
    \/ w_test(e) \/ w_store(e) \/ w_inc(e)

\* What the program does next.
Program(e) ==
    \/ fork(e) \/ exit(e) \/ read(e) \/ write(e)
    \/ \E d \in End : close(e, d) \/ dup(e, d) \/ pipeisclosed(e, d)

Next == \E e \in Env : Program(e) \/ Library(e) \/ env_run(e) \/ timer(e)

\* Processors run, the timer interrupts programs, and every environment gets
\* its turn on a processor.
Fairness ==
    \A e \in Env :
        /\ WF_vars(Library(e))
        /\ SF_vars(timer(e) /\ pc[e] = "user")
        /\ SF_vars(env_run(e))

Spec == Init /\ [][Next]_vars /\ Fairness

-----------------------------------------------------------------------------
(***************************************************************************)
(* Properties.                                                             *)
(***************************************************************************)
TypeOK ==
    /\ p_rpos \in Nat /\ p_wpos \in Nat
    /\ p_buf \in [0 .. PIPEBUFSIZ - 1 -> Nat]
    /\ fds \in [Env -> [End -> 0 .. MaxFds]]
    /\ datas \in [Env -> [End -> 0 .. MaxFds]]
    /\ pc \in [Env -> Place]
    /\ end \in [Env -> End]
    /\ call \in [Env -> {"none", "close", "dup", "pipeisclosed", "read", "write"}]
    /\ i \in [Env -> Nat]
    /\ ref \in [Env -> Nat]
    /\ ret \in [Env -> BOOLEAN]
    /\ ran \in [Env -> BOOLEAN]
    /\ running \in SUBSET Env /\ Cardinality(running) <= NCPU
    /\ got \in Seq(Nat)
    /\ eof \in BOOLEAN
    /\ writes \in 0 .. MaxWrites
    /\ ticks \in 0 .. MaxTicks

IsOpen(d) == \E e \in Env : fds[e][d] > 0

\* testpiperace.c: "a ref count for p[0] of 3, a ref count for p[1] of 1, and
\* a ref count for the pipe structure of 3, which is a no-no": whoever is
\* stopped in the middle of close(), dup() or fork(), an end whose count
\* equals the pipe's is one whose other end is not open.
CountsTell ==
    \A d \in End : FdRef(d) = PipeRef => ~IsOpen(Other(d))

\* _pipeisclosed() never answers that an end is closed that is open at the
\* time of the answer, although it reads two counts one after the other.
NoFalseClosed ==
    [][\A e \in Env :
          pc[e] = "nn" /\ pc'[e] \notin {"nn", "n"} /\ ret[e]
              => ~IsOpen(Other(end[e]))]_vars

\* The bytes arrive in order, once each, and never overtake the buffer.
Abstract == INSTANCE Stream WITH
    Size <- PIPEBUFSIZ, sent <- p_wpos, received <- got

IsStream == Abstract!Spec

\* devpipe_read(): "pipe is empty", "if all the writers are gone, note eof":
\* the reader is told of the end only when it has read everything.
EofAtTheEnd == [][eof' # eof => p_rpos = p_wpos]_vars

\* A read() or write() that waits for the other end returns once that end is
\* closed everywhere.
Unblocks ==
    \A e \in Env :
        (call[e] \in {"read", "write"} /\ ~IsOpen(Other(end[e])))
            ~> call[e] \notin {"read", "write"}
=============================================================================
