----------------------------- MODULE PipeProofs -----------------------------
(***************************************************************************)
(* What Pipe.tla promises, proved for every number of environments and     *)
(* every size of the buffer: the pipe is a stream, and on one processor    *)
(* _pipeisclosed() never takes an open end for a closed one.               *)
(***************************************************************************)
EXTENDS Pipe, FiniteSetTheorems, TLAPS

-----------------------------------------------------------------------------
(***************************************************************************)
(* The inductive invariant, in parts.                                      *)
(***************************************************************************)
Reading == {"r_test", "r_take", "r_inc"}
Writing == {"w_test", "w_store", "w_inc"}
Asking == {"n", "ref", "ret", "nn"}

\* Only the reader is in devpipe_read() and only the writer in
\* devpipe_write(), the loops around _pipeisclosed() included.
CallInv ==
    \A e \in Env :
        /\ pc[e] \in Reading => call[e] = "read"
        /\ pc[e] \in Writing => call[e] = "write"
        /\ pc[e] \in Asking => call[e] \in {"pipeisclosed", "read", "write"}
        /\ call[e] = "read" => e = Reader /\ pc[e] \in Reading \cup Asking
        /\ call[e] = "write" => e = Writer /\ pc[e] \in Writing \cup Asking

Forking(e) == pc[e] \in {"fork_data", "fork_fd"}

\* An environment has as many mappings of the pipe as it has descriptors; one
\* more in the middle of close() and dup().
FdInv ==
    \A e \in Env : \A d \in End :
        /\ pc[e] \notin {"unborn", "close", "dup"} => datas[e][d] = fds[e][d]
        /\ pc[e] \in {"close", "dup"} =>
               datas[e][d] = IF d = end[e] THEN fds[e][d] + 1 ELSE fds[e][d]

\* A child in the making gets the pipe's mappings first, then the
\* descriptors, and never more of either than its parent has.
ChildInv(f, d) ==
    /\ fds[f][d] <= datas[f][d]
    /\ f # Child => datas[f][d] = 0
    /\ (\A e \in Env : ~Forking(e)) => datas[f][d] = 0
    /\ \A e \in Env : pc[e] = "fork_data" =>
           fds[f][d] = 0 /\ datas[f][d] <= datas[e][d]
    /\ \A e \in Env : pc[e] = "fork_fd" /\ f = Child =>
           fds[f][d] <= fds[e][d] /\ datas[f][d] = datas[e][d]

ForkInv ==
    /\ \A e, f \in Env : Forking(e) /\ Forking(f) => e = f
    /\ \A e \in Env : Forking(e) => Unborn # {}
    /\ \A f \in Unborn : \A d \in End : ChildInv(f, d)

MapInv == TypeOK /\ CallInv /\ FdInv /\ ForkInv

\* The ring: what was stored and not yet taken is where the reader will look,
\* and neither side trusts a test that the other can have made untrue.
StreamInv ==
    /\ p_rpos <= p_wpos /\ p_wpos <= p_rpos + PIPEBUFSIZ
    /\ pc[Writer] \in {"w_store", "w_inc"} => p_wpos < p_rpos + PIPEBUFSIZ
    /\ pc[Reader] \in {"r_take", "r_inc"} => p_rpos < p_wpos
    /\ Len(got) = IF pc[Reader] = "r_inc" THEN p_rpos + 1 ELSE p_rpos
    /\ \A k \in 0 .. p_wpos : p_rpos <= k /\ k < p_wpos => p_buf[k % PIPEBUFSIZ] = k + 1
    /\ pc[Writer] = "w_inc" => p_buf[p_wpos % PIPEBUFSIZ] = p_wpos + 1

\* On one processor: as long as e has not been taken off it, what e read of
\* the counts is what they are.
AskInv ==
    /\ \A e, f \in running : e = f
    /\ \A e \in running : ~ran[e] =>
          /\ pc[e] \in {"ret", "nn"} => ref[e] = FdRef(end[e])
          /\ pc[e] = "nn" /\ ret[e] => ref[e] = PipeRef

-----------------------------------------------------------------------------
(***************************************************************************)
(* Facts about the operators.                                              *)
(***************************************************************************)

\* The set of running environments is finite, and losing one keeps the bound.
LEMMA RunningFewer ==
    ASSUME TypeOK, NEW e \in Env
    PROVE  /\ running \ {e} \in SUBSET Env
           /\ Cardinality(running \ {e}) <= NCPU
  <1>1. IsFiniteSet(running)
    BY FS_Subset, PipeAssumption DEF TypeOK
  <1>2. Cardinality(running) \in Nat /\ Cardinality(running) <= NCPU
    BY <1>1, FS_CardinalityType DEF TypeOK
  <1>3. Cardinality(running \ {e}) \in {Cardinality(running), Cardinality(running) - 1}
    BY <1>1, FS_RemoveElement
  <1>4. running \in SUBSET Env /\ NCPU \in Nat
    BY PipeAssumption DEF TypeOK
  <1> QED  BY <1>2, <1>3, <1>4

\* One more fits while a processor is idle.
LEMMA RunningMore ==
    ASSUME TypeOK, NEW e \in Env, e \notin running, Cardinality(running) < NCPU
    PROVE  /\ running \cup {e} \in SUBSET Env
           /\ Cardinality(running \cup {e}) <= NCPU
  <1>1. IsFiniteSet(running)
    BY FS_Subset, PipeAssumption DEF TypeOK
  <1>2. Cardinality(running) \in Nat
    BY <1>1, FS_CardinalityType
  <1>3. Cardinality(running \cup {e}) = Cardinality(running) + 1
    BY <1>1, FS_AddElement
  <1>4. running \in SUBSET Env /\ NCPU \in Nat
    BY PipeAssumption DEF TypeOK
  <1> QED  BY <1>2, <1>3, <1>4

\* The mappings that counts stand for are finitely many.
LEMMA MappingsFinite ==
    ASSUME NEW count
    PROVE  IsFiniteSet(Mappings(count))
  <1>1. IsFiniteSet(End)
    <2>1. IsFiniteSet({"r"}) /\ IsFiniteSet({"r"} \cup {"w"})
      BY FS_Singleton, FS_AddElement
    <2>2. End = {"r"} \cup {"w"}
      BY DEF End
    <2> QED  BY <2>1, <2>2
  <1>2. IsFiniteSet(1 .. MaxFds)
    BY FS_Interval, PipeAssumption
  <1> DEFINE P == (Env \X End) \X (1 .. MaxFds)
  <1>4. IsFiniteSet(P)
    BY <1>1, <1>2, FS_Product, PipeAssumption
  <1> DEFINE T == Env \X End \X (1 .. MaxFds)
             flat == [p \in P |-> <<p[1][1], p[1][2], p[2]>>]
  <1>5. flat \in Surjection(P, T)
    <2>1. flat \in [P -> T]
      OBVIOUS
    <2>2. ASSUME NEW t \in T
          PROVE  \E p \in P : flat[p] = t
      <3>1. <<<<t[1], t[2]>>, t[3]>> \in P
        OBVIOUS
      <3>2. flat[<<<<t[1], t[2]>>, t[3]>>] = t
        OBVIOUS
      <3> QED  BY <3>1, <3>2
    <2> QED  BY <2>1, <2>2 DEF Surjection
  <1>6. IsFiniteSet(T)
    <2> HIDE DEF P, T, flat
    <2> QED  BY <1>4, <1>5, FS_Surjection
  <1>7. Mappings(count) \in SUBSET T
    BY DEF Mappings
  <1> QED  BY <1>6, <1>7, FS_Subset

-----------------------------------------------------------------------------
(***************************************************************************)
(* The mappings and the calls: every step keeps MapInv.                    *)
(***************************************************************************)

\* A step of e outside fork() that changes only its own mappings leaves a
\* fork of another environment as it was.
LEMMA ForkFrame ==
    ASSUME MapInv, NEW e \in Env, NEW q,
           pc' = [pc EXCEPT ![e] = q],
           pc[e] \notin {"unborn", "fork_data", "fork_fd"},
           q \notin {"unborn", "fork_data", "fork_fd"},
           \A f \in Env \ {e} : fds'[f] = fds[f] /\ datas'[f] = datas[f]
    PROVE  ForkInv'
  <1>1. \A f \in Env : pc'[f] = IF f = e THEN q ELSE pc[f]
    BY DEF MapInv, TypeOK
  <1>2. \A f \in Env : /\ pc'[f] = "unborn" <=> pc[f] = "unborn"
                       /\ pc'[f] = "fork_data" <=> pc[f] = "fork_data"
                       /\ pc'[f] = "fork_fd" <=> pc[f] = "fork_fd"
    BY <1>1
  <1>3. Unborn' = Unborn
    BY <1>2 DEF Unborn
  <1>4. Child' = Child
    BY <1>3 DEF Child
  <1>5. \A f \in Env : Forking(f)' <=> Forking(f)
    BY <1>2 DEF Forking
  <1>6. \A f \in Env : pc[f] \in {"unborn", "fork_data", "fork_fd"} =>
                          fds'[f] = fds[f] /\ datas'[f] = datas[f]
    OBVIOUS
  <1>7. ASSUME NEW f \in Unborn, NEW d \in End
        PROVE  ChildInv(f, d)'
    <2>1. ChildInv(f, d)
      BY DEF MapInv, ForkInv
    <2>2. f \in Env /\ fds'[f] = fds[f] /\ datas'[f] = datas[f]
      BY <1>6 DEF Unborn
    <2> QED  BY <1>2, <1>4, <1>5, <1>6, <2>1, <2>2 DEF ChildInv
  <1> QED  BY <1>3, <1>5, <1>7 DEF MapInv, ForkInv

\* A step that leaves the mappings alone and moves e between places where its
\* counts agree.
LEMMA Quiet ==
    ASSUME MapInv, NEW e \in Env, NEW q,
           pc' = [pc EXCEPT ![e] = q],
           pc[e] \notin {"unborn", "fork_data", "fork_fd", "close", "dup"},
           q \notin {"unborn", "fork_data", "fork_fd", "close", "dup"},
           \A f \in Env \ {e} : end'[f] = end[f],
           UNCHANGED mapVars
    PROVE  FdInv' /\ ForkInv'
  <1>1. ForkInv'
    BY ForkFrame DEF mapVars
  <1>2. \A f \in Env : pc'[f] = IF f = e THEN q ELSE pc[f]
    BY DEF MapInv, TypeOK
  <1>3. fds' = fds /\ datas' = datas
    BY DEF mapVars
  <1>4. FdInv'
    BY <1>2, <1>3 DEF MapInv, FdInv
  <1> QED  BY <1>1, <1>4

\* A byte of the ring is in it.
LEMMA RingIndex ==
    ASSUME NEW k \in Nat
    PROVE  k % PIPEBUFSIZ \in 0 .. PIPEBUFSIZ - 1
  BY PipeAssumption

\* A count that pageref() returns is a number.
LEMMA RefIsNat ==
    ASSUME NEW d \in End
    PROVE  FdRef(d) \in Nat
  <1>1. IsFiniteSet(Mappings(fds))
    BY MappingsFinite
  <1>2. IsFiniteSet({m \in Mappings(fds) : m[2] = d})
    BY <1>1, FS_Subset
  <1> QED  BY <1>2, FS_CardinalityType DEF FdRef

\* A call that returns leaves its locals in a proper state.
CallTypes ==
    /\ pc \in [Env -> Place]
    /\ end \in [Env -> End]
    /\ call \in [Env -> {"none", "close", "dup", "pipeisclosed", "read", "write"}]
    /\ i \in [Env -> Nat]
    /\ ref \in [Env -> Nat]
    /\ ret \in [Env -> BOOLEAN]

LEMMA ReturnTypes ==
    ASSUME TypeOK, NEW e \in Env, Return(e)
    PROVE  CallTypes'
  <1>1. pc' \in [Env -> Place] /\ end' \in [Env -> End]
    BY DEF TypeOK, Return, Goto, Place, End
  <1>2. call' \in [Env -> {"none", "close", "dup", "pipeisclosed", "read", "write"}]
    BY DEF TypeOK, Return
  <1>3. i' \in [Env -> Nat] /\ ref' \in [Env -> Nat]
    BY DEF TypeOK, Return
  <1>4. ret' \in [Env -> BOOLEAN]
    BY DEF TypeOK, Return
  <1> QED  BY <1>1, <1>2, <1>3, <1>4 DEF CallTypes

\* The program asks whether the other end is closed.
LEMMA pipeisclosedMap ==
    ASSUME MapInv, NEW e \in Env, NEW d \in End, pipeisclosed(e, d)
    PROVE  MapInv'
  <1>1. TypeOK'
    BY PipeAssumption DEF pipeisclosed, Enter, MapInv, TypeOK, At, Goto, Stays, pipeVars, mapVars, callVars, histVars, schedVars, Place, End
  <1>2. CallInv'
    BY DEF pipeisclosed, Enter, MapInv, TypeOK, CallInv, At, Goto, callVars, Reading, Writing, Asking
  <1>3. FdInv' /\ ForkInv'
    BY Quiet DEF pipeisclosed, Enter, MapInv, TypeOK, At, Goto, callVars, mapVars
  <1> QED  BY <1>1, <1>2, <1>3 DEF MapInv

\* The first look at env_runs.
LEMMA read_nMap ==
    ASSUME MapInv, NEW e \in Env, read_n(e)
    PROVE  MapInv'
  <1>1. TypeOK'
    BY PipeAssumption DEF read_n, MapInv, TypeOK, At, Goto, Stays, pipeVars, mapVars, callVars, histVars, schedVars, Place
  <1>2. CallInv'
    BY DEF read_n, MapInv, TypeOK, CallInv, At, Goto, callVars, Reading, Writing, Asking
  <1>3. FdInv' /\ ForkInv'
    BY Quiet DEF read_n, MapInv, TypeOK, At, Goto, callVars, mapVars
  <1> QED  BY <1>1, <1>2, <1>3 DEF MapInv

\* The first count.
LEMMA read_refMap ==
    ASSUME MapInv, NEW e \in Env, read_ref(e)
    PROVE  MapInv'
  <1>1. TypeOK'
    BY PipeAssumption, RefIsNat DEF read_ref, MapInv, TypeOK, At, Goto, Stays, pipeVars, mapVars, callVars, histVars, schedVars, Place
  <1>2. CallInv'
    BY DEF read_ref, MapInv, TypeOK, CallInv, At, Goto, callVars, Reading, Writing, Asking
  <1>3. FdInv' /\ ForkInv'
    BY Quiet DEF read_ref, MapInv, TypeOK, At, Goto, callVars, mapVars
  <1> QED  BY <1>1, <1>2, <1>3 DEF MapInv

\* The second count.
LEMMA read_retMap ==
    ASSUME MapInv, NEW e \in Env, read_ret(e)
    PROVE  MapInv'
  <1>1. TypeOK'
    BY PipeAssumption DEF read_ret, MapInv, TypeOK, At, Goto, Stays, pipeVars, mapVars, callVars, histVars, schedVars, Place
  <1>2. CallInv'
    BY DEF read_ret, MapInv, TypeOK, CallInv, At, Goto, callVars, Reading, Writing, Asking
  <1>3. FdInv' /\ ForkInv'
    BY Quiet DEF read_ret, MapInv, TypeOK, At, Goto, callVars, mapVars
  <1> QED  BY <1>1, <1>2, <1>3 DEF MapInv

\* Entry of devpipe_read().
LEMMA readMap ==
    ASSUME MapInv, NEW e \in Env, read(e)
    PROVE  MapInv'
  <1>1. TypeOK'
    BY PipeAssumption DEF read, Enter, MapInv, TypeOK, At, Goto, Stays, pipeVars, mapVars, callVars, histVars, schedVars, Place, End
  <1>2. CallInv'
    BY DEF read, Enter, MapInv, TypeOK, CallInv, At, Goto, callVars, Reading, Writing, Asking
  <1>3. FdInv' /\ ForkInv'
    BY Quiet DEF read, Enter, MapInv, TypeOK, At, Goto, callVars, mapVars
  <1> QED  BY <1>1, <1>2, <1>3 DEF MapInv

\* The test for an empty pipe.
LEMMA r_testMap ==
    ASSUME MapInv, NEW e \in Env, r_test(e)
    PROVE  MapInv'
  <1>1. TypeOK'
    <2>1. ASSUME p_rpos = p_wpos /\ i[e] > 0 PROVE CallTypes'
      BY <2>1, ReturnTypes DEF r_test, MapInv
    <2>2. ASSUME ~(p_rpos = p_wpos /\ i[e] > 0) PROVE CallTypes'
      BY <2>2 DEF r_test, MapInv, TypeOK, CallTypes, Goto, callVars, Place
    <2>3. CallTypes'
      BY <2>1, <2>2
    <2>4. p_rpos' \in Nat /\ p_wpos' \in Nat
      <3>1. p_rpos \in Nat /\ p_wpos \in Nat
        BY DEF MapInv, TypeOK
      <3> QED  BY <3>1 DEF r_test, pipeVars
    <2> QED  BY <2>3, <2>4 DEF CallTypes, r_test, MapInv, TypeOK, Stays, pipeVars, mapVars,
                                         histVars, schedVars
  <1>2. CallInv'
    BY SMTT(60) DEF r_test, Return, MapInv, TypeOK, CallInv, At, Goto, callVars, Reading, Writing, Asking
  <1>3. FdInv' /\ ForkInv'
    BY Quiet DEF r_test, Return, MapInv, TypeOK, At, Goto, callVars, mapVars
  <1> QED  BY <1>1, <1>2, <1>3 DEF MapInv

\* The byte is copied.
LEMMA r_takeMap ==
    ASSUME MapInv, NEW e \in Env, r_take(e)
    PROVE  MapInv'
  <1>1. TypeOK'
    <2>1. got' \in Seq(Nat)
      <3>1. p_buf[p_rpos % PIPEBUFSIZ] \in Nat
        BY RingIndex DEF MapInv, TypeOK
      <3> QED  BY <3>1 DEF r_take, MapInv, TypeOK
    <2> QED
      BY <2>1, PipeAssumption DEF r_take, MapInv, TypeOK, At, Goto, Stays, pipeVars, mapVars, callVars, histVars, schedVars, Place
  <1>2. CallInv'
    BY DEF r_take, MapInv, TypeOK, CallInv, At, Goto, callVars, Reading, Writing, Asking
  <1>3. FdInv' /\ ForkInv'
    BY Quiet DEF r_take, MapInv, TypeOK, At, Goto, callVars, mapVars
  <1> QED  BY <1>1, <1>2, <1>3 DEF MapInv

\* The byte is taken off the ring.
LEMMA r_incMap ==
    ASSUME MapInv, NEW e \in Env, r_inc(e)
    PROVE  MapInv'
  <1>1. TypeOK'
    <2>1. ASSUME i[e] + 1 = ReadLen PROVE CallTypes'
      BY <2>1, ReturnTypes DEF r_inc, MapInv
    <2>2. ASSUME ~(i[e] + 1 = ReadLen) PROVE CallTypes'
      <3>1. i' \in [Env -> Nat]
        <4>1. i \in [Env -> Nat] /\ i' = [i EXCEPT ![e] = @ + 1]
          BY <2>2 DEF r_inc, MapInv, TypeOK
        <4> QED  BY <4>1
      <3>2. pc' \in [Env -> Place]
        BY <2>2 DEF r_inc, Goto, MapInv, TypeOK, Place
      <3> QED  BY <2>2, <3>1, <3>2 DEF r_inc, MapInv, TypeOK, CallTypes
    <2>3. CallTypes'
      BY <2>1, <2>2
    <2>4. p_rpos' \in Nat /\ p_wpos' \in Nat
      <3>1. p_rpos \in Nat /\ p_wpos \in Nat
        BY DEF MapInv, TypeOK
      <3> QED  BY <3>1 DEF r_inc, pipeVars
    <2> QED  BY <2>3, <2>4 DEF CallTypes, r_inc, MapInv, TypeOK, Stays, pipeVars, mapVars,
                                         histVars, schedVars
  <1>2. CallInv'
    BY SMTT(60) DEF r_inc, Return, MapInv, TypeOK, CallInv, At, Goto, callVars, Reading, Writing, Asking
  <1>3. FdInv' /\ ForkInv'
    BY Quiet DEF r_inc, Return, MapInv, TypeOK, At, Goto, callVars, mapVars
  <1> QED  BY <1>1, <1>2, <1>3 DEF MapInv

\* Entry of devpipe_write().
LEMMA writeMap ==
    ASSUME MapInv, NEW e \in Env, write(e)
    PROVE  MapInv'
  <1>1. TypeOK'
    <2>1. writes' \in 0 .. MaxWrites
      BY PipeAssumption DEF write, MapInv, TypeOK
    <2> QED
      BY <2>1, PipeAssumption DEF write, Enter, MapInv, TypeOK, At, Goto, Stays, pipeVars, mapVars, callVars, histVars, schedVars, Place, End
  <1>2. CallInv'
    BY DEF write, Enter, MapInv, TypeOK, CallInv, At, Goto, callVars, Reading, Writing, Asking
  <1>3. FdInv' /\ ForkInv'
    BY Quiet DEF write, Enter, MapInv, TypeOK, At, Goto, callVars, mapVars
  <1> QED  BY <1>1, <1>2, <1>3 DEF MapInv

\* The test for a full pipe.
LEMMA w_testMap ==
    ASSUME MapInv, NEW e \in Env, w_test(e)
    PROVE  MapInv'
  <1>1. TypeOK'
    BY PipeAssumption DEF w_test, MapInv, TypeOK, At, Goto, Stays, pipeVars, mapVars, callVars, histVars, schedVars, Place
  <1>2. CallInv'
    BY DEF w_test, MapInv, TypeOK, CallInv, At, Goto, callVars, Reading, Writing, Asking
  <1>3. FdInv' /\ ForkInv'
    BY Quiet DEF w_test, MapInv, TypeOK, At, Goto, callVars, mapVars
  <1> QED  BY <1>1, <1>2, <1>3 DEF MapInv

\* The byte is stored.
LEMMA w_storeMap ==
    ASSUME MapInv, NEW e \in Env, w_store(e)
    PROVE  MapInv'
  <1>1. TypeOK'
    <2>1. p_buf' \in [0 .. PIPEBUFSIZ - 1 -> Nat]
      <3>1. p_wpos % PIPEBUFSIZ \in 0 .. PIPEBUFSIZ - 1
        BY RingIndex DEF MapInv, TypeOK
      <3> QED  BY <3>1 DEF w_store, MapInv, TypeOK
    <2> QED
      BY <2>1, PipeAssumption DEF w_store, MapInv, TypeOK, At, Goto, Stays, pipeVars, mapVars, callVars, histVars, schedVars, Place
  <1>2. CallInv'
    BY DEF w_store, MapInv, TypeOK, CallInv, At, Goto, callVars, Reading, Writing, Asking
  <1>3. FdInv' /\ ForkInv'
    BY Quiet DEF w_store, MapInv, TypeOK, At, Goto, callVars, mapVars
  <1> QED  BY <1>1, <1>2, <1>3 DEF MapInv

\* The byte is made visible.
LEMMA w_incMap ==
    ASSUME MapInv, NEW e \in Env, w_inc(e)
    PROVE  MapInv'
  <1>1. TypeOK'
    <2>1. ASSUME i[e] + 1 = WriteLen PROVE CallTypes'
      BY <2>1, ReturnTypes DEF w_inc, MapInv
    <2>2. ASSUME ~(i[e] + 1 = WriteLen) PROVE CallTypes'
      <3>1. i' \in [Env -> Nat]
        <4>1. i \in [Env -> Nat] /\ i' = [i EXCEPT ![e] = @ + 1]
          BY <2>2 DEF w_inc, MapInv, TypeOK
        <4> QED  BY <4>1
      <3>2. pc' \in [Env -> Place]
        BY <2>2 DEF w_inc, Goto, MapInv, TypeOK, Place
      <3> QED  BY <2>2, <3>1, <3>2 DEF w_inc, MapInv, TypeOK, CallTypes
    <2>3. CallTypes'
      BY <2>1, <2>2
    <2>4. p_rpos' \in Nat /\ p_wpos' \in Nat
      <3>1. p_rpos \in Nat /\ p_wpos \in Nat
        BY DEF MapInv, TypeOK
      <3> QED  BY <3>1 DEF w_inc, pipeVars
    <2> QED  BY <2>3, <2>4 DEF CallTypes, w_inc, MapInv, TypeOK, Stays, pipeVars, mapVars,
                                         histVars, schedVars
  <1>2. CallInv'
    BY SMTT(60) DEF w_inc, Return, MapInv, TypeOK, CallInv, At, Goto, callVars, Reading, Writing, Asking
  <1>3. FdInv' /\ ForkInv'
    BY Quiet DEF w_inc, Return, MapInv, TypeOK, At, Goto, callVars, mapVars
  <1> QED  BY <1>1, <1>2, <1>3 DEF MapInv

\* The second look at env_runs, and what follows.
LEMMA read_nnMap ==
    ASSUME MapInv, NEW e \in Env, read_nn(e)
    PROVE  MapInv'
  <1>1. CASE ran[e]
    <2>1. TypeOK'
      BY <1>1 DEF read_nn, MapInv, TypeOK, At, Goto, pipeVars, mapVars, callVars, Place
    <2>2. CallInv'
      BY <1>1, ZenonT(60) DEF read_nn, MapInv, TypeOK, CallInv, At, Goto, callVars, Reading, Writing, Asking
    <2>3. FdInv' /\ ForkInv'
      BY <1>1, Quiet DEF read_nn, MapInv, TypeOK, At, Goto, callVars, mapVars
    <2> QED  BY <2>1, <2>2, <2>3 DEF MapInv
  <1>2. CASE ~ran[e] /\ (call[e] = "pipeisclosed" \/ ret[e])
    <2>1. TypeOK'
      <3>1. CallTypes'
        BY <1>2, ReturnTypes DEF read_nn, MapInv
      <3>2. eof' \in BOOLEAN
        BY <1>2 DEF read_nn
      <3> QED  BY <1>2, <3>1, <3>2 DEF CallTypes, read_nn, Stays, MapInv, TypeOK, pipeVars, mapVars, schedVars
    <2>2. CallInv'
      BY <1>2, SMTT(60) DEF read_nn, MapInv, TypeOK, CallInv, At, Goto, Return, Reading, Writing, Asking
    <2>3. FdInv' /\ ForkInv'
      <3>1. pc[e] = "nn" /\ pc' = [pc EXCEPT ![e] = "user"] /\ UNCHANGED mapVars
        BY <1>2 DEF read_nn, At, Goto, Return, mapVars
      <3>2. \A f \in Env \ {e} : end'[f] = end[f]
        BY <1>2 DEF read_nn, Return, MapInv, TypeOK
      <3> QED  BY <3>1, <3>2, Quiet
    <2> QED  BY <2>1, <2>2, <2>3 DEF MapInv
  <1>3. CASE ~ran[e] /\ ~(call[e] = "pipeisclosed" \/ ret[e])
    <2>1. TypeOK'
      <3>1. running' \in SUBSET Env /\ Cardinality(running') <= NCPU
        BY <1>3, RunningFewer DEF read_nn, MapInv
      <3> QED  BY <1>3, <3>1 DEF read_nn, MapInv, TypeOK, At, Goto, pipeVars, mapVars, callVars, Place
    <2>2. CallInv'
      BY <1>3, SMTT(60) DEF read_nn, MapInv, TypeOK, CallInv, At, Goto, callVars, Reading, Writing, Asking
    <2>3. FdInv' /\ ForkInv'
      BY <1>3, Quiet DEF read_nn, MapInv, TypeOK, At, Goto, callVars, mapVars
    <2> QED  BY <2>1, <2>2, <2>3 DEF MapInv
  <1> QED  BY <1>1, <1>2, <1>3

\* devpipe_close(), the descriptor's page.
LEMMA closeMap ==
    ASSUME MapInv, NEW e \in Env, NEW d \in End, close(e, d)
    PROVE  MapInv'
  <1>0. fds' = [fds EXCEPT ![e][d] = @ - 1] /\ datas' = datas
    BY DEF close
  <1>1. fds[e][d] \in 0 .. MaxFds /\ fds[e][d] > 0 /\ datas[e][d] = fds[e][d] /\ pc[e] = "user"
    <2>1. pc[e] = "user" /\ fds[e][d] > 0
      BY DEF close, Enter, At
    <2>2. datas[e][d] = fds[e][d]
      BY <2>1 DEF MapInv, FdInv
    <2>3. fds[e][d] \in 0 .. MaxFds
      BY DEF MapInv, TypeOK
    <2> QED  BY <2>1, <2>2, <2>3
  <1>2. fds' \in [Env -> [End -> 0 .. MaxFds]]
    <2>1. fds[e][d] - 1 \in 0 .. MaxFds
      BY <1>1, PipeAssumption
    <2> QED  BY <1>0, <2>1 DEF MapInv, TypeOK
  <1>3. TypeOK'
    BY <1>2 DEF close, Enter, MapInv, TypeOK, At, Goto, Stays, pipeVars, mapVars, callVars, histVars, schedVars,
                Place, End
  <1>4. CallInv'
    BY DEF close, Enter, MapInv, TypeOK, CallInv, At, Goto, Reading, Writing, Asking
  <1>5. ForkInv'
    BY <1>0, <1>1, ForkFrame DEF close, Enter, Goto, MapInv, TypeOK
  <1>6. FdInv'
    <2>1. \A f \in Env : \A c \in End :
             fds'[f][c] = IF f = e /\ c = d THEN fds[f][c] - 1 ELSE fds[f][c]
      BY <1>0 DEF MapInv, TypeOK
    <2>2. \A f \in Env : /\ pc'[f] = IF f = e THEN "close" ELSE pc[f]
                         /\ end'[f] = IF f = e THEN d ELSE end[f]
      BY DEF close, Enter, Goto, MapInv, TypeOK
    <2>3. fds[e][d] = fds[e][d] - 1 + 1
      BY <1>1
    <2> QED  BY <1>0, <1>1, <2>1, <2>2, <2>3 DEF MapInv, FdInv
  <1> QED  BY <1>3, <1>4, <1>5, <1>6 DEF MapInv

\* devpipe_close(), the pipe's page.
LEMMA close_dataMap ==
    ASSUME MapInv, NEW e \in Env, close_data(e)
    PROVE  MapInv'
  <1>0. datas' = [datas EXCEPT ![e][end[e]] = @ - 1] /\ fds' = fds
    BY DEF close_data
  <1>1. end[e] \in End /\ datas[e][end[e]] = fds[e][end[e]] + 1 /\ pc[e] = "close"
    BY DEF close_data, At, MapInv, TypeOK, FdInv
  <1>2. fds[e][end[e]] \in 0 .. MaxFds
    BY <1>1 DEF MapInv, TypeOK
  <1>3. datas[e][end[e]] - 1 \in 0 .. MaxFds
    BY <1>1, <1>2, PipeAssumption
  <1>4. datas' \in [Env -> [End -> 0 .. MaxFds]]
    BY <1>0, <1>1, <1>3 DEF MapInv, TypeOK
  <1>5. TypeOK'
    <2>1. CallTypes'
      BY ReturnTypes DEF close_data, MapInv
    <2> QED  BY <1>4, <2>1 DEF CallTypes, close_data, Stays, MapInv, TypeOK, pipeVars, histVars, schedVars
  <1>6. CallInv'
    BY DEF close_data, Return, MapInv, TypeOK, CallInv, At, Goto, Reading, Writing, Asking
  <1>7. ForkInv'
    BY <1>0, <1>1, ForkFrame DEF close_data, Return, Goto, MapInv, TypeOK
  <1>8. FdInv'
    <2>1. \A f \in Env : \A c \in End :
             datas'[f][c] = IF f = e /\ c = end[e] THEN datas[f][c] - 1 ELSE datas[f][c]
      BY <1>0, <1>1 DEF MapInv, TypeOK
    <2>2. \A f \in Env : /\ pc'[f] = IF f = e THEN "user" ELSE pc[f]
                         /\ f # e => end'[f] = end[f]
      BY DEF close_data, Return, Goto, MapInv, TypeOK
    <2>3. fds[e][end[e]] = datas[e][end[e]] - 1
      BY <1>1, <1>2
    <2>4. \A c \in End : datas'[e][c] = fds'[e][c]
      <3>1. \A c \in End : c # end[e] => datas[e][c] = fds[e][c]
        BY <1>1 DEF MapInv, FdInv
      <3> QED  BY <1>0, <2>1, <2>3, <3>1
    <2>5. \A f \in Env \ {e} : pc'[f] = pc[f] /\ end'[f] = end[f] /\ datas'[f] = datas[f] /\ fds'[f] = fds[f]
      BY <1>0, <2>2 DEF MapInv, TypeOK
    <2>6. pc'[e] = "user"
      BY <2>2
    <2> QED  BY <2>4, <2>5, <2>6 DEF MapInv, FdInv
  <1> QED  BY <1>5, <1>6, <1>7, <1>8 DEF MapInv

\* dup(), the pipe's page.
LEMMA dupMap ==
    ASSUME MapInv, NEW e \in Env, NEW d \in End, dup(e, d)
    PROVE  MapInv'
  <1>0. datas' = [datas EXCEPT ![e][d] = @ + 1] /\ fds' = fds
    BY DEF dup
  <1>1. fds[e][d] \in 0 .. MaxFds /\ fds[e][d] < MaxFds /\ datas[e][d] = fds[e][d] /\ pc[e] = "user"
    <2>1. pc[e] = "user" /\ fds[e][d] < MaxFds
      BY DEF dup, Enter, At
    <2>2. datas[e][d] = fds[e][d]
      BY <2>1 DEF MapInv, FdInv
    <2>3. fds[e][d] \in 0 .. MaxFds
      BY DEF MapInv, TypeOK
    <2> QED  BY <2>1, <2>2, <2>3
  <1>2. datas[e][d] + 1 \in 0 .. MaxFds
    BY <1>1, PipeAssumption
  <1>3. datas' \in [Env -> [End -> 0 .. MaxFds]]
    BY <1>0, <1>2 DEF MapInv, TypeOK
  <1>4. TypeOK'
    BY <1>3 DEF dup, Enter, MapInv, TypeOK, At, Goto, Stays, pipeVars, mapVars, callVars, histVars, schedVars,
                Place, End
  <1>5. CallInv'
    BY DEF dup, Enter, MapInv, TypeOK, CallInv, At, Goto, Reading, Writing, Asking
  <1>6. ForkInv'
    BY <1>0, <1>1, ForkFrame DEF dup, Enter, Goto, MapInv, TypeOK
  <1>7. FdInv'
    <2>1. \A f \in Env : \A c \in End :
             datas'[f][c] = IF f = e /\ c = d THEN datas[f][c] + 1 ELSE datas[f][c]
      BY <1>0 DEF MapInv, TypeOK
    <2>2. \A f \in Env : /\ pc'[f] = IF f = e THEN "dup" ELSE pc[f]
                         /\ end'[f] = IF f = e THEN d ELSE end[f]
      BY DEF dup, Enter, Goto, MapInv, TypeOK
    <2> QED  BY <1>0, <1>1, <2>1, <2>2 DEF MapInv, FdInv
  <1> QED  BY <1>4, <1>5, <1>6, <1>7 DEF MapInv

\* dup(), the descriptor's page.
LEMMA dup_fdMap ==
    ASSUME MapInv, NEW e \in Env, dup_fd(e)
    PROVE  MapInv'
  <1>0. fds' = [fds EXCEPT ![e][end[e]] = @ + 1] /\ datas' = datas
    BY DEF dup_fd
  <1>1. end[e] \in End /\ datas[e][end[e]] = fds[e][end[e]] + 1 /\ pc[e] = "dup"
    BY DEF dup_fd, At, MapInv, TypeOK, FdInv
  <1>2. datas[e][end[e]] \in 0 .. MaxFds
    BY <1>1 DEF MapInv, TypeOK
  <1>3. fds' \in [Env -> [End -> 0 .. MaxFds]]
    BY <1>0, <1>1, <1>2 DEF MapInv, TypeOK
  <1>4. TypeOK'
    <2>1. CallTypes'
      BY ReturnTypes DEF dup_fd, MapInv
    <2> QED  BY <1>3, <2>1 DEF CallTypes, dup_fd, Stays, MapInv, TypeOK, pipeVars, histVars, schedVars
  <1>5. CallInv'
    BY DEF dup_fd, Return, MapInv, TypeOK, CallInv, At, Goto, Reading, Writing, Asking
  <1>6. ForkInv'
    BY <1>0, <1>1, ForkFrame DEF dup_fd, Return, Goto, MapInv, TypeOK
  <1>7. FdInv'
    <2>1. \A f \in Env : \A c \in End :
             fds'[f][c] = IF f = e /\ c = end[e] THEN fds[f][c] + 1 ELSE fds[f][c]
      BY <1>0, <1>1 DEF MapInv, TypeOK
    <2>2. \A f \in Env : /\ pc'[f] = IF f = e THEN "user" ELSE pc[f]
                         /\ f # e => end'[f] = end[f]
      BY DEF dup_fd, Return, Goto, MapInv, TypeOK
    <2> QED  BY <1>0, <1>1, <2>1, <2>2 DEF MapInv, FdInv
  <1> QED  BY <1>4, <1>5, <1>6, <1>7 DEF MapInv

\* fork(): only the place of the parent changes.
LEMMA forkMap ==
    ASSUME MapInv, NEW e \in Env, fork(e)
    PROVE  MapInv'
  <1>0. /\ pc[e] = "user" /\ pc' = [pc EXCEPT ![e] = "fork_data"]
        /\ fds' = fds /\ datas' = datas /\ end' = end /\ Unborn # {}
        /\ \A f \in Env : ~Forking(f)
    BY DEF fork, At, Goto, mapVars, callVars, Forking
  <1>1. TypeOK'
    BY DEF fork, MapInv, TypeOK, At, Goto, Stays, pipeVars, mapVars, callVars, histVars, schedVars, Place
  <1>2. CallInv'
    BY DEF fork, MapInv, TypeOK, CallInv, At, Goto, callVars, Reading, Writing, Asking
  <1>3. \A f \in Env : pc'[f] = IF f = e THEN "fork_data" ELSE pc[f]
    BY <1>0 DEF MapInv, TypeOK
  <1>4. FdInv'
    BY <1>0, <1>3 DEF MapInv, FdInv
  <1>5. Unborn' = Unborn /\ Child' = Child
    <2>1. Unborn' = Unborn
      BY <1>0, <1>3 DEF Unborn
    <2> QED  BY <2>1 DEF Child
  <1>6. ASSUME NEW f \in Unborn, NEW d \in End
        PROVE  ChildInv(f, d)'
    <2>1. f \in Env /\ fds[f][d] \in Nat /\ datas[f][d] \in Nat /\ datas[e][d] \in Nat
      BY DEF Unborn, MapInv, TypeOK
    <2>2. fds[f][d] <= datas[f][d] /\ datas[f][d] = 0
      BY <1>0 DEF MapInv, ForkInv, ChildInv
    <2>3. \A g \in Env : pc'[g] = "fork_data" => g = e
      BY <1>0, <1>3 DEF Forking
    <2>4. \A g \in Env : pc'[g] # "fork_fd"
      BY <1>0, <1>3 DEF Forking
    <2> QED  BY <1>0, <2>1, <2>2, <2>3, <2>4 DEF ChildInv
  <1>7. ForkInv'
    BY <1>0, <1>3, <1>5, <1>6 DEF ForkInv, Forking
  <1> QED  BY <1>1, <1>2, <1>4, <1>7 DEF MapInv

\* The child that a fork in progress fills.
LEMMA ChildIsUnborn ==
    ASSUME MapInv, NEW e \in Env, Forking(e)
    PROVE  /\ Child \in Unborn /\ Child \in Env /\ Child # e /\ pc[Child] = "unborn"
           /\ \A f \in Env : Forking(f) => f = e
  <1>1. Unborn # {}
    BY DEF MapInv, ForkInv
  <1>2. Child \in Unborn
    BY <1>1 DEF Child
  <1> QED  BY <1>2 DEF Unborn, Forking, MapInv, ForkInv

\* fork(): one page of the pipe, or the end of that part.
LEMMA fork_dataMap ==
    ASSUME MapInv, NEW e \in Env, fork_data(e)
    PROVE  MapInv'
  <1> DEFINE f == Child
             todo == {d \in End : datas[f][d] < datas[e][d]}
  <1>0. pc[e] = "fork_data" /\ fds' = fds /\ end' = end /\ call' = call
    BY DEF fork_data, At, callVars
  <1>1. Forking(e)
    BY <1>0 DEF Forking
  <1>2. f \in Unborn /\ f \in Env /\ f # e /\ pc[f] = "unborn" /\ \A g \in Env : Forking(g) => g = e
    BY <1>1, ChildIsUnborn
  <1>3. \A d \in End : ChildInv(f, d)
    BY <1>2 DEF MapInv, ForkInv
  <1>4. \A d \in End : /\ datas[f][d] \in 0 .. MaxFds /\ datas[e][d] \in 0 .. MaxFds
                       /\ fds[f][d] \in 0 .. MaxFds /\ fds[e][d] \in 0 .. MaxFds
    BY <1>2 DEF MapInv, TypeOK
  <1>5. \A d \in End : fds[f][d] = 0 /\ datas[f][d] <= datas[e][d]
    BY <1>0, <1>3 DEF ChildInv
  <1> HIDE DEF f
  <1>6. CASE todo = {}
    <2>0. pc' = [pc EXCEPT ![e] = "fork_fd"] /\ datas' = datas
      BY <1>6 DEF fork_data, Goto, f
    <2>1. TypeOK'
      BY <2>0 DEF fork_data, MapInv, TypeOK, Stays, pipeVars, callVars, histVars, schedVars, Place
    <2>2. CallInv'
      BY <1>0, <2>0 DEF MapInv, TypeOK, CallInv, Reading, Writing, Asking
    <2>3. \A g \in Env : pc'[g] = IF g = e THEN "fork_fd" ELSE pc[g]
      BY <2>0 DEF MapInv, TypeOK
    <2>4. FdInv'
      BY <1>0, <2>0, <2>3 DEF MapInv, FdInv
    <2>5. Unborn' = Unborn /\ Child' = Child
      <3>1. Unborn' = Unborn
        BY <1>0, <2>3 DEF Unborn
      <3> QED  BY <3>1 DEF Child
    <2>6. \A g \in Env : Forking(g)' <=> Forking(g)
      BY <1>0, <2>3 DEF Forking
    <2>7. ASSUME NEW h \in Unborn, NEW d \in End
          PROVE  ChildInv(h, d)'
      <3>1. ChildInv(h, d)
        BY DEF MapInv, ForkInv
      <3>2. \A g \in Env : pc'[g] # "fork_data"
        BY <1>0, <1>2, <2>3 DEF Forking
      <3>3. \A g \in Env : pc'[g] = "fork_fd" => g = e
        BY <1>2, <2>3 DEF Forking
      <3>4. h = f => datas[h][d] = datas[e][d] /\ fds[h][d] <= fds[e][d]
        BY <1>4, <1>5, <1>6
      <3> QED  BY <1>0, <2>0, <2>5, <2>6, <3>1, <3>2, <3>3, <3>4 DEF ChildInv, f
    <2>8. ForkInv'
      BY <2>5, <2>6, <2>7 DEF MapInv, ForkInv
    <2> QED  BY <2>1, <2>2, <2>4, <2>8 DEF MapInv
  <1>7. CASE todo # {}
    <2>0. /\ pc' = pc
          /\ \E d \in todo : datas' = [datas EXCEPT ![f][d] = @ + 1]
      BY <1>7 DEF fork_data, f
    <2>1. PICK c \in todo : datas' = [datas EXCEPT ![f][c] = @ + 1]
      BY <2>0
    <2>2. c \in End /\ datas[f][c] < datas[e][c] /\ datas[f][c] + 1 \in 0 .. MaxFds
      <3>1. c \in End /\ datas[f][c] < datas[e][c]
        OBVIOUS
      <3> QED  BY <1>4, <3>1, PipeAssumption
    <2>3. datas' \in [Env -> [End -> 0 .. MaxFds]]
      BY <1>2, <2>1, <2>2 DEF MapInv, TypeOK
    <2>4. \A g \in Env : \A d \in End :
             datas'[g][d] = IF g = f /\ d = c THEN datas[g][d] + 1 ELSE datas[g][d]
      BY <1>2, <2>1, <2>2 DEF MapInv, TypeOK
    <2>5. TypeOK'
      BY <2>0, <2>3 DEF fork_data, MapInv, TypeOK, Stays, pipeVars, callVars, histVars, schedVars
    <2>6. CallInv'
      BY <1>0, <2>0 DEF MapInv, CallInv
    <2>7. FdInv'
      BY <1>0, <1>2, <2>0, <2>4 DEF MapInv, FdInv
    <2>8. Unborn' = Unborn /\ Child' = Child
      <3>1. Unborn' = Unborn
        BY <2>0 DEF Unborn
      <3> QED  BY <3>1 DEF Child
    <2>9. ASSUME NEW h \in Unborn, NEW d \in End
          PROVE  ChildInv(h, d)'
      <3>1. ChildInv(h, d) /\ h \in Env
        BY DEF MapInv, ForkInv, Unborn
      <3>2. \A g \in Env : pc[g] \in {"fork_data", "fork_fd"} => g = e
        BY <1>2 DEF Forking
      <3>3. CASE h = f
        <4>1. datas'[f][d] <= datas[e][d] /\ datas'[e][d] = datas[e][d] /\ fds[f][d] <= datas'[f][d]
          BY <1>2, <1>4, <1>5, <2>2, <2>4
        <4>2. Forking(e)'
          BY <1>0, <2>0 DEF Forking
        <4> QED  BY <1>0, <1>5, <2>0, <2>8, <3>2, <3>3, <4>1, <4>2 DEF ChildInv, f
      <3>4. CASE h # f
        <4>1. datas'[h][d] = datas[h][d] /\ datas'[e][d] = datas[e][d]
          BY <1>2, <2>4, <3>1, <3>4
        <4> QED  BY <1>0, <2>0, <2>8, <3>1, <3>2, <3>4, <4>1 DEF ChildInv, f
      <3> QED  BY <3>3, <3>4
    <2>10. ForkInv'
      BY <2>0, <2>8, <2>9 DEF MapInv, ForkInv, Forking
    <2> QED  BY <2>5, <2>6, <2>7, <2>10 DEF MapInv
  <1> QED  BY <1>6, <1>7

\* fork(): one descriptor, or the child becomes runnable.
LEMMA fork_fdMap ==
    ASSUME MapInv, NEW e \in Env, fork_fd(e)
    PROVE  MapInv'
  <1> DEFINE f == Child
             todo == {d \in End : fds[f][d] < fds[e][d]}
  <1>0. pc[e] = "fork_fd" /\ datas' = datas /\ end' = end /\ call' = call
    BY DEF fork_fd, At, callVars
  <1>1. Forking(e)
    BY <1>0 DEF Forking
  <1>2. f \in Unborn /\ f \in Env /\ f # e /\ pc[f] = "unborn" /\ \A g \in Env : Forking(g) => g = e
    BY <1>1, ChildIsUnborn
  <1>3. \A d \in End : ChildInv(f, d)
    BY <1>2 DEF MapInv, ForkInv
  <1>4. \A d \in End : /\ datas[f][d] \in 0 .. MaxFds /\ datas[e][d] \in 0 .. MaxFds
                       /\ fds[f][d] \in 0 .. MaxFds /\ fds[e][d] \in 0 .. MaxFds
    BY <1>2 DEF MapInv, TypeOK
  <1>5. \A d \in End : fds[f][d] <= fds[e][d] /\ datas[f][d] = datas[e][d]
    BY <1>0, <1>3 DEF ChildInv
  <1>6. \A d \in End : datas[e][d] = fds[e][d]
    BY <1>0 DEF MapInv, FdInv
  <1> HIDE DEF f
  <1>7. CASE todo = {}
    <2>0. pc' = [pc EXCEPT ![e] = "user", ![f] = "user"] /\ fds' = fds
      BY <1>7 DEF fork_fd, f
    <2>1. TypeOK'
      BY <1>2, <2>0 DEF fork_fd, MapInv, TypeOK, Stays, pipeVars, callVars, histVars, schedVars, Place
    <2>2. \A g \in Env : pc'[g] = IF g = e \/ g = f THEN "user" ELSE pc[g]
      BY <1>2, <2>0 DEF MapInv, TypeOK
    <2>3. CallInv'
      BY <1>0, <1>2, <2>2 DEF MapInv, CallInv, Reading, Writing, Asking
    <2>4. FdInv'
      <3>1. \A d \in End : datas[f][d] = fds[f][d]
        BY <1>4, <1>5, <1>6, <1>7
      <3>2. ASSUME NEW g \in Env, NEW d \in End
            PROVE  /\ pc'[g] \notin {"unborn", "close", "dup"} => datas'[g][d] = fds'[g][d]
                   /\ pc'[g] \in {"close", "dup"} =>
                         datas'[g][d] = IF d = end'[g] THEN fds'[g][d] + 1 ELSE fds'[g][d]
        <4>1. CASE g = e \/ g = f
          <5>1. pc'[g] = "user" /\ datas'[g][d] = fds'[g][d]
            BY <1>0, <1>6, <2>0, <2>2, <3>1, <4>1
          <5> QED  BY <5>1
        <4>2. CASE ~(g = e \/ g = f)
          <5>1. pc'[g] = pc[g] /\ datas'[g] = datas[g] /\ fds'[g] = fds[g] /\ end'[g] = end[g]
            BY <1>0, <2>0, <2>2, <4>2
          <5> QED  BY <5>1 DEF MapInv, FdInv
        <4> QED  BY <4>1, <4>2
      <3> QED  BY <3>2 DEF FdInv
    <2>5. \A g \in Env : ~Forking(g)'
      BY <1>2, <2>2 DEF Forking
    <2>6. ASSUME NEW h \in Unborn', NEW d \in End
          PROVE  ChildInv(h, d)'
      <3>1. h \in Env /\ h # f /\ h \in Unborn
        BY <2>2 DEF Unborn
      <3>2. datas[h][d] = 0 /\ fds[h][d] <= datas[h][d]
        BY <3>1 DEF MapInv, ForkInv, ChildInv, f
      <3> QED  BY <1>0, <2>0, <2>5, <3>2 DEF ChildInv, Forking
    <2>7. ForkInv'
      BY <2>5, <2>6 DEF ForkInv
    <2> QED  BY <2>1, <2>3, <2>4, <2>7 DEF MapInv
  <1>8. CASE todo # {}
    <2>0. /\ pc' = pc
          /\ \E d \in todo : fds' = [fds EXCEPT ![f][d] = @ + 1]
      BY <1>8 DEF fork_fd, f
    <2>1. PICK c \in todo : fds' = [fds EXCEPT ![f][c] = @ + 1]
      BY <2>0
    <2>2. c \in End /\ fds[f][c] < fds[e][c] /\ fds[f][c] + 1 \in 0 .. MaxFds
      <3>1. c \in End /\ fds[f][c] < fds[e][c]
        OBVIOUS
      <3> QED  BY <1>4, <3>1, PipeAssumption
    <2>3. fds' \in [Env -> [End -> 0 .. MaxFds]]
      BY <1>2, <2>1, <2>2 DEF MapInv, TypeOK
    <2>4. \A g \in Env : \A d \in End :
             fds'[g][d] = IF g = f /\ d = c THEN fds[g][d] + 1 ELSE fds[g][d]
      BY <1>2, <2>1, <2>2 DEF MapInv, TypeOK
    <2>5. TypeOK'
      BY <2>0, <2>3 DEF fork_fd, MapInv, TypeOK, Stays, pipeVars, callVars, histVars, schedVars
    <2>6. CallInv'
      BY <1>0, <2>0 DEF MapInv, CallInv
    <2>7. FdInv'
      BY <1>0, <1>2, <2>0, <2>4 DEF MapInv, FdInv
    <2>8. Unborn' = Unborn /\ Child' = Child
      <3>1. Unborn' = Unborn
        BY <2>0 DEF Unborn
      <3> QED  BY <3>1 DEF Child
    <2>9. ASSUME NEW h \in Unborn, NEW d \in End
          PROVE  ChildInv(h, d)'
      <3>1. ChildInv(h, d) /\ h \in Env
        BY DEF MapInv, ForkInv, Unborn
      <3>2. \A g \in Env : pc[g] \in {"fork_data", "fork_fd"} => g = e
        BY <1>2 DEF Forking
      <3>3. CASE h = f
        <4>1. fds'[f][d] <= fds[e][d] /\ fds'[e][d] = fds[e][d] /\ fds'[f][d] <= datas[f][d]
          BY <1>2, <1>4, <1>5, <1>6, <2>2, <2>4
        <4>2. Forking(e)'
          BY <1>0, <2>0 DEF Forking
        <4> QED  BY <1>0, <1>5, <2>0, <2>8, <3>2, <3>3, <4>1, <4>2 DEF ChildInv, f
      <3>4. CASE h # f
        <4>1. fds'[h][d] = fds[h][d] /\ fds'[e][d] = fds[e][d]
          BY <1>2, <2>4, <3>1, <3>4
        <4> QED  BY <1>0, <2>0, <2>8, <3>1, <3>2, <3>4, <4>1 DEF ChildInv, f
      <3> QED  BY <3>3, <3>4
    <2>10. ForkInv'
      BY <2>0, <2>8, <2>9 DEF MapInv, ForkInv, Forking
    <2> QED  BY <2>5, <2>6, <2>7, <2>10 DEF MapInv
  <1> QED  BY <1>7, <1>8

\* exit()
LEMMA exitMap ==
    ASSUME MapInv, NEW e \in Env, exit(e)
    PROVE  MapInv'
  <1>1. TypeOK'
    <2>1. running' \in SUBSET Env /\ Cardinality(running') <= NCPU
      BY RunningFewer DEF exit, MapInv
    <2> QED  BY <2>1 DEF exit, MapInv, TypeOK, Goto, pipeVars, mapVars, callVars, histVars, Place
  <1>2. CallInv'
    BY DEF exit, MapInv, TypeOK, CallInv, At, Goto, callVars, Reading, Writing, Asking
  <1>3. FdInv' /\ ForkInv'
    BY Quiet DEF exit, MapInv, TypeOK, At, Goto, callVars, mapVars
  <1> QED  BY <1>1, <1>2, <1>3 DEF MapInv

\* Steps of the scheduler, and stuttering.
LEMMA SchedMap ==
    ASSUME MapInv,
           \/ \E e \in Env : env_run(e) \/ timer(e)
           \/ UNCHANGED vars
    PROVE  MapInv'
  <1>1. UNCHANGED <<pipeVars, mapVars, pc, callVars, histVars>>
    BY DEF env_run, timer, vars
  <1>2. /\ ran' \in [Env -> BOOLEAN] /\ ticks' \in 0 .. MaxTicks
        /\ running' \in SUBSET Env /\ Cardinality(running') <= NCPU
    <2>1. CASE UNCHANGED vars
      BY <2>1 DEF vars, schedVars, MapInv, TypeOK
    <2>2. ASSUME NEW e \in Env, env_run(e)
          PROVE  <1>2!1 /\ <1>2!2
      <3>1. running' \in SUBSET Env /\ Cardinality(running') <= NCPU
        BY <2>2, RunningMore DEF env_run, MapInv
      <3> QED  BY <2>2, <3>1 DEF env_run, MapInv, TypeOK
    <2>3. ASSUME NEW e \in Env, timer(e)
          PROVE  <1>2!1 /\ <1>2!2
      <3>1. running' \in SUBSET Env /\ Cardinality(running') <= NCPU
        BY <2>3, RunningFewer DEF timer, MapInv
      <3>2. ticks' \in 0 .. MaxTicks
        BY <2>3, PipeAssumption DEF timer, MapInv, TypeOK
      <3> QED  BY <2>3, <3>1, <3>2 DEF timer, MapInv, TypeOK
    <2> QED  BY <2>1, <2>2, <2>3
  <1>3. TypeOK'
    BY <1>1, <1>2 DEF MapInv, TypeOK, pipeVars, mapVars, callVars, histVars
  <1>4. CallInv' /\ FdInv'
    BY <1>1 DEF MapInv, CallInv, FdInv, mapVars, callVars
  <1>5. ForkInv'
    <2>1. Unborn' = Unborn
      BY <1>1 DEF Unborn
    <2>2. Child' = Child
      BY <2>1 DEF Child
    <2> QED  BY <1>1, <2>1, <2>2 DEF MapInv, ForkInv, ChildInv, Forking, mapVars
  <1> QED  BY <1>3, <1>4, <1>5 DEF MapInv

LEMMA MapInit == Init => MapInv
  <1> SUFFICES ASSUME Init PROVE MapInv
    OBVIOUS
  <1>1. Cardinality(running) <= NCPU
    <2>1. Cardinality({First}) = 1
      BY FS_Singleton
    <2> QED  BY <2>1, PipeAssumption DEF Init
  <1>2. TypeOK
    <2>1. fds \in [Env -> [End -> 0 .. MaxFds]] /\ datas = fds
      BY PipeAssumption DEF Init
    <2>2. /\ p_buf \in [0 .. PIPEBUFSIZ - 1 -> Nat] /\ got \in Seq(Nat)
          /\ p_rpos \in Nat /\ p_wpos \in Nat
          /\ i \in [Env -> Nat] /\ ref \in [Env -> Nat]
          /\ writes \in 0 .. MaxWrites /\ ticks \in 0 .. MaxTicks
      BY PipeAssumption DEF Init
    <2>3. /\ ret \in [Env -> BOOLEAN] /\ ran \in [Env -> BOOLEAN] /\ eof \in BOOLEAN
          /\ running \in SUBSET Env
      BY PipeAssumption DEF Init
    <2>4. /\ pc \in [Env -> Place] /\ end \in [Env -> End]
          /\ call \in [Env -> {"none", "close", "dup", "pipeisclosed", "read", "write"}]
      BY DEF Init, Place, End
    <2> QED  BY <1>1, <2>1, <2>2, <2>3, <2>4 DEF TypeOK
  <1>3. CallInv /\ FdInv
    BY DEF Init, CallInv, FdInv, Reading, Writing, Asking
  <1>4. ForkInv
    BY DEF Init, ForkInv, ChildInv, Forking, Unborn
  <1> QED  BY <1>2, <1>3, <1>4 DEF MapInv

LEMMA MapStep == MapInv /\ [Next]_vars => MapInv'
  <1> SUFFICES ASSUME MapInv, [Next]_vars PROVE MapInv'
    OBVIOUS
  <1>1. ASSUME NEW e \in Env, Program(e)
        PROVE  MapInv'
    BY <1>1, forkMap, exitMap, readMap, writeMap, closeMap, dupMap, pipeisclosedMap DEF Program
  <1>2. ASSUME NEW e \in Env, Library(e)
        PROVE  MapInv'
    BY <1>2, close_dataMap, dup_fdMap, fork_dataMap, fork_fdMap, read_nMap, read_refMap, read_retMap,
       read_nnMap, r_testMap, r_takeMap, r_incMap, w_testMap, w_storeMap, w_incMap DEF Library
  <1>3. CASE (\E e \in Env : env_run(e) \/ timer(e)) \/ UNCHANGED vars
    BY <1>3, SchedMap
  <1> QED  BY <1>1, <1>2, <1>3 DEF Next

(***************************************************************************)
(* Whoever is stopped in the middle of close(), dup() or fork(), an end    *)
(* whose descriptor page has as many references as the pipe has is one     *)
(* whose other end is not open: close() drops the descriptor first, dup()  *)
(* and fork() add it last.                                                 *)
(***************************************************************************)
LEMMA CountsTellMap == MapInv => CountsTell
  <1> SUFFICES ASSUME MapInv, NEW d \in End, FdRef(d) = PipeRef, NEW e \in Env, fds[e][Other(d)] > 0
               PROVE  FALSE
    BY DEF CountsTell, IsOpen
  <1> DEFINE F == {m \in Mappings(fds) : m[2] = d}
             D == Mappings(datas)
             o == Other(d)
  <1>1. o \in End /\ o # d
    BY DEF End, Other
  <1>2. \A f \in Env : \A c \in End : fds[f][c] \in Nat /\ datas[f][c] \in Nat /\ fds[f][c] <= datas[f][c]
    <2> SUFFICES ASSUME NEW f \in Env, NEW c \in End
                 PROVE  fds[f][c] \in Nat /\ datas[f][c] \in Nat /\ fds[f][c] <= datas[f][c]
      OBVIOUS
    <2>1. fds[f][c] \in Nat /\ datas[f][c] \in Nat
      BY DEF MapInv, TypeOK
    <2>2. CASE pc[f] = "unborn"
      BY <2>1, <2>2 DEF MapInv, ForkInv, ChildInv, Unborn
    <2>3. CASE pc[f] # "unborn"
      BY <2>1, <2>3 DEF MapInv, FdInv
    <2> QED  BY <2>1, <2>2, <2>3
  <1>3. F \in SUBSET D
    <2> SUFFICES ASSUME NEW m \in F PROVE m \in D
      OBVIOUS
    <2>1. m \in Env \X End \X (1 .. MaxFds) /\ m[3] <= fds[m[1]][m[2]]
      BY DEF Mappings
    <2>2. m[1] \in Env /\ m[2] \in End /\ m[3] \in Nat
      BY <2>1
    <2>3. m[3] <= datas[m[1]][m[2]]
      BY <1>2, <2>1, <2>2
    <2> QED  BY <2>1, <2>3 DEF Mappings
  <1>4. D = F
    <2>1. IsFiniteSet(D)
      BY MappingsFinite
    <2>2. Cardinality(D) = Cardinality(F)
      BY DEF FdRef, PipeRef
    <2> HIDE DEF D, F
    <2> QED  BY <1>3, <2>1, <2>2, FS_Subset
  <1>5. <<e, o, 1>> \in D
    <2>1. fds[e][o] \in Nat /\ datas[e][o] \in Nat /\ fds[e][o] <= datas[e][o]
      BY <1>1, <1>2
    <2>2. 1 <= datas[e][o]
      BY <2>1
    <2>3. <<e, o, 1>> \in Env \X End \X (1 .. MaxFds)
      BY <1>1, PipeAssumption
    <2> QED  BY <2>2, <2>3 DEF Mappings
  <1>6. <<e, o, 1>> \notin F
    BY <1>1
  <1> QED  BY <1>4, <1>5, <1>6

-----------------------------------------------------------------------------
(***************************************************************************)
(* The stream.                                                             *)
(***************************************************************************)

\* Two places of the ring that are less than its size apart differ.
LEMMA RingApart ==
    ASSUME NEW a \in Nat, NEW b \in Nat, a < b, b < a + PIPEBUFSIZ
    PROVE  a % PIPEBUFSIZ # b % PIPEBUFSIZ
  <1> DEFINE n == PIPEBUFSIZ
             q == a \div n
             r == a % n
             u == b \div n
             v == b % n
  <1>1. n \in Nat /\ n > 0
    BY PipeAssumption
  <1> HIDE DEF n
  <1>2. q \in Int /\ r \in Int /\ a = n * q + r
    BY <1>1
  <1>3. u \in Int /\ v \in Int /\ b = n * u + v
    BY <1>1
  <1>4. SUFFICES ASSUME r = v PROVE FALSE
    BY DEF n
  <1> HIDE DEF q, r, u, v
  <1>5. n * (u - q) = b - a
    BY <1>1, <1>2, <1>3, <1>4
  <1>6. CASE u - q >= 1
    <2>1. n * (u - q) >= n
      BY <1>1, <1>2, <1>3, <1>6
    <2> QED  BY <1>1, <1>5, <2>1 DEF n
  <1>7. CASE u - q <= 0
    <2>1. n * (u - q) <= 0
      BY <1>1, <1>2, <1>3, <1>7
    <2> QED  BY <1>1, <1>5, <2>1
  <1> QED  BY <1>2, <1>3, <1>6, <1>7

\* A step of the specification of streams, or none.
StreamStep == [Abstract!Next]_<<p_wpos, got>>

\* A step that leaves the ring alone and brings neither side past its test.
LEMMA StreamFrame ==
    ASSUME StreamInv, UNCHANGED <<pipeVars, got>>,
           pc'[Writer] \in {"w_store", "w_inc"} => pc'[Writer] = pc[Writer],
           pc'[Reader] = "r_take" => pc[Reader] = "r_take",
           pc'[Reader] = "r_inc" <=> pc[Reader] = "r_inc"
    PROVE  StreamInv' /\ StreamStep
  <1>1. p_rpos' = p_rpos /\ p_wpos' = p_wpos /\ p_buf' = p_buf /\ got' = got
    BY DEF pipeVars
  <1>2. StreamStep
    BY <1>1 DEF StreamStep
  <1>3. StreamInv'
    BY <1>1 DEF StreamInv
  <1> QED  BY <1>2, <1>3

\* The reader's and the writer's place, for a step of e that goes to q.
LEMMA PlaceOfOther ==
    ASSUME MapInv, NEW e \in Env, NEW q, pc' = [pc EXCEPT ![e] = q]
    PROVE  \A f \in Env : pc'[f] = IF f = e THEN q ELSE pc[f]
  BY DEF MapInv, TypeOK

LEMMA r_testStream ==
    ASSUME MapInv, StreamInv, NEW e \in Env, r_test(e)
    PROVE  StreamInv' /\ StreamStep
  <1>1. e = Reader /\ pc[e] = "r_test"
    BY DEF r_test, At, MapInv, CallInv, Reading
  <1>2. PICK q \in {"user", "n", "r_take"} : pc' = [pc EXCEPT ![e] = q] /\ (q = "r_take" => p_rpos # p_wpos)
    BY DEF r_test, Return, Goto
  <1>3. \A f \in Env : pc'[f] = IF f = e THEN q ELSE pc[f]
    BY <1>2, PlaceOfOther
  <1>4. UNCHANGED <<pipeVars, got>>
    BY DEF r_test, histVars
  <1>5. StreamStep
    BY <1>4 DEF StreamStep, pipeVars
  <1>6. p_rpos \in Nat /\ p_wpos \in Nat /\ Reader \in Env /\ Writer \in Env
    BY PipeAssumption DEF MapInv, TypeOK
  <1>7. pc'[Writer] \in {"w_store", "w_inc"} => pc'[Writer] = pc[Writer]
    BY <1>3, <1>6
  <1>8. pc'[Reader] = q
    BY <1>1, <1>3
  <1>9. StreamInv'
    BY <1>1, <1>2, <1>4, <1>6, <1>7, <1>8 DEF StreamInv, pipeVars
  <1> QED  BY <1>5, <1>9

LEMMA r_takeStream ==
    ASSUME MapInv, StreamInv, NEW e \in Env, r_take(e)
    PROVE  StreamInv' /\ StreamStep
  <1>1. e = Reader /\ pc[e] = "r_take"
    BY DEF r_take, At, MapInv, CallInv, Reading
  <1>2. pc' = [pc EXCEPT ![e] = "r_inc"] /\ UNCHANGED pipeVars
    BY DEF r_take, Goto
  <1>3. \A f \in Env : pc'[f] = IF f = e THEN "r_inc" ELSE pc[f]
    BY <1>2, PlaceOfOther
  <1>4. p_rpos \in Nat /\ p_wpos \in Nat /\ Reader \in Env /\ Writer \in Env /\ got \in Seq(Nat)
    BY PipeAssumption DEF MapInv, TypeOK
  <1>5. p_rpos < p_wpos /\ Len(got) = p_rpos
    BY <1>1 DEF StreamInv
  <1>6. p_buf[p_rpos % PIPEBUFSIZ] = p_rpos + 1
    BY <1>4, <1>5 DEF StreamInv
  <1>7. got' = Append(got, Len(got) + 1)
    BY <1>5, <1>6 DEF r_take
  <1>8. StreamStep
    BY <1>2, <1>5, <1>7 DEF StreamStep, Abstract!Next, Abstract!Receive, pipeVars
  <1>9. Len(got') = p_rpos + 1
    BY <1>4, <1>5, <1>7
  <1>10. pc'[Writer] \in {"w_store", "w_inc"} => pc'[Writer] = pc[Writer]
    BY <1>3, <1>4
  <1>11. pc'[Reader] = "r_inc"
    BY <1>1, <1>3
  <1>12. StreamInv'
    BY <1>2, <1>5, <1>9, <1>10, <1>11 DEF StreamInv, pipeVars
  <1> QED  BY <1>8, <1>12

LEMMA r_incStream ==
    ASSUME MapInv, StreamInv, NEW e \in Env, r_inc(e)
    PROVE  StreamInv' /\ StreamStep
  <1>1. e = Reader /\ pc[e] = "r_inc"
    BY DEF r_inc, At, MapInv, CallInv, Reading
  <1>2. PICK q \in {"user", "r_test"} : pc' = [pc EXCEPT ![e] = q]
    BY DEF r_inc, Return, Goto
  <1>3. \A f \in Env : pc'[f] = IF f = e THEN q ELSE pc[f]
    BY <1>2, PlaceOfOther
  <1>4. p_rpos' = p_rpos + 1 /\ UNCHANGED <<p_wpos, p_buf, got>>
    BY DEF r_inc, histVars
  <1>5. p_rpos \in Nat /\ p_wpos \in Nat /\ Reader \in Env /\ Writer \in Env /\ PIPEBUFSIZ \in Nat
    BY PipeAssumption DEF MapInv, TypeOK
  <1>6. p_rpos < p_wpos /\ Len(got) = p_rpos + 1 /\ p_wpos <= p_rpos + PIPEBUFSIZ
    BY <1>1 DEF StreamInv
  <1>7. StreamStep
    BY <1>4 DEF StreamStep
  <1>8. pc'[Reader] = q
    BY <1>1, <1>3
  <1>9. pc'[Writer] \in {"w_store", "w_inc"} => pc'[Writer] = pc[Writer]
    BY <1>3, <1>5
  <1>10. p_rpos' <= p_wpos' /\ p_wpos' <= p_rpos' + PIPEBUFSIZ
    BY <1>4, <1>5, <1>6
  <1>11. pc'[Writer] \in {"w_store", "w_inc"} => p_wpos' < p_rpos' + PIPEBUFSIZ
    BY <1>4, <1>5, <1>9 DEF StreamInv
  <1>12. \A k \in 0 .. p_wpos' : p_rpos' <= k /\ k < p_wpos' => p_buf'[k % PIPEBUFSIZ] = k + 1
    <2> SUFFICES ASSUME NEW k \in 0 .. p_wpos, p_rpos + 1 <= k, k < p_wpos
                 PROVE  p_buf[k % PIPEBUFSIZ] = k + 1
      BY <1>4
    <2>1. p_rpos <= k
      BY <1>5
    <2> QED  BY <2>1 DEF StreamInv
  <1>13. pc'[Writer] = "w_inc" => p_buf'[p_wpos' % PIPEBUFSIZ] = p_wpos' + 1
    BY <1>4, <1>9 DEF StreamInv
  <1>14. StreamInv'
    BY <1>4, <1>6, <1>8, <1>10, <1>11, <1>12, <1>13 DEF StreamInv
  <1> QED  BY <1>7, <1>14

LEMMA w_testStream ==
    ASSUME MapInv, StreamInv, NEW e \in Env, w_test(e)
    PROVE  StreamInv' /\ StreamStep
  <1>1. e = Writer /\ pc[e] = "w_test"
    BY DEF w_test, At, MapInv, CallInv, Writing
  <1>2. PICK q \in {"n", "w_store"} :
           pc' = [pc EXCEPT ![e] = q] /\ (q = "w_store" => ~(p_wpos >= p_rpos + PIPEBUFSIZ))
    BY DEF w_test, Goto
  <1>3. \A f \in Env : pc'[f] = IF f = e THEN q ELSE pc[f]
    BY <1>2, PlaceOfOther
  <1>4. UNCHANGED <<pipeVars, got>>
    BY DEF w_test, histVars
  <1>5. StreamStep
    BY <1>4 DEF StreamStep, pipeVars
  <1>6. /\ p_rpos \in Nat /\ p_wpos \in Nat /\ Reader \in Env /\ Writer \in Env /\ PIPEBUFSIZ \in Nat
    BY PipeAssumption DEF MapInv, TypeOK
  <1>7. /\ pc'[Reader] \in {"r_take", "r_inc"} => pc'[Reader] = pc[Reader]
        /\ pc'[Reader] = "r_inc" <=> pc[Reader] = "r_inc"
    BY <1>1, <1>3, <1>6
  <1>8. pc'[Writer] = q /\ (q = "w_store" => p_wpos < p_rpos + PIPEBUFSIZ)
    BY <1>1, <1>2, <1>3, <1>6
  <1>9. StreamInv'
    BY <1>1, <1>4, <1>7, <1>8 DEF StreamInv, pipeVars
  <1> QED  BY <1>5, <1>9

LEMMA w_storeStream ==
    ASSUME MapInv, StreamInv, NEW e \in Env, w_store(e)
    PROVE  StreamInv' /\ StreamStep
  <1>1. e = Writer /\ pc[e] = "w_store"
    BY DEF w_store, At, MapInv, CallInv, Writing
  <1>2. pc' = [pc EXCEPT ![e] = "w_inc"]
    BY DEF w_store, Goto
  <1>3. \A f \in Env : pc'[f] = IF f = e THEN "w_inc" ELSE pc[f]
    BY <1>2, PlaceOfOther
  <1>4. UNCHANGED <<p_rpos, p_wpos, got>> /\ p_buf' = [p_buf EXCEPT ![p_wpos % PIPEBUFSIZ] = p_wpos + 1]
    BY DEF w_store, histVars
  <1>5. StreamStep
    BY <1>4 DEF StreamStep
  <1>6. /\ p_rpos \in Nat /\ p_wpos \in Nat /\ Reader \in Env /\ Writer \in Env /\ PIPEBUFSIZ \in Nat
        /\ p_buf \in [0 .. PIPEBUFSIZ - 1 -> Nat]
    BY PipeAssumption DEF MapInv, TypeOK
  <1>7. /\ pc'[Reader] \in {"r_take", "r_inc"} => pc'[Reader] = pc[Reader]
        /\ pc'[Reader] = "r_inc" <=> pc[Reader] = "r_inc"
    BY <1>1, <1>3, <1>6
  <1>8. pc'[Writer] = "w_inc" /\ p_wpos < p_rpos + PIPEBUFSIZ
    BY <1>1, <1>3 DEF StreamInv
  <1>9. p_buf'[p_wpos % PIPEBUFSIZ] = p_wpos + 1
    BY <1>4, <1>6, RingIndex
  <1>10. \A k \in 0 .. p_wpos : p_rpos <= k /\ k < p_wpos => p_buf'[k % PIPEBUFSIZ] = k + 1
    <2> SUFFICES ASSUME NEW k \in 0 .. p_wpos, p_rpos <= k, k < p_wpos
                 PROVE  p_buf'[k % PIPEBUFSIZ] = k + 1
      OBVIOUS
    <2>1. k \in Nat /\ p_wpos < k + PIPEBUFSIZ
      BY <1>6, <1>8
    <2>2. k % PIPEBUFSIZ # p_wpos % PIPEBUFSIZ
      BY <1>6, <2>1, RingApart
    <2>3. p_buf[k % PIPEBUFSIZ] = k + 1
      BY DEF StreamInv
    <2>4. k % PIPEBUFSIZ \in 0 .. PIPEBUFSIZ - 1
      BY <2>1, RingIndex
    <2> QED  BY <1>4, <1>6, <2>2, <2>3, <2>4
  <1>11. StreamInv'
    BY <1>4, <1>7, <1>8, <1>9, <1>10 DEF StreamInv
  <1> QED  BY <1>5, <1>11

LEMMA w_incStream ==
    ASSUME MapInv, StreamInv, NEW e \in Env, w_inc(e)
    PROVE  StreamInv' /\ StreamStep
  <1>1. e = Writer /\ pc[e] = "w_inc"
    BY DEF w_inc, At, MapInv, CallInv, Writing
  <1>2. PICK q \in {"user", "w_test"} : pc' = [pc EXCEPT ![e] = q]
    BY DEF w_inc, Return, Goto
  <1>3. \A f \in Env : pc'[f] = IF f = e THEN q ELSE pc[f]
    BY <1>2, PlaceOfOther
  <1>4. p_wpos' = p_wpos + 1 /\ UNCHANGED <<p_rpos, p_buf, got>>
    BY DEF w_inc, histVars
  <1>5. /\ p_rpos \in Nat /\ p_wpos \in Nat /\ Reader \in Env /\ Writer \in Env /\ PIPEBUFSIZ \in Nat
        /\ got \in Seq(Nat)
    BY PipeAssumption DEF MapInv, TypeOK
  <1>6. /\ pc'[Reader] \in {"r_take", "r_inc"} => pc'[Reader] = pc[Reader]
        /\ pc'[Reader] = "r_inc" <=> pc[Reader] = "r_inc"
    BY <1>1, <1>3, <1>5
  <1>7. p_rpos <= p_wpos /\ p_wpos < p_rpos + PIPEBUFSIZ /\ p_buf[p_wpos % PIPEBUFSIZ] = p_wpos + 1
    BY <1>1 DEF StreamInv
  <1>8. Len(got) \in {p_rpos, p_rpos + 1}
    BY DEF StreamInv
  <1>9. StreamStep
    <2>1. p_wpos - Len(got) < PIPEBUFSIZ
      BY <1>5, <1>7, <1>8
    <2> QED  BY <1>4, <2>1 DEF StreamStep, Abstract!Next, Abstract!Send
  <1>10. pc'[Writer] = q
    BY <1>1, <1>3
  <1>11. \A k \in 0 .. p_wpos' : p_rpos <= k /\ k < p_wpos' => p_buf[k % PIPEBUFSIZ] = k + 1
    <2> SUFFICES ASSUME NEW k \in 0 .. p_wpos + 1, p_rpos <= k, k < p_wpos + 1
                 PROVE  p_buf[k % PIPEBUFSIZ] = k + 1
      BY <1>4
    <2>1. CASE k = p_wpos
      BY <1>7, <2>1
    <2>2. CASE k # p_wpos
      <3>1. k \in 0 .. p_wpos /\ k < p_wpos
        BY <1>5, <2>2
      <3> QED  BY <3>1 DEF StreamInv
    <2> QED  BY <2>1, <2>2
  <1>12. p_rpos <= p_wpos' /\ p_wpos' <= p_rpos + PIPEBUFSIZ /\ (p_rpos < p_wpos => p_rpos < p_wpos')
    BY <1>4, <1>5, <1>7
  <1>13. StreamInv'
    BY <1>4, <1>6, <1>10, <1>11, <1>12 DEF StreamInv
  <1> QED  BY <1>9, <1>13

\* Every other step: nobody comes into the middle of devpipe_read() or
\* devpipe_write() but by the steps above.
LEMMA OtherStream ==
    ASSUME MapInv, StreamInv, NEW e \in Env,
           \/ Program(e) \/ env_run(e) \/ timer(e)
           \/ close_data(e) \/ dup_fd(e) \/ fork_data(e) \/ fork_fd(e)
           \/ read_n(e) \/ read_ref(e) \/ read_ret(e) \/ read_nn(e)
    PROVE  StreamInv' /\ StreamStep
  <1>1. UNCHANGED <<pipeVars, got>>
    BY DEF Program, fork, exit, read, write, close, dup, pipeisclosed, env_run, timer, close_data, dup_fd,
           fork_data, fork_fd, read_n, read_ref, read_ret, read_nn, histVars
  <1>2. pc[e] \in Reading \cup Writing => pc' = pc
    BY DEF Program, fork, exit, read, write, close, dup, pipeisclosed, env_run, timer, close_data, dup_fd,
           fork_data, fork_fd, read_n, read_ref, read_ret, read_nn, At, Enter, Reading, Writing
  <1>3. \/ pc' = pc
        \/ \E q \in Place \ {"r_take", "r_inc", "w_store", "w_inc"} : pc' = [pc EXCEPT ![e] = q]
        \/ Forking(e) /\ pc' = [pc EXCEPT ![e] = "user", ![Child] = "user"]
    BY DEF Program, fork, exit, read, write, close, dup, pipeisclosed, env_run, timer, close_data, dup_fd,
           fork_data, fork_fd, read_n, read_ref, read_ret, read_nn, At, Enter, Return, Goto, Place, Forking
  <1>4. Reader \in Env /\ Writer \in Env
    BY PipeAssumption
  <1>5. \A f \in Env : /\ pc'[f] \in {"r_take", "r_inc", "w_store", "w_inc"} => pc'[f] = pc[f]
                       /\ pc[f] = "r_inc" => pc'[f] = "r_inc"
    <2>1. CASE pc' = pc
      BY <2>1
    <2>2. ASSUME NEW q \in Place \ {"r_take", "r_inc", "w_store", "w_inc"}, pc' = [pc EXCEPT ![e] = q]
          PROVE  <1>5
      <3>1. \A f \in Env : pc'[f] = IF f = e THEN q ELSE pc[f]
        BY <2>2, PlaceOfOther
      <3>2. CASE pc[e] = "r_inc"
        BY <1>2, <3>2 DEF Reading
      <3>3. CASE pc[e] # "r_inc"
        BY <3>1, <3>3
      <3> QED  BY <3>2, <3>3
    <2>3. ASSUME Forking(e), pc' = [pc EXCEPT ![e] = "user", ![Child] = "user"]
          PROVE  <1>5
      <3>1. Child \in Env /\ pc[Child] = "unborn"
        BY <2>3, ChildIsUnborn
      <3>2. \A f \in Env : pc'[f] = IF f = e \/ f = Child THEN "user" ELSE pc[f]
        BY <2>3, <3>1 DEF MapInv, TypeOK
      <3>3. pc[e] # "r_inc" /\ pc[Child] # "r_inc"
        BY <2>3, <3>1 DEF Forking
      <3> QED  BY <3>2, <3>3
    <2> QED  BY <1>3, <2>1, <2>2, <2>3
  <1> QED  BY <1>1, <1>4, <1>5, StreamFrame

LEMMA StreamInit == Init => StreamInv /\ Abstract!Init
  <1> SUFFICES ASSUME Init PROVE StreamInv /\ Abstract!Init
    OBVIOUS
  <1>1. Abstract!Init
    BY DEF Init, Abstract!Init
  <1>2. /\ pc[Reader] \in {"user", "unborn"} /\ pc[Writer] \in {"user", "unborn"}
        /\ p_rpos = 0 /\ p_wpos = 0 /\ PIPEBUFSIZ \in Nat /\ Len(got) = 0
    BY PipeAssumption DEF Init
  <1> QED  BY <1>1, <1>2 DEF StreamInv

LEMMA StreamKept == MapInv /\ StreamInv /\ [Next]_vars => StreamInv' /\ StreamStep
  <1> SUFFICES ASSUME MapInv, StreamInv, [Next]_vars PROVE StreamInv' /\ StreamStep
    OBVIOUS
  <1>1. CASE UNCHANGED vars
    BY <1>1, StreamFrame DEF vars, histVars
  <1>2. ASSUME NEW e \in Env, Program(e) \/ Library(e) \/ env_run(e) \/ timer(e)
        PROVE  StreamInv' /\ StreamStep
    BY <1>2, OtherStream, r_testStream, r_takeStream, r_incStream, w_testStream, w_storeStream, w_incStream
       DEF Library
  <1> QED  BY <1>1, <1>2 DEF Next

(***************************************************************************)
(* A pipe with one reading and one writing environment is a stream: the    *)
(* bytes arrive in the order they were written, once each, and at most     *)
(* PIPEBUFSIZ are under way, although devpipe_read() and devpipe_write()   *)
(* look at p_rpos and p_wpos without a lock, on as many processors as      *)
(* there are, and are interrupted anywhere.                                *)
(***************************************************************************)
THEOREM PipeIsStream == Spec => IsStream
  <1>1. Init => MapInv /\ StreamInv /\ Abstract!Init
    BY MapInit, StreamInit
  <1>2. MapInv /\ StreamInv /\ [Next]_vars => MapInv' /\ StreamInv' /\ [Abstract!Next]_<<p_wpos, got>>
    BY MapStep, StreamKept DEF StreamStep
  <1> QED  BY <1>1, <1>2, PTL DEF Spec, IsStream, Abstract!Spec

(***************************************************************************)
(* Whoever is stopped in the middle of close(), dup() or fork(), an end    *)
(* whose descriptor page has as many references as the pipe has is one     *)
(* whose other end is not open, on any number of processors.               *)
(***************************************************************************)
THEOREM CountsAreRight == Spec => []CountsTell
  <1>1. Init => MapInv
    BY MapInit
  <1>2. MapInv /\ [Next]_vars => MapInv'
    BY MapStep
  <1>3. MapInv => CountsTell
    BY CountsTellMap
  <1> QED  BY <1>1, <1>2, <1>3, PTL DEF Spec

-----------------------------------------------------------------------------
(***************************************************************************)
(* _pipeisclosed() on one processor.                                       *)
(***************************************************************************)

\* The steps that an environment takes on its processor.
LEMMA OnProcessor ==
    ASSUME NEW e \in Env, Program(e) \/ Library(e)
    PROVE  e \in running
  BY DEF Program, fork, exit, read, write, close, dup, pipeisclosed, Library, close_data, dup_fd,
         fork_data, fork_fd, read_n, read_ref, read_ret, read_nn, r_test, r_take, r_inc, w_test, w_store,
         w_inc, At, Enter

\* The places from which a count has been read and not yet used.
LEMMA AskFrame ==
    ASSUME AskInv, NEW e \in running, running' \subseteq running,
           pc'[e] \notin {"ret", "nn"} \/ running' = {}
    PROVE  AskInv'
  BY DEF AskInv

\* One processor has at most one environment.
LEMMA OneRuns ==
    ASSUME MapInv, NCPU = 1, Cardinality(running) < NCPU
    PROVE  running = {}
  <1>1. IsFiniteSet(running)
    BY FS_Subset, PipeAssumption DEF MapInv, TypeOK
  <1>2. Cardinality(running) \in Nat
    BY <1>1, FS_CardinalityType
  <1>3. Cardinality(running) = 0
    BY <1>2
  <1> QED  BY <1>1, <1>3, FS_EmptySet

LEMMA AskKept ==
    ASSUME NCPU = 1, MapInv, AskInv, [Next]_vars
    PROVE  AskInv'
  <1>1. CASE UNCHANGED vars
    <2>1. FdRef("r")' = FdRef("r") /\ FdRef("w")' = FdRef("w") /\ PipeRef' = PipeRef
      BY <1>1 DEF vars, mapVars, FdRef, PipeRef, Mappings
    <2>2. \A e \in Env : FdRef(end[e])' = FdRef(end[e])
      BY <1>1 DEF vars, mapVars, callVars, FdRef, Mappings
    <2>3. running \in SUBSET Env
      BY DEF MapInv, TypeOK
    <2> QED  BY <1>1, <2>1, <2>2, <2>3 DEF AskInv, vars, callVars, schedVars
  <1>2. ASSUME NEW e \in Env, env_run(e)
        PROVE  AskInv'
    <2>1. running' = {e}
      BY <1>2, OneRuns DEF env_run
    <2>2. ran'[e] = (pc[e] \in {"ref", "ret", "nn"}) /\ pc' = pc
      BY <1>2 DEF env_run, MapInv, TypeOK
    <2> QED  BY <2>1, <2>2 DEF AskInv
  <1>3. ASSUME NEW e \in Env, timer(e)
        PROVE  AskInv'
    <2>1. running' = {}
      BY <1>3 DEF timer, AskInv
    <2> QED  BY <2>1 DEF AskInv
  <1>4. ASSUME NEW e \in Env, Program(e) \/ Library(e), ~read_ref(e), ~read_ret(e)
        PROVE  AskInv'
    <2>1. e \in running
      BY <1>4, OnProcessor
    <2>2. running' \in {running, running \ {e}}
      BY <1>4 DEF Program, fork, exit, read, write, close, dup, pipeisclosed, Library, close_data, dup_fd,
         fork_data, fork_fd, read_n, read_nn, r_test, r_take, r_inc, w_test, w_store, w_inc, Stays, schedVars
    <2>3. pc'[e] \notin {"ret", "nn"}
      <3>1. \/ \E q \in Place \ {"ret", "nn"} : pc' = [pc EXCEPT ![e] = q]
            \/ pc' = pc /\ Forking(e)
            \/ Forking(e) /\ pc' = [pc EXCEPT ![e] = "user", ![Child] = "user"]
        BY <1>4 DEF Program, fork, exit, read, write, close, dup, pipeisclosed, Library, close_data, dup_fd,
           fork_data, fork_fd, read_n, read_nn, r_test, r_take, r_inc, w_test, w_store, w_inc, At, Enter,
           Return, Goto, Place, Forking
      <3> QED  BY <3>1 DEF MapInv, TypeOK, Forking
    <2> QED  BY <2>1, <2>2, <2>3, AskFrame DEF AskInv
  <1>5. ASSUME NEW e \in Env, read_ref(e)
        PROVE  AskInv'
    <2>1. running' = running /\ e \in running /\ pc'[e] = "ret"
      BY <1>5 DEF read_ref, At, Goto, Stays, schedVars, MapInv, TypeOK
    <2>2. ref'[e] = FdRef(end[e])
      BY <1>5 DEF read_ref, MapInv, TypeOK
    <2>3. FdRef(end[e])' = FdRef(end[e])
      BY <1>5 DEF read_ref, mapVars, FdRef, Mappings
    <2> QED  BY <2>1, <2>2, <2>3 DEF AskInv
  <1>6. ASSUME NEW e \in Env, read_ret(e)
        PROVE  AskInv'
    <2>1. running' = running /\ ran' = ran /\ e \in running /\ pc[e] = "ret" /\ pc'[e] = "nn" /\ ref' = ref
      BY <1>6 DEF read_ret, At, Goto, Stays, schedVars, MapInv, TypeOK
    <2>2. ret'[e] = (ref[e] = PipeRef)
      BY <1>6 DEF read_ret, MapInv, TypeOK
    <2>3. FdRef(end[e])' = FdRef(end[e]) /\ PipeRef' = PipeRef
      BY <1>6 DEF read_ret, mapVars, FdRef, PipeRef, Mappings
    <2> QED  BY <2>1, <2>2, <2>3 DEF AskInv
  <1> QED  BY <1>1, <1>2, <1>3, <1>4, <1>5, <1>6 DEF Next

(***************************************************************************)
(* On one processor _pipeisclosed() is right: when it answers that the     *)
(* other end is closed, no environment has a descriptor of it, although    *)
(* pageref(fd) and pageref(p) are read one after the other and close(),    *)
(* dup() and fork() of others may come between: then env_runs has changed. *)
(***************************************************************************)
THEOREM ClosedMeansClosed ==
    ASSUME NCPU = 1
    PROVE  Spec => NoFalseClosed
  <1>1. Init => MapInv /\ AskInv
    <2>1. Init => AskInv
      <3> SUFFICES ASSUME Init PROVE AskInv
        OBVIOUS
      <3>1. running = {First} /\ pc[First] = "user"
        BY PipeAssumption DEF Init
      <3> QED  BY <3>1 DEF AskInv
    <2> QED  BY <2>1, MapInit
  <1>2. MapInv /\ AskInv /\ [Next]_vars => MapInv' /\ AskInv'
    BY MapStep, AskKept
  <1>3. ASSUME MapInv, AskInv, [Next]_vars
        PROVE  [\A e \in Env : pc[e] = "nn" /\ pc'[e] \notin {"nn", "n"} /\ ret[e]
                                  => ~IsOpen(Other(end[e]))]_vars
    <2> SUFFICES ASSUME Next, NEW e \in Env, pc[e] = "nn", pc'[e] \notin {"nn", "n"}, ret[e]
                 PROVE  ~IsOpen(Other(end[e]))
      BY <1>3
    <2>1. PICK f \in Env : Program(f) \/ Library(f) \/ env_run(f) \/ timer(f)
      BY DEF Next
    <2>2. ~env_run(f) /\ ~timer(f)
      BY DEF env_run, timer
    <2>3. f = e
      <3>1. \/ \E q \in Place : pc' = [pc EXCEPT ![f] = q]
            \/ pc' = pc
            \/ Forking(f) /\ pc' = [pc EXCEPT ![f] = "user", ![Child] = "user"]
        BY <2>1, <2>2 DEF Program, fork, exit, read, write, close, dup, pipeisclosed, Library, close_data, dup_fd,
           fork_data, fork_fd, read_n, read_ref, read_ret, read_nn, r_test, r_take, r_inc, w_test, w_store,
           w_inc, At, Enter, Return, Goto, Place, Forking
      <3>2. Forking(f) => Child \in Env /\ pc[Child] = "unborn"
        BY <1>3, ChildIsUnborn
      <3> QED  BY <1>3, <3>1, <3>2 DEF MapInv, TypeOK
    <2>4. e \in running
      BY <2>1, <2>2, <2>3, OnProcessor
    <2>5. read_nn(e)
      BY <2>1, <2>2, <2>3 DEF Program, fork, exit, read, write, close, dup, pipeisclosed, Library, close_data,
         dup_fd, fork_data, fork_fd, read_n, read_ref, read_ret, r_test, r_take, r_inc, w_test, w_store,
         w_inc, At, Enter
    <2>6. ~ran[e]
      BY <1>3, <2>5 DEF read_nn, Goto, MapInv, TypeOK
    <2>7. FdRef(end[e]) = PipeRef
      BY <1>3, <2>4, <2>6 DEF AskInv
    <2>8. end[e] \in End
      BY <1>3 DEF MapInv, TypeOK
    <2> QED  BY <1>3, <2>7, <2>8, CountsTellMap DEF CountsTell
  <1> QED  BY <1>1, <1>2, <1>3, PTL DEF Spec, NoFalseClosed
=============================================================================
