----------------------------- MODULE FsServerProofs -----------------------------
(* Proofs about the open files of FsServer, for every number of clients,        *)
(* descriptors, entries of opentab and files.                                   *)
EXTENDS FsServer, FiniteSetTheorems, WellFoundedInduction, TLAPS

(******************************** the operators *******************************)
(* The smallest number of a set, as fd_alloc(), openfile_alloc() and the search *)
(* through a directory find it, is one of the set.                              *)
LEMMA MinIsMember ==
    ASSUME NEW S \in SUBSET Nat, S # {}
    PROVE  Min(S) \in S /\ \A y \in S : Min(S) <= y
  <1>1. \A x, y \in Nat : x < y => <<x, y>> \in OpToRel(<, Nat)
    BY DEF OpToRel
  <1>2. PICK R : IsWellFoundedOn(R, Nat) /\ \A x, y \in Nat : x < y => <<x, y>> \in R
    BY <1>1, NatLessThanWellFounded, Zenon
  <1>3. IsWellFoundedOn(R, Nat) /\ S \subseteq Nat
    BY <1>2
  <1>4. PICK x \in S : \A y \in S : ~(<<y, x>> \in R)
    BY <1>3, WFMin
  <1>5. \A y \in S : ~(y < x)
    BY <1>2, <1>3, <1>4, Zenon
  <1>6. \A y \in S : x <= y
    BY <1>5
  <1> QED
    BY <1>6 DEF Min

(* Of two numbers. *)
LEMMA MinOfTwo ==
    ASSUME NEW a \in Int, NEW b \in Int
    PROVE  Min({a, b}) = IF a <= b THEN a ELSE b
  <1>1. \E x \in {a, b} : \A y \in {a, b} : x <= y
    OBVIOUS
  <1>2. Min({a, b}) \in {a, b} /\ \A y \in {a, b} : Min({a, b}) <= y
    BY <1>1 DEF Min
  <1> QED
    BY <1>2

LEMMA MaxOfTwo ==
    ASSUME NEW a \in Int, NEW b \in Int
    PROVE  Max({a, b}) = IF a >= b THEN a ELSE b
  <1>1. \E x \in {a, b} : \A y \in {a, b} : x >= y
    OBVIOUS
  <1>2. Max({a, b}) \in {a, b} /\ \A y \in {a, b} : Max({a, b}) >= y
    BY <1>1 DEF Max
  <1> QED
    BY <1>2

(* A remainder is what its definition says, whatever the quotient. *)
LEMMA ModUnique ==
    ASSUME NEW n \in Nat \ {0}, NEW k \in Int, NEW i \in 0..(n - 1)
    PROVE  (n * k + i) % n = i
  <1> DEFINE x == n * k + i
             q == x \div n
             r == x % n
  <1>1. x \in Int
    OBVIOUS
  <1>2. q \in Int /\ r \in 0..(n - 1) /\ x = n * q + r
    BY <1>1
  <1>3. n * (k - q) = r - i
    BY <1>2
  <1>4. k = q
    <2>1. CASE k - q >= 1
      <3>1. n * (k - q) >= n
        BY <2>1, <1>2
      <3> QED
        BY <3>1, <1>3, <1>2
    <2>2. CASE k - q <= -1
      <3>1. n * (k - q) <= -n
        BY <2>2, <1>2
      <3> QED
        BY <3>1, <1>3, <1>2
    <2> QED
      BY <2>1, <2>2, <1>2
  <1> QED
    BY <1>3, <1>4, <1>2

(* 2^32 is a multiple of MAXOPEN. *)
LEMMA IdsFitTable == MAXOPEN <= IdMod /\ \E q \in Int : IdMod = MAXOPEN * q
  <1> USE ServerAssumption
  <1>1. PICK h \in Int : IdMod = (2 * MAXOPEN) * h
    <2>1. /\ IdMod \div (2 * MAXOPEN) \in Int
          /\ IdMod = (2 * MAXOPEN) * (IdMod \div (2 * MAXOPEN))
      OBVIOUS
    <2> QED
      BY <2>1
  <1>2. PICK q \in Int : IdMod = MAXOPEN * q
    <2>1. (2 * MAXOPEN) * h = MAXOPEN * (2 * h)
      OBVIOUS
    <2> QED
      BY <1>1, <2>1
  <1>3. q >= 1
    BY <1>2
  <1> QED
    BY <1>2, <1>3

(* The first ids are the entries themselves. *)
LEMMA EntryIsId ==
    ASSUME NEW i \in Entry
    PROVE  i \in 0..(IdMod - 1) /\ i % MAXOPEN = i
  <1>1. MAXOPEN \in Nat \ {0} /\ IdMod \in Nat \ {0} /\ i \in 0..(MAXOPEN - 1) /\ MAXOPEN <= IdMod
    BY ServerAssumption, IdsFitTable DEF Entry
  <1>2. i \in 0..(IdMod - 1)
    BY <1>1
  <1>3. (MAXOPEN * 0 + i) % MAXOPEN = i
    BY <1>1, ModUnique
  <1>4. MAXOPEN * 0 + i = i
    BY <1>1
  <1> QED
    BY <1>2, <1>3, <1>4

(* File ids wrap around without losing the entry that they name.                *)
LEMMA IdKeepsEntry ==
    ASSUME NEW i \in Entry, NEW id \in 0..(IdMod - 1), id % MAXOPEN = i
    PROVE  (id + MAXOPEN) % IdMod \in 0..(IdMod - 1) /\ ((id + MAXOPEN) % IdMod) % MAXOPEN = i
  <1>0. MAXOPEN \in Nat \ {0} /\ IdMod \in Nat \ {0}
    BY ServerAssumption
  <1>i. i \in 0..(MAXOPEN - 1)
    BY DEF Entry
  <1> USE <1>0, <1>i
  <1>k. PICK k \in Int : id = MAXOPEN * k + i
    <2>1. id \div MAXOPEN \in Int /\ id = MAXOPEN * (id \div MAXOPEN) + i
      OBVIOUS
    <2> QED
      BY <2>1
  <1>q. PICK q \in Int : IdMod = MAXOPEN * q
    BY IdsFitTable
  <1>2. MAXOPEN <= IdMod
    BY IdsFitTable
  <1>3. MAXOPEN * (k + 1) = MAXOPEN * k + MAXOPEN
    OBVIOUS
  <1>4. CASE id + MAXOPEN < IdMod
    <2>1. (id + MAXOPEN) % IdMod = MAXOPEN * (k + 1) + i
      BY <1>k, <1>3, <1>4
    <2>2. (MAXOPEN * (k + 1) + i) % MAXOPEN = i
      BY ModUnique
    <2> QED
      BY <2>1, <2>2, <1>k, <1>3, <1>4
  <1>5. CASE id + MAXOPEN >= IdMod
    <2> DEFINE b == id + MAXOPEN - IdMod
    <2>1. b \in 0..(IdMod - 1)
      BY <1>5, <1>2
    <2>2. (IdMod * 1 + b) % IdMod = b
      BY <2>1, ModUnique
    <2>3. (id + MAXOPEN) % IdMod = b
      BY <2>2
    <2>4. b = MAXOPEN * (k + 1 - q) + i
      <3>1. MAXOPEN * (k + 1 - q) = MAXOPEN * k + MAXOPEN - MAXOPEN * q
        OBVIOUS
      <3> QED
        BY <1>k, <1>q, <3>1
    <2>5. b % MAXOPEN = i
      <3>1. (MAXOPEN * (k + 1 - q) + i) % MAXOPEN = i
        BY ModUnique
      <3> QED
        BY <2>4, <3>1
    <2> QED
      BY <2>1, <2>3, <2>5
  <1> QED
    BY <1>4, <1>5

(****************************** who has a page *********************************)
(* pp_ref counts finitely many mappings, so it tells whether there is one.      *)
LEMMA MappedFinite ==
    ASSUME NEW tab, NEW i
    PROVE  /\ IsFiniteSet(Mapped(tab, i)) /\ Cardinality(Mapped(tab, i)) \in Nat
           /\ Cardinality(Mapped(tab, i)) = 0 <=> Mapped(tab, i) = {}
  <1>1. IsFiniteSet(Env) /\ IsFiniteSet(Fdnum)
    BY ServerAssumption, FS_Interval DEF Fdnum
  <1>2. IsFiniteSet(Env \X Fdnum)
    BY <1>1, FS_Product
  <1>3. Mapped(tab, i) \in SUBSET (Env \X Fdnum)
    BY DEF Mapped
  <1>4. IsFiniteSet(Mapped(tab, i))
    BY <1>2, <1>3, FS_Subset
  <1> QED
    BY <1>4, FS_CardinalityType, FS_EmptySet

(* An entry that openfile_alloc() would take is one that nobody has, if the     *)
(* server has the page of every entry that somebody has.                        *)
LEMMA AvailableMeansUnheld ==
    ASSUME NEW i \in Available, NEW e \in Env, NEW d \in Fdnum, fdtab[e][d] # None => opentab[fdtab[e][d]].mapped,
           i # None, opentab[i].lost \in Nat
    PROVE  fdtab[e][d] # i
  <1> SUFFICES ASSUME fdtab[e][d] = i PROVE FALSE
    OBVIOUS
  <1>1. <<e, d>> \in Mapped(fdtab, i)
    BY DEF Mapped
  <1>2. Cardinality(Mapped(fdtab, i)) \in Nat /\ Cardinality(Mapped(fdtab, i)) # 0
    BY <1>1, MappedFinite
  <1>3. opentab[i].mapped
    OBVIOUS
  <1> QED
    BY <1>2, <1>3 DEF Available, pageref

(* The page of a descriptor that somebody holds is not the server's alone. *)
LEMMA HeldIsFound ==
    ASSUME NEW e \in Env, NEW d \in Fdnum, NEW i, fdtab[e][d] = i, opentab[i].mapped, opentab[i].lost \in Nat
    PROVE  pageref(i) # 1
  <1>1. <<e, d>> \in Mapped(fdtab, i)
    BY DEF Mapped
  <1>2. Cardinality(Mapped(fdtab, i)) \in Nat /\ Cardinality(Mapped(fdtab, i)) # 0
    BY <1>1, MappedFinite
  <1> QED
    BY <1>2 DEF pageref

(***************************** the inductive invariant ************************)
(* What a client puts into a request.                                           *)
ReqOK(c) ==
    /\ c.type \in FileRequests \cup {"open", "remove", "sync"}
    /\ c.type \in FileRequests \cup {"open"} => c.d \in Fdnum
    /\ c.type = "open" => c.name \in Names /\ c.mode \in Modes
    /\ c.op \in {"close", "dup", "exit"} => c.type = "flush"
    /\ c.op = "dup" => c.x \in Fdnum

(* From the request to what is done with the answer a client keeps the page of  *)
(* the descriptor, and the number in the page is the one in the request.        *)
ClientInv ==
    \A e \in Env :
        /\ pc[e] \in {"send", "recv", "wait", "answer"} =>
              /\ ReqOK(call[e])
              /\ call[e].type \in FileRequests =>
                    fdtab[e][call[e].d] # None /\ call[e].fileid = fd[fdtab[e][call[e].d]].id
        /\ pc[e] = "map" => call[e].d \in Fdnum /\ call[e].x \in Fdnum

(* A file id names its entry. *)
IdInv == \A i \in Entry : opentab[i].fileid % MAXOPEN = i

(* Whoever opened a file named one. *)
NameInv == \A e \in Env, d \in Fdnum : fdtab[e][d] # None => opened[e][d].name \in Names

(* The server works for the client that asked, which still listens, or which    *)
(* has died; and the page that it is about to send is that of the file that the *)
(* client named.                                                                *)
Busy == srv.pc \in {"serve", "advance", "send"}
ServerInv ==
    /\ orphaned => Busy \/ srv.pc = "panic"
    /\ Busy => ReqOK(srv.req)
    /\ (Busy /\ orphaned) => gen[srv.whom[1]] > srv.whom[2]
    /\ (Busy /\ ~orphaned) => /\ gen[srv.whom[1]] = srv.whom[2] /\ pc[srv.whom[1]] \in {"recv", "wait"}
                              /\ call[srv.whom[1]] = srv.req
    /\ srv.pc = "advance" => srv.r \in Nat
    /\ (srv.pc = "send" /\ srv.pg # None) =>
          /\ srv.req.type = "open" /\ opentab[srv.pg].mapped /\ fd[srv.pg].id = opentab[srv.pg].fileid
          /\ files[opentab[srv.pg].file].name = srv.req.name

(* The offset in a page is what the calls on it come to, unless a seek() fell   *)
(* between a transfer and its update; and what stops the server.                *)
SharedOffset ==
    \A i \in Entry : fd[i].raced \/ fd[i].offset + (IF srv.pc = "advance" /\ srv.o = i THEN srv.r ELSE 0) = fd[i].pos
StopsFor == srv.pc = "panic" => orphaned \/ (srv.req.type = "open" /\ srv.pg # None)

Promises == EntryKept /\ DescriptorMeansFile /\ SharedOffset /\ StopsFor
IInv == TypeOK /\ ClientInv /\ IdInv /\ NameInv /\ ServerInv /\ Promises

(* The first half of what EntryKept says, for every holder of a page. *)
Kept ==
    \A e \in Env, d \in Fdnum :
        /\ fdtab[e][d] = None <=> opened[e][d] = Nothing
        /\ fdtab[e][d] # None => /\ opentab[fdtab[e][d]].mapped
                                 /\ opentab[fdtab[e][d]].fileid = opened[e][d].id
                                 /\ fd[fdtab[e][d]].id = opened[e][d].id
NoneRefused == (srv.pc = "send" /\ srv.req.type # "open" /\ srv.r = E_INVAL) => orphaned
LEMMA EntryKeptParts == (EntryKept <=> Kept /\ NoneRefused) /\ (EntryKept' <=> Kept' /\ NoneRefused')
  BY ZenonT(60) DEF EntryKept, Kept, NoneRefused

LEMMA ConstantFacts ==
    /\ MAXOPEN \in Nat \ {0} /\ MAXFD \in Nat \ {0} /\ NFILES \in Nat \ {0} /\ IdMod \in Nat \ {0}
    /\ First \in Env /\ NoName \notin Names /\ PGSIZE \in Nat
    /\ Reads \subseteq Nat /\ Writes \subseteq Nat /\ Sizes \subseteq Nat /\ Offsets \subseteq Nat
    /\ None \notin Entry /\ None \notin Fdnum /\ Entry \subseteq Nat /\ Fdnum \subseteq Nat /\ 0 \in Entry /\ 1 \in File
  BY ServerAssumption DEF Entry, Fdnum, File, None

LEMMA IdleIsRecord == Idle \in CallRecords
  BY DEF Idle, CallRecords, None, FileRequests

(* The invariant where everything starts. *)
LEMMA InitIInv == Init => IInv
  <1> SUFFICES ASSUME Init PROVE IInv
    OBVIOUS
  <1> USE ConstantFacts DEF Init, Receiving
  <1>1. TypeOK
    <2>2. \A i \in Entry : i \in 0..(IdMod - 1)
      BY EntryIsId
    <2>3. pc \in [Env -> {"free", "run", "send", "recv", "wait", "answer", "map", "exit", "panic"}]
      OBVIOUS
    <2>4. fd \in [Entry -> [id : Int, offset : Nat, omode : {m.acc : m \in Modes} \cup {"rdonly"},
                            pos : Nat, raced : BOOLEAN, forked : BOOLEAN]]
      BY DEF NewFd
    <2>5. opentab \in [Entry -> [fileid : 0..(IdMod - 1), file : File, mapped : BOOLEAN, lost : Nat]]
      BY <2>2
    <2>6. srv \in [pc : {"recv", "serve", "advance", "send", "again", "panic"}, whom : Env \X Nat,
                   req : CallRecords, r : Int, pg : Entry \cup {None}, o : Entry, file : File]
      BY IdleIsRecord
    <2>7. opened \in [Env -> [Fdnum -> [id : Int, name : Names \cup {NoName}]]]
      BY DEF Nothing, None
    <2>8. gen \in [Env -> Nat] /\ call \in [Env -> CallRecords] /\ cow \in [Env -> BOOLEAN]
      BY IdleIsRecord
    <2> QED
      BY <2>3, <2>4, <2>5, <2>6, <2>7, <2>8 DEF TypeOK
  <1>2. ClientInv /\ NameInv /\ ServerInv
    BY DEF ClientInv, NameInv, ServerInv, Busy
  <1>3. IdInv
    BY EntryIsId DEF IdInv
  <1>4. EntryKept
    BY EntryKeptParts DEF Kept, NoneRefused
  <1>5. DescriptorMeansFile /\ SharedOffset /\ StopsFor
    BY DEF DescriptorMeansFile, SharedOffset, StopsFor, NewFd
  <1> QED
    BY <1>1, <1>2, <1>3, <1>4, <1>5 DEF IInv, Promises

(******************************* client steps *********************************)
(* A request changes nothing but the caller's own state. *)
LEMMA RequestKeeps ==
    ASSUME IInv, NEW e \in Env, pc[e] \in {"run", "exit"}, NEW c \in CallRecords, ReqOK(c), NEW w \in BOOLEAN,
           c.type \in FileRequests => fdtab[e][c.d] # None /\ c.fileid = fd[fdtab[e][c.d]].id,
           Request(e, c, w)
    PROVE  IInv'
  <1> USE DEF Request, tableVars, histVars, IInv, Promises
  <1>1. TypeOK'
    BY DEF TypeOK
  <1>2. ClientInv'
    BY DEF ClientInv, TypeOK, ReqOK
  <1>3. IdInv' /\ NameInv'
    BY DEF IdInv, NameInv
  <1>4. ServerInv'
    BY DEF ServerInv, Busy, TypeOK, ReqOK
  <1>5. EntryKept'
    BY EntryKeptParts DEF EntryKept
  <1>6. DescriptorMeansFile' /\ SharedOffset' /\ StopsFor'
    BY DEF DescriptorMeansFile, SharedOffset, StopsFor
  <1> QED
    BY <1>1, <1>2, <1>3, <1>4, <1>5, <1>6

LEMMA OnFileKeeps ==
    ASSUME IInv, NEW e \in Env, pc[e] \in {"run", "exit"}, NEW d \in Fdnum, fdtab[e][d] # None, NEW x \in Nat,
           NEW op \in {"read", "write", "ftruncate", "fstat", "close", "dup", "exit"}, NEW type \in FileRequests,
           op \in {"close", "dup", "exit"} => type = "flush", op = "dup" => x \in Fdnum,
           OnFile(e, op, type, d, x)
    PROVE  IInv'
  <1> DEFINE c == [Idle EXCEPT !.op = op, !.type = type, !.d = d, !.fileid = FdOf(e, d).id, !.x = x]
  <1>1. FdOf(e, d).id \in Int
    BY DEF IInv, TypeOK, FdOf
  <1>2. c \in CallRecords
    BY <1>1, IdleIsRecord DEF CallRecords
  <1>3. ReqOK(c)
    BY IdleIsRecord DEF ReqOK, CallRecords, FileRequests
  <1>4. fdtab[e][c.d] # None /\ c.fileid = fd[fdtab[e][c.d]].id
    BY IdleIsRecord DEF CallRecords, FdOf
  <1>5. Request(e, c, TRUE)
    BY DEF OnFile
  <1> HIDE DEF c
  <1> QED
    BY <1>2, <1>3, <1>4, <1>5, RequestKeeps

(* open(), remove() and sync() name no descriptor page. *)
LEMMA OtherRequestsKeep ==
    ASSUME IInv, NEW e \in Env
    PROVE  /\ \A n \in Names, m \in Modes : open(e, n, m) => IInv'
           /\ \A n \in Names : remove(e, n) => IInv'
           /\ sync(e) => IInv'
  <1> USE IdleIsRecord, ConstantFacts DEF Calls, CallRecords, ReqOK, FileRequests
  <1>1. ASSUME NEW n \in Names, NEW m \in Modes, open(e, n, m) PROVE IInv'
    <2> DEFINE c == [Idle EXCEPT !.op = "open", !.type = "open", !.d = fd_alloc(e), !.name = n, !.mode = m]
    <2>1. fd_alloc(e) \in Fdnum
      BY <1>1, MinIsMember DEF open, fd_alloc, Unused, E_MAX_OPEN
    <2>2. c \in CallRecords /\ ReqOK(c) /\ c.type \notin FileRequests
      BY <2>1, ZenonT(60)
    <2>3. Request(e, c, TRUE) /\ pc[e] = "run"
      BY <1>1 DEF open
    <2> HIDE DEF c
    <2> QED
      BY <2>2, <2>3, RequestKeeps
  <1>2. ASSUME NEW n \in Names, remove(e, n) PROVE IInv'
    <2> DEFINE c == [Idle EXCEPT !.op = "remove", !.type = "remove", !.name = n]
    <2>2. c \in CallRecords /\ ReqOK(c) /\ c.type \notin FileRequests
      BY ZenonT(60)
    <2>3. Request(e, c, TRUE) /\ pc[e] = "run"
      BY <1>2 DEF remove
    <2> HIDE DEF c
    <2> QED
      BY <2>2, <2>3, RequestKeeps
  <1>3. ASSUME sync(e) PROVE IInv'
    <2> DEFINE c == [Idle EXCEPT !.op = "sync", !.type = "sync"]
    <2>2. c \in CallRecords /\ ReqOK(c) /\ c.type \notin FileRequests
      BY ZenonT(60)
    <2>3. Request(e, c, FALSE) /\ pc[e] = "run"
      BY <1>3 DEF sync
    <2> HIDE DEF c
    <2> QED
      BY <2>2, <2>3, RequestKeeps
  <1> QED
    BY <1>1, <1>2, <1>3

(* A step that only moves a client from "run" to where it has no request. *)
LEMMA StopsKeeps ==
    ASSUME IInv, NEW e \in Env, pc[e] = "run", NEW to \in {"panic", "map"},
           NEW c \in CallRecords, to = "map" => c.d \in Fdnum /\ c.x \in Fdnum,
           pc' = [pc EXCEPT ![e] = to], call' = [call EXCEPT ![e] = c],
           UNCHANGED <<gen, cow, fdtab, srv, tableVars, histVars>>
    PROVE  IInv'
  <1> USE DEF tableVars, histVars, IInv, Promises
  <1>1. TypeOK'
    BY DEF TypeOK
  <1>2. ClientInv'
    BY DEF ClientInv, TypeOK, ReqOK
  <1>3. IdInv' /\ NameInv'
    BY DEF IdInv, NameInv
  <1>4. ServerInv'
    BY DEF ServerInv, Busy, TypeOK, ReqOK
  <1>5. EntryKept'
    BY DEF EntryKept
  <1>6. DescriptorMeansFile' /\ SharedOffset' /\ StopsFor'
    BY DEF DescriptorMeansFile, SharedOffset, StopsFor
  <1> QED
    BY <1>1, <1>2, <1>3, <1>4, <1>5, <1>6

(* seek() moves fd_offset, and says so if the server was about to. *)
LEMMA SeekKeeps ==
    ASSUME IInv, NEW e \in Env, NEW d \in Fdnum, NEW n \in Offsets, seek(e, d, n)
    PROVE  IInv'
  <1> USE DEF clientVars, histVars, IInv, Promises
  <1> DEFINE i == fdtab[e][d]
  <1>0. i \in Entry /\ n \in Nat
    BY ConstantFacts DEF seek, fd_lookup, TypeOK, E_INVAL
  <1>1. /\ fd' = [fd EXCEPT ![i] = [id |-> fd[i].id, omode |-> fd[i].omode, offset |-> n, pos |-> n,
                                    raced |-> fd[i].raced \/ (srv.pc = "advance" /\ srv.o = i),
                                    forked |-> fd[i].forked]]
        /\ UNCHANGED <<pc, gen, call, cow, fdtab, srv, opentab, files, opened, orphaned, unlinked>>
    BY <1>0 DEF seek
  <1>2. /\ \A j \in Entry : fd'[j].id = fd[j].id
        /\ \A j \in Entry \ {i} : fd'[j] = fd[j]
        /\ fd'[i].offset = n /\ fd'[i].pos = n /\ fd'[i].raced = (fd[i].raced \/ (srv.pc = "advance" /\ srv.o = i))
    BY <1>0, <1>1 DEF TypeOK
  <1>3. TypeOK'
    BY <1>0, <1>1 DEF TypeOK
  <1>4. ClientInv'
    BY <1>1, <1>2, ConstantFacts DEF ClientInv, TypeOK, ReqOK
  <1>5. IdInv' /\ NameInv'
    BY <1>1 DEF IdInv, NameInv
  <1>6. ServerInv'
    BY <1>1, <1>2 DEF ServerInv, Busy, TypeOK, ReqOK
  <1>7. EntryKept'
    <2>1. Kept' /\ NoneRefused'
      BY <1>1, <1>2, EntryKeptParts, SMTT(60) DEF Kept, NoneRefused, TypeOK
    <2> QED
      BY <2>1, EntryKeptParts
  <1>8. SharedOffset'
    <2> SUFFICES ASSUME NEW j \in Entry
                 PROVE  \/ fd'[j].raced
                        \/ fd'[j].offset + (IF srv.pc = "advance" /\ srv.o = j THEN srv.r ELSE 0) = fd'[j].pos
      BY <1>1 DEF SharedOffset
    <2>1. CASE j # i
      BY <2>1, <1>2 DEF SharedOffset
    <2>2. CASE j = i /\ srv.pc = "advance" /\ srv.o = i
      BY <2>2, <1>2
    <2>3. CASE j = i /\ ~(srv.pc = "advance" /\ srv.o = i)
      BY <2>3, <1>0, <1>2
    <2> QED
      BY <2>1, <2>2, <2>3
  <1>9. DescriptorMeansFile' /\ StopsFor'
    BY <1>1 DEF DescriptorMeansFile, StopsFor
  <1> QED
    BY <1>3, <1>4, <1>5, <1>6, <1>7, <1>8, <1>9

(* An environment exits with no descriptor left, or is destroyed and leaves its *)
(* mappings behind; whoever it was to be answered by finds it gone.             *)
LEMMA LeaveKeeps ==
    ASSUME IInv, NEW e \in Env, Leave(e), opened' = [opened EXCEPT ![e] = [d \in Fdnum |-> Nothing]],
           orphaned' = (orphaned \/ (Busy /\ srv.whom = <<e, gen[e]>>)),
           UNCHANGED <<srv, fd, files, unlinked>>,
           opentab' \in [Entry -> [fileid : 0..(IdMod - 1), file : File, mapped : BOOLEAN, lost : Nat]],
           \A i \in Entry : /\ opentab'[i].fileid = opentab[i].fileid
                            /\ opentab'[i].file = opentab[i].file
                            /\ opentab'[i].mapped = opentab[i].mapped
    PROVE  IInv'
  <1> USE ConstantFacts DEF IInv, Promises, Leave
  <1>0. \A e1 \in Env, d1 \in Fdnum :
           /\ fdtab'[e1][d1] = (IF e1 = e THEN None ELSE fdtab[e1][d1])
           /\ opened'[e1][d1] = (IF e1 = e THEN Nothing ELSE opened[e1][d1])
           /\ fdtab[e1][d1] # None => fdtab[e1][d1] \in Entry
    BY DEF TypeOK
  <1>1. TypeOK'
    <2>1. opened' \in [Env -> [Fdnum -> [id : Int, name : Names \cup {NoName}]]]
      BY DEF TypeOK, Nothing, None
    <2>2. orphaned' \in BOOLEAN
      BY DEF TypeOK
    <2> QED
      BY <2>1, <2>2, IdleIsRecord DEF TypeOK
  <1>2. ClientInv'
    BY DEF ClientInv, TypeOK, ReqOK
  <1>3. IdInv' /\ NameInv'
    BY DEF IdInv, NameInv, TypeOK
  <1>4. ServerInv'
    <2> DEFINE w == srv.whom[1]
    <2>1. w \in Env /\ srv.whom = <<w, srv.whom[2]>> /\ gen[w] \in Nat /\ srv.whom[2] \in Nat /\ gen'[e] = gen[e] + 1
      BY DEF TypeOK
    <2>2. ASSUME Busy /\ orphaned' PROVE gen'[w] > srv.whom[2]
      <3>1. CASE w = e
        BY <2>1, <2>2, <3>1 DEF ServerInv, TypeOK
      <3>2. CASE w # e
        BY <2>1, <2>2, <3>2 DEF ServerInv, TypeOK
      <3> QED
        BY <3>1, <3>2
    <2>3. ASSUME Busy /\ ~orphaned'
          PROVE gen'[w] = srv.whom[2] /\ pc'[w] \in {"recv", "wait"} /\ call'[w] = srv.req
      <3>1. gen[w] = srv.whom[2] /\ pc[w] \in {"recv", "wait"} /\ call[w] = srv.req
        BY <2>3 DEF ServerInv
      <3>2. w # e
        BY <2>3, <2>1, <3>1
      <3> QED
        BY <2>1, <3>1, <3>2 DEF TypeOK
    <2>4. UNCHANGED Busy /\ (orphaned' => Busy \/ srv.pc = "panic")
      BY DEF ServerInv, Busy
    <2>5. srv.pg # None => srv.pg \in Entry /\ opentab[srv.pg].file \in File
      BY DEF TypeOK
    <2>6. srv.pc = "send" /\ srv.pg # None =>
             /\ srv.req.type = "open" /\ opentab'[srv.pg].mapped /\ fd[srv.pg].id = opentab'[srv.pg].fileid
             /\ files[opentab'[srv.pg].file].name = srv.req.name
      BY <2>5, Zenon DEF ServerInv
    <2>7. (Busy => ReqOK(srv.req)) /\ (srv.pc = "advance" => srv.r \in Nat)
      BY DEF ServerInv
    <2> QED
      BY <2>2, <2>3, <2>4, <2>6, <2>7, Zenon DEF ServerInv, ReqOK, Busy
  <1> HIDE DEF Leave
  <1>5. EntryKept'
    <2>1. Kept
      BY EntryKeptParts
    <2>2. Kept'
      <3> SUFFICES ASSUME NEW e1 \in Env, NEW d1 \in Fdnum
                   PROVE  /\ fdtab'[e1][d1] = None <=> opened'[e1][d1] = Nothing
                          /\ fdtab'[e1][d1] # None => /\ opentab'[fdtab'[e1][d1]].mapped
                                                      /\ opentab'[fdtab'[e1][d1]].fileid = opened'[e1][d1].id
                                                      /\ fd'[fdtab'[e1][d1]].id = opened'[e1][d1].id
        BY Zenon DEF Kept
      <3>1. CASE e1 = e
        BY <1>0, <3>1
      <3>2. CASE e1 # e
        <4>1. fdtab'[e1][d1] = fdtab[e1][d1] /\ opened'[e1][d1] = opened[e1][d1]
          BY <1>0, <3>2
        <4>2. fdtab[e1][d1] # None => fdtab[e1][d1] \in Entry
          BY <1>0
        <4>3. fd' = fd
          OBVIOUS
        <4>4. /\ fdtab[e1][d1] = None <=> opened[e1][d1] = Nothing
              /\ fdtab[e1][d1] # None => /\ opentab[fdtab[e1][d1]].mapped
                                         /\ opentab[fdtab[e1][d1]].fileid = opened[e1][d1].id
                                         /\ fd[fdtab[e1][d1]].id = opened[e1][d1].id
          BY <2>1 DEF Kept
        <4>5. fdtab[e1][d1] # None => /\ opentab'[fdtab[e1][d1]].mapped = opentab[fdtab[e1][d1]].mapped
                                      /\ opentab'[fdtab[e1][d1]].fileid = opentab[fdtab[e1][d1]].fileid
          BY <4>2
        <4> QED
          BY <4>1, <4>3, <4>4, <4>5, Zenon
      <3> QED
        BY <3>1, <3>2
    <2>3. NoneRefused'
      BY EntryKeptParts DEF NoneRefused, TypeOK
    <2> QED
      BY <2>2, <2>3, EntryKeptParts
  <1>6. DescriptorMeansFile' /\ SharedOffset' /\ StopsFor'
    <2>1. DescriptorMeansFile'
      <3> SUFFICES ASSUME NEW e1 \in Env, NEW d1 \in Fdnum, fdtab'[e1][d1] # None
                   PROVE  \/ opentab'[fdtab'[e1][d1]].file \in unlinked'
                          \/ files'[opentab'[fdtab'[e1][d1]].file].name = opened'[e1][d1].name
        BY DEF DescriptorMeansFile
      <3>1. fdtab'[e1][d1] = fdtab[e1][d1] /\ opened'[e1][d1] = opened[e1][d1] /\ fdtab[e1][d1] \in Entry
            /\ fdtab[e1][d1] # None
        BY <1>0
      <3>2. opentab'[fdtab[e1][d1]].file = opentab[fdtab[e1][d1]].file
        BY <3>1
      <3>3. \/ opentab[fdtab[e1][d1]].file \in unlinked
            \/ files[opentab[fdtab[e1][d1]].file].name = opened[e1][d1].name
        BY <3>1, Zenon DEF DescriptorMeansFile
      <3>4. files' = files /\ unlinked' = unlinked
        OBVIOUS
      <3> QED
        BY <3>1, <3>2, <3>3, <3>4, Zenon
    <2>2. SharedOffset' /\ StopsFor'
      BY DEF SharedOffset, StopsFor
    <2> QED
      BY <2>1, <2>2
  <1> QED
    BY <1>1, <1>2, <1>3, <1>4, <1>5, <1>6

LEMMA KillKeeps ==
    ASSUME IInv, NEW e \in Env, Kill(e)
    PROVE  IInv'
  <1> DEFINE TabType == [fileid : 0..(IdMod - 1), file : File, mapped : BOOLEAN, lost : Nat]
             n(i) == Cardinality({d \in Fdnum : fdtab[e][d] = i})
  <1>1. \A i \in Entry : n(i) \in Nat
    <2> TAKE i \in Entry
    <2>1. IsFiniteSet(Fdnum)
      BY ConstantFacts, FS_Interval DEF Fdnum
    <2>2. {d \in Fdnum : fdtab[e][d] = i} \in SUBSET Fdnum
      OBVIOUS
    <2> QED
      BY <2>1, <2>2, FS_Subset, FS_CardinalityType
  <1>2. opentab \in [Entry -> TabType] /\ opentab' = [i \in Entry |-> [opentab[i] EXCEPT !.lost = @ + n(i)]]
    BY DEF Kill, IInv, TypeOK
  <1> HIDE DEF n
  <1>3. /\ opentab' \in [Entry -> TabType]
        /\ \A i \in Entry : /\ opentab'[i].fileid = opentab[i].fileid
                            /\ opentab'[i].file = opentab[i].file
                            /\ opentab'[i].mapped = opentab[i].mapped
    BY <1>1, <1>2
  <1> QED
    BY <1>3, LeaveKeeps DEF Kill, Busy

(* exit(), from its first close() to the last. *)
LEMMA CloseAllKeeps ==
    ASSUME IInv, NEW e \in Env, pc[e] \in {"run", "exit"}, close_all(e)
    PROVE  IInv'
  <1> DEFINE held == Fdnum \ Unused(e)
  <1>1. CASE held = {}
    <2>1. orphaned' = (orphaned \/ (Busy /\ srv.whom = <<e, gen[e]>>))
      <3>1. ~(Busy /\ srv.whom = <<e, gen[e]>> /\ ~orphaned)
        BY DEF IInv, ServerInv
      <3>2. orphaned' = orphaned /\ orphaned \in BOOLEAN
        BY <1>1 DEF close_all, IInv, TypeOK
      <3> QED
        BY <3>1, <3>2
    <2>2. opentab \in [Entry -> [fileid : 0..(IdMod - 1), file : File, mapped : BOOLEAN, lost : Nat]]
      BY DEF IInv, TypeOK
    <2> QED
      BY <1>1, <2>1, <2>2, LeaveKeeps DEF close_all, tableVars
  <1>2. CASE held # {}
    <2>1. Min(held) \in held
      BY <1>2, MinIsMember, ConstantFacts
    <2>2. Min(held) \in Fdnum /\ fdtab[e][Min(held)] # None
      BY <2>1 DEF Unused
    <2>3. OnFile(e, "exit", "flush", Min(held), 0)
      BY <1>2 DEF close_all, devfile_flush
    <2> QED
      BY <2>2, <2>3, OnFileKeeps DEF FileRequests
  <1> QED
    BY <1>1, <1>2

(* fork() gives the child all that the parent has. *)
LEMMA ForkKeeps ==
    ASSUME IInv, NEW e \in Env, NEW child \in Env, fork(e, child)
    PROVE  IInv'
  <1> DEFINE FdType == [id : Int, offset : Nat, omode : {m.acc : m \in Modes} \cup {"rdonly"},
                        pos : Nat, raced : BOOLEAN, forked : BOOLEAN]
             held(i) == i \in Held(e)
  <1>a. fd \in [Entry -> FdType] /\ fd' = [i \in Entry |-> [fd[i] EXCEPT !.forked = @ \/ held(i)]]
    BY DEF fork, IInv, TypeOK
  <1> HIDE DEF held
  <1>b. /\ fd' \in [Entry -> FdType]
        /\ \A i \in Entry : /\ fd'[i].id = fd[i].id /\ fd'[i].offset = fd[i].offset
                            /\ fd'[i].pos = fd[i].pos /\ fd'[i].raced = fd[i].raced
    <2>1. \A i \in Entry : (fd[i].forked \/ held(i)) \in BOOLEAN
      OBVIOUS
    <2> QED
      BY <1>a, <2>1
  <1>c. /\ pc[e] = "run" /\ pc[child] = "free" /\ pc' = [pc EXCEPT ![child] = "run"]
        /\ cow' = [cow EXCEPT ![e] = TRUE, ![child] = TRUE]
        /\ fdtab' = [fdtab EXCEPT ![child] = fdtab[e]] /\ opened' = [opened EXCEPT ![child] = opened[e]]
        /\ UNCHANGED <<gen, call, srv, opentab, files, orphaned, unlinked>>
    BY DEF fork, Calls
  <1> USE <1>b, <1>c, ConstantFacts DEF IInv, Promises
  <1>d. \A e1 \in Env, d1 \in Fdnum :
           /\ fdtab'[e1][d1] = (IF e1 = child THEN fdtab[e][d1] ELSE fdtab[e1][d1])
           /\ opened'[e1][d1] = (IF e1 = child THEN opened[e][d1] ELSE opened[e1][d1])
           /\ fdtab[e1][d1] # None => fdtab[e1][d1] \in Entry
    BY DEF TypeOK
  <1>1. TypeOK'
    BY DEF TypeOK
  <1>2. ClientInv'
    <2>1. \A e1 \in Env : pc'[e1] = IF e1 = child THEN "run" ELSE pc[e1]
      BY DEF TypeOK
    <2>2. \A e1 \in Env : ReqOK(call[e1]) /\ call[e1].type \in FileRequests => call[e1].d \in Fdnum
      BY DEF ReqOK
    <2> QED
      BY <1>d, <2>1, <2>2 DEF ClientInv, ReqOK
  <1>3. IdInv' /\ NameInv'
    BY DEF IdInv, NameInv, TypeOK
  <1>4. ServerInv'
    BY DEF ServerInv, Busy, TypeOK, ReqOK
  <1>5. EntryKept'
    <2>1. Kept
      BY EntryKeptParts
    <2>2. Kept'
      BY <1>d, <2>1 DEF Kept
    <2>3. NoneRefused'
      BY EntryKeptParts DEF NoneRefused, TypeOK
    <2> QED
      BY <2>2, <2>3, EntryKeptParts
  <1>6. DescriptorMeansFile'
    BY DEF DescriptorMeansFile, TypeOK
  <1>7. SharedOffset' /\ StopsFor'
    BY DEF SharedOffset, StopsFor
  <1> QED
    BY <1>1, <1>2, <1>3, <1>4, <1>5, <1>6, <1>7

(* Every call that a program can make. *)
LEMMA CallKeeps ==
    ASSUME IInv, NEW e \in Env, Call(e)
    PROVE  IInv'
  <1> USE DEF Calls
  <1>f. ASSUME NEW d \in Fdnum, fd_lookup(e, d) = 0 PROVE fdtab[e][d] # None
    BY <1>f DEF fd_lookup, E_INVAL
  <1>1. ASSUME NEW d \in Fdnum, close(e, d) PROVE IInv'
    BY <1>1, <1>f, OnFileKeeps DEF close, devfile_flush, FileRequests
  <1>2. ASSUME NEW d \in Fdnum, fstat(e, d) PROVE IInv'
    BY <1>2, <1>f, OnFileKeeps DEF fstat, devfile_stat, FileRequests
  <1>3. ASSUME NEW d \in Fdnum, NEW n \in Reads, read(e, d, n) PROVE IInv'
    BY <1>3, <1>f, OnFileKeeps, ConstantFacts DEF read, devfile_read, FileRequests
  <1>4. ASSUME NEW d \in Fdnum, NEW n \in Sizes, ftruncate(e, d, n) PROVE IInv'
    BY <1>4, <1>f, OnFileKeeps, ConstantFacts DEF ftruncate, devfile_trunc, FileRequests
  <1>5. ASSUME NEW d \in Fdnum, NEW n \in Writes, write(e, d, n) PROVE IInv'
    <2>1. CASE n <= WRITEMAX
      BY <1>5, <2>1, <1>f, OnFileKeeps, ConstantFacts DEF write, devfile_write, FileRequests
    <2>2. CASE ~(n <= WRITEMAX)
      <3>1. call \in [Env -> CallRecords]
        BY DEF IInv, TypeOK
      <3>2. call' = [call EXCEPT ![e] = call[e]] /\ pc' = [pc EXCEPT ![e] = "panic"]
        BY <1>5, <2>2, <3>1 DEF write, devfile_write
      <3>3. pc[e] = "run" /\ UNCHANGED <<gen, cow, fdtab, srv, tableVars, histVars>>
        BY <1>5, <2>2 DEF write, devfile_write
      <3> QED
        BY <3>1, <3>2, <3>3, StopsKeeps
    <2> QED
      BY <2>1, <2>2
  <1>6. ASSUME NEW d \in Fdnum, NEW d2 \in Fdnum, dup(e, d, d2) PROVE IInv'
    <2>1. CASE fd_lookup(e, d2) = 0
      BY <1>6, <2>1, <1>f, OnFileKeeps, ConstantFacts DEF dup, devfile_flush, FileRequests
    <2>2. CASE fd_lookup(e, d2) # 0
      <3> DEFINE c == [Idle EXCEPT !.op = "dup", !.d = d2, !.x = d]
      <3>1. c \in CallRecords /\ c.d = d2 /\ c.x = d
        BY IdleIsRecord, ConstantFacts DEF CallRecords
      <3>2. pc[e] = "run" /\ pc' = [pc EXCEPT ![e] = "map"] /\ call' = [call EXCEPT ![e] = c]
        BY <1>6, <2>2 DEF dup
      <3>3. UNCHANGED <<gen, cow, fdtab, srv, tableVars, histVars>>
        BY <1>6, <2>2 DEF dup
      <3> HIDE DEF c
      <3> QED
        BY <3>1, <3>2, <3>3, StopsKeeps
    <2> QED
      BY <2>1, <2>2
  <1>7. exit(e) => IInv'
    BY CloseAllKeeps DEF exit
  <1> QED
    BY <1>1, <1>2, <1>3, <1>4, <1>5, <1>6, <1>7, SeekKeeps, ForkKeeps, OtherRequestsKeep DEF Call

(* The request reaches the server. *)
LEMMA SendKeeps ==
    ASSUME IInv, NEW e \in Env, ipc_send(e)
    PROVE  IInv'
  <1> USE ConstantFacts DEF IInv, Promises, ipc_send, tableVars, histVars
  <1>0. srv' = [srv EXCEPT !.pc = "serve", !.whom = <<e, gen[e]>>, !.req = call[e]] /\ ~orphaned
    BY DEF ServerInv, Busy, TypeOK
  <1>1. TypeOK'
    BY DEF TypeOK
  <1>2. ClientInv'
    BY DEF ClientInv, TypeOK, ReqOK
  <1>3. IdInv' /\ NameInv'
    BY DEF IdInv, NameInv, TypeOK
  <1>4. ServerInv'
    BY <1>0 DEF ServerInv, ClientInv, Busy, TypeOK, ReqOK
  <1>5. EntryKept'
    <2>1. Kept' /\ NoneRefused'
      BY EntryKeptParts DEF Kept, NoneRefused, TypeOK
    <2> QED
      BY <2>1, EntryKeptParts
  <1>6. DescriptorMeansFile' /\ StopsFor'
    BY DEF DescriptorMeansFile, StopsFor, TypeOK
  <1>7. SharedOffset'
    BY DEF SharedOffset, TypeOK
  <1> QED
    BY <1>1, <1>2, <1>3, <1>4, <1>5, <1>6, <1>7

LEMMA RecvKeeps ==
    ASSUME IInv, NEW e \in Env, ipc_recv(e)
    PROVE  IInv'
  <1> USE DEF IInv, Promises, ipc_recv, tableVars, histVars
  <1>1. TypeOK' /\ IdInv' /\ NameInv'
    BY DEF TypeOK, IdInv, NameInv
  <1>2. ClientInv'
    BY DEF ClientInv, TypeOK, ReqOK
  <1>4. ServerInv'
    BY DEF ServerInv, Busy, TypeOK, ReqOK
  <1>5. EntryKept'
    BY DEF EntryKept
  <1>6. DescriptorMeansFile' /\ SharedOffset' /\ StopsFor'
    BY DEF DescriptorMeansFile, SharedOffset, StopsFor
  <1> QED
    BY <1>1, <1>2, <1>4, <1>5, <1>6

(* A client that is not waiting changes its own descriptors: to nothing, or to  *)
(* what another of them is.                                                     *)
LEMMA OwnDescriptorKeeps ==
    ASSUME IInv, NEW e \in Env, pc[e] \notin {"recv", "wait"}, NEW to \in {"run", "exit", "map"},
           NEW c \in CallRecords, to = "map" => c.d \in Fdnum /\ c.x \in Fdnum,
           NEW d \in Fdnum, NEW i \in Entry \cup {None}, NEW o \in [id : Int, name : Names \cup {NoName}],
           \/ i = None /\ o = Nothing
           \/ \E d2 \in Fdnum : i = fdtab[e][d2] /\ o = opened[e][d2],
           fdtab' = [fdtab EXCEPT ![e][d] = i], opened' = [opened EXCEPT ![e][d] = o],
           pc' = [pc EXCEPT ![e] = to], call' = [call EXCEPT ![e] = c],
           UNCHANGED <<gen, cow, srv, opentab, fd, files, orphaned, unlinked>>
    PROVE  IInv'
  <1> USE ConstantFacts DEF IInv, Promises
  <1>0. /\ \A e1 \in Env, d1 \in Fdnum : fdtab'[e1][d1] = IF e1 = e /\ d1 = d THEN i ELSE fdtab[e1][d1]
        /\ \A e1 \in Env, d1 \in Fdnum : opened'[e1][d1] = IF e1 = e /\ d1 = d THEN o ELSE opened[e1][d1]
    BY DEF TypeOK
  <1>1. TypeOK'
    BY DEF TypeOK
  <1>2. ClientInv'
    BY <1>0 DEF ClientInv, TypeOK, ReqOK
  <1>3. IdInv' /\ NameInv'
    BY <1>0 DEF IdInv, NameInv
  <1>4. ServerInv'
    BY DEF ServerInv, Busy, TypeOK, ReqOK
  <1>5. EntryKept'
    <2>1. Kept'
      <3>1. Kept
        BY EntryKeptParts
      <3> QED
        BY <1>0, <3>1 DEF Kept
    <2>2. NoneRefused'
      BY EntryKeptParts DEF NoneRefused
    <2> QED
      BY <2>1, <2>2, EntryKeptParts
  <1>6. DescriptorMeansFile'
    BY <1>0 DEF DescriptorMeansFile
  <1>7. SharedOffset' /\ StopsFor'
    BY DEF SharedOffset, StopsFor
  <1> QED
    BY <1>1, <1>2, <1>3, <1>4, <1>5, <1>6, <1>7

(* What is done with the answer: close(), dup() and exit() unmap the page. *)
LEMMA ReturnKeeps ==
    ASSUME IInv, NEW e \in Env, Return(e)
    PROVE  IInv'
  <1> DEFINE op == call[e].op
             d == call[e].d
             to == CASE op = "dup" -> "map" [] op = "exit" -> "exit" [] OTHER -> "run"
             c == IF op = "dup" THEN call[e] ELSE Idle
  <1>1. /\ pc[e] = "answer" /\ pc' = [pc EXCEPT ![e] = to] /\ call' = [call EXCEPT ![e] = c]
        /\ UNCHANGED <<gen, cow, srv, opentab, fd, files, orphaned, unlinked>>
    BY DEF Return, tableVars
  <1>2. c \in CallRecords /\ to \in {"run", "exit", "map"}
    BY IdleIsRecord DEF IInv, TypeOK
  <1>3. ReqOK(call[e])
    BY <1>1 DEF IInv, ClientInv
  <1>4. to = "map" => c.d \in Fdnum /\ c.x \in Fdnum
    BY <1>3 DEF ReqOK, FileRequests
  <1>5. CASE op \in {"close", "dup", "exit"}
    <2>1. d \in Fdnum
      BY <1>3, <1>5 DEF ReqOK, FileRequests
    <2>2. fdtab' = [fdtab EXCEPT ![e][d] = None] /\ opened' = [opened EXCEPT ![e][d] = Nothing]
      BY <1>5 DEF Return
    <2>3. Nothing \in [id : Int, name : Names \cup {NoName}]
      BY DEF Nothing, None
    <2> HIDE DEF c, to
    <2> QED
      BY <1>1, <1>2, <1>4, <2>1, <2>2, <2>3, OwnDescriptorKeeps
  <1>6. CASE op \notin {"close", "dup", "exit"}
    <2>1. 0 \in Fdnum
      BY ConstantFacts DEF Fdnum
    <2>2. fdtab' = [fdtab EXCEPT ![e][0] = fdtab[e][0]] /\ opened' = [opened EXCEPT ![e][0] = opened[e][0]]
      BY <1>6, <2>1 DEF Return, IInv, TypeOK
    <2>3. fdtab[e][0] \in Entry \cup {None} /\ opened[e][0] \in [id : Int, name : Names \cup {NoName}]
      BY <2>1 DEF IInv, TypeOK
    <2> HIDE DEF c, to
    <2> QED
      BY <1>1, <1>2, <1>4, <2>1, <2>2, <2>3, OwnDescriptorKeeps
  <1> QED
    BY <1>5, <1>6

LEMMA DupMapKeeps ==
    ASSUME IInv, NEW e \in Env, dup_map(e)
    PROVE  IInv'
  <1> DEFINE d == call[e].d
             x == call[e].x
  <1>1. d \in Fdnum /\ x \in Fdnum
    BY DEF dup_map, IInv, ClientInv
  <1>2. fdtab[e][x] \in Entry \cup {None} /\ opened[e][x] \in [id : Int, name : Names \cup {NoName}]
    BY <1>1 DEF IInv, TypeOK
  <1>3. /\ fdtab' = [fdtab EXCEPT ![e][d] = fdtab[e][x]] /\ opened' = [opened EXCEPT ![e][d] = opened[e][x]]
        /\ pc[e] = "map" /\ pc' = [pc EXCEPT ![e] = "run"] /\ call' = [call EXCEPT ![e] = Idle]
        /\ UNCHANGED <<gen, cow, srv, opentab, fd, files, orphaned, unlinked>>
    BY DEF dup_map, tableVars
  <1> QED
    BY <1>1, <1>2, <1>3, IdleIsRecord, OwnDescriptorKeeps

LEMMA StepKeeps ==
    ASSUME IInv, NEW e \in Env, Step(e)
    PROVE  IInv'
  BY SendKeeps, RecvKeeps, ReturnKeeps, DupMapKeeps, CloseAllKeeps DEF Step, exit_next

(******************************* server steps *********************************)
(* An answer without a page: the descriptors are what they were. *)
LEMMA AnswerKeeps ==
    ASSUME IInv, srv.pc = "serve", NEW r \in Int,
           r = E_INVAL /\ srv.req.type # "open" => orphaned,
           Answer(r, None), UNCHANGED <<clientVars, fdtab, opentab, fd, opened, orphaned>>,
           files' \in [File -> [name : Names \cup {NoName}, size : Nat]], unlinked' \subseteq File,
           DescriptorMeansFile'
    PROVE  IInv'
  <1> USE ConstantFacts DEF IInv, Promises, clientVars, Answer
  <1>1. TypeOK'
    BY DEF TypeOK
  <1>2. ClientInv' /\ IdInv' /\ NameInv'
    BY DEF ClientInv, IdInv, NameInv, ReqOK
  <1>3. ServerInv'
    BY DEF ServerInv, Busy, TypeOK, ReqOK
  <1>4. EntryKept'
    <2>1. Kept' /\ NoneRefused'
      BY EntryKeptParts DEF Kept, NoneRefused, TypeOK
    <2> QED
      BY <2>1, EntryKeptParts
  <1>5. SharedOffset' /\ StopsFor'
    BY DEF SharedOffset, StopsFor, TypeOK
  <1> QED
    BY <1>1, <1>2, <1>3, <1>4, <1>5

(* The file of a request is found as long as the client is there. *)
LEMMA LookupFinds ==
    ASSUME IInv, Busy, srv.req.type \in FileRequests
    PROVE  orphaned \/ Lookup = 0
  <1> SUFFICES ASSUME ~orphaned PROVE Lookup = 0
    OBVIOUS
  <1> DEFINE e == srv.whom[1]
             d == srv.req.d
             i == fdtab[e][d]
  <1>1. e \in Env /\ pc[e] \in {"recv", "wait"} /\ call[e] = srv.req
    BY DEF IInv, ServerInv, TypeOK
  <1>2. d \in Fdnum /\ i # None /\ srv.req.fileid = fd[i].id
    BY <1>1 DEF IInv, ClientInv, ReqOK
  <1>3. i \in Entry
    BY <1>1, <1>2 DEF IInv, TypeOK
  <1>4. opentab[i].mapped /\ opentab[i].fileid = fd[i].id
    <2>1. Kept
      BY EntryKeptParts DEF IInv, Promises
    <2>2. opentab[i].mapped /\ opentab[i].fileid = opened[e][d].id /\ fd[i].id = opened[e][d].id
      BY <1>1, <1>2, <2>1 DEF Kept
    <2> QED
      BY <2>2
  <1>5. srv.req.fileid % MAXOPEN = i
    BY <1>2, <1>3, <1>4 DEF IInv, IdInv
  <1>6. pageref(i) # 1
    <2>1. opentab[i].lost \in Nat
      BY <1>3 DEF IInv, TypeOK
    <2> QED
      BY <1>1, <1>2, <1>4, <2>1, HeldIsFound
  <1> QED
    BY <1>2, <1>4, <1>5, <1>6, Zenon DEF Lookup, openfile_lookup

LEMMA RequestedEntry ==
    ASSUME IInv
    PROVE  srv.req.fileid % MAXOPEN \in Entry /\ Opened.file \in File
  <1>1. srv.req.fileid \in Int
    BY DEF IInv, TypeOK, CallRecords
  <1>2. srv.req.fileid % MAXOPEN \in Entry
    BY <1>1, ConstantFacts DEF Entry
  <1> QED
    BY <1>2 DEF IInv, TypeOK, Opened

(* Requests that change only sizes lead to the same files as before. *)
LEMMA SameNames ==
    ASSUME IInv, UNCHANGED <<fdtab, opentab, opened, unlinked>>,
           \A f \in File : files'[f].name = files[f].name
    PROVE  DescriptorMeansFile'
  <1>1. DescriptorMeansFile /\ \A e \in Env, d \in Fdnum : fdtab[e][d] # None => opentab[fdtab[e][d]].file \in File
    BY DEF IInv, Promises, TypeOK
  <1> QED
    BY <1>1 DEF DescriptorMeansFile

(* A request for a file is refused only if its client is gone. *)
LEMMA LookupResult ==
    ASSUME IInv, srv.pc = "serve", srv.req.type \in FileRequests
    PROVE  Lookup \in {0, E_INVAL} /\ Lookup \in Int /\ (Lookup = E_INVAL => orphaned)
  BY LookupFinds DEF Busy, Lookup, openfile_lookup, E_INVAL

LEMMA ReplyKeeps ==
    ASSUME IInv, srv.pc = "serve", NEW r \in Int, Reply(r),
           r = E_INVAL /\ srv.req.type # "open" => orphaned
    PROVE  IInv'
  <1> USE DEF Reply, tableVars, histVars
  <1>1. files \in [File -> [name : Names \cup {NoName}, size : Nat]] /\ unlinked \subseteq File
    BY DEF IInv, TypeOK
  <1>2. DescriptorMeansFile'
    BY SameNames
  <1> QED
    BY <1>1, <1>2, AnswerKeeps

(* The requests that are answered at once. *)
LEMMA SimpleRequestsKeep ==
    ASSUME IInv, serve_set_size \/ serve_stat \/ serve_flush \/ serve_sync
    PROVE  IInv'
  <1> USE DEF tableVars, histVars, Serves
  <1>0. files \in [File -> [name : Names \cup {NoName}, size : Nat]] /\ unlinked \subseteq File /\ srv.req.x \in Nat
    BY DEF IInv, TypeOK, CallRecords
  <1>2. CASE serve_set_size
    <2>1. /\ files' \in [File -> [name : Names \cup {NoName}, size : Nat]]
          /\ \A f \in File : files'[f].name = files[f].name
      BY <1>0, <1>2, RequestedEntry DEF serve_set_size
    <2>2. DescriptorMeansFile'
      BY <1>2, <2>1, SameNames DEF serve_set_size
    <2>3. Lookup \in Int /\ (Lookup = E_INVAL => orphaned)
      BY <1>2, LookupResult DEF serve_set_size, FileRequests
    <2> QED
      BY <1>0, <1>2, <2>1, <2>2, <2>3, AnswerKeeps DEF serve_set_size
  <1>3. CASE serve_stat \/ serve_flush
    BY <1>3, LookupResult, ReplyKeeps DEF serve_stat, serve_flush, FileRequests
  <1>4. CASE serve_sync
    BY <1>4, ReplyKeeps DEF serve_sync, E_INVAL
  <1> QED
    BY <1>2, <1>3, <1>4

LEMMA RemoveKeeps ==
    ASSUME IInv, serve_remove
    PROVE  IInv'
  <1> USE DEF Serves, serve_remove
  <1> DEFINE found == Find(srv.req.name)
  <1>0. files \in [File -> [name : Names \cup {NoName}, size : Nat]] /\ unlinked \subseteq File
    BY DEF IInv, TypeOK
  <1>1. CASE found = {}
    <2>1. DescriptorMeansFile'
      BY <1>1, SameNames
    <2> QED
      BY <1>0, <1>1, <2>1, AnswerKeeps DEF E_INVAL, E_NOT_FOUND
  <1>2. CASE found # {}
    <2> DEFINE f == Min(found)
    <2>1. f \in File
      <3>1. found \subseteq File /\ File \subseteq Nat
        BY DEF Find, File
      <3> QED
        BY <1>2, <3>1, MinIsMember
    <2>2. files' = [files EXCEPT ![f] = [name |-> NoName, size |-> 0]] /\ unlinked' = unlinked \cup {f}
      BY <1>2
    <2> HIDE DEF f, found
    <2>3. files' \in [File -> [name : Names \cup {NoName}, size : Nat]] /\ unlinked' \subseteq File
      BY <1>0, <2>1, <2>2
    <2>4. UNCHANGED <<fdtab, opentab, opened>> /\ DescriptorMeansFile
      BY DEF IInv, Promises
    <2>5. DescriptorMeansFile'
      BY <1>0, <2>1, <2>2, <2>4 DEF DescriptorMeansFile
    <2> QED
      BY <1>0, <1>2, <2>3, <2>5, AnswerKeeps DEF E_INVAL, found
  <1> QED
    BY <1>1, <1>2

(* Bytes are moved: the offset is behind by what the server remembers. *)
LEMMA TransferKeeps ==
    ASSUME IInv, srv.pc = "serve", NEW n \in Nat, Transfer(n),
           files' \in [File -> [name : Names \cup {NoName}, size : Nat]], DescriptorMeansFile'
    PROVE  IInv'
  <1> DEFINE i == srv.req.fileid % MAXOPEN
  <1>0. i \in Entry /\ fd' = [fd EXCEPT ![i].pos = @ + n]
    BY RequestedEntry DEF Transfer
  <1>s. /\ srv' = [srv EXCEPT !.pc = "advance", !.o = i, !.r = n]
        /\ UNCHANGED <<pc, gen, call, cow, fdtab, opentab, opened, orphaned, unlinked>>
    BY DEF Transfer, clientVars, histVars
  <1> HIDE DEF i
  <1>2. TypeOK'
    <2> DEFINE FdType == [id : Int, offset : Nat, omode : {m.acc : m \in Modes} \cup {"rdonly"}, pos : Nat, raced : BOOLEAN, forked : BOOLEAN]
    <2>1. fd' \in [Entry -> FdType]
      <3>1. fd \in [Entry -> FdType] /\ fd[i] \in FdType
        BY <1>0 DEF IInv, TypeOK
      <3>2. [fd[i] EXCEPT !.pos = @ + n] \in FdType
        BY <3>1
      <3> HIDE DEF FdType
      <3> QED
        BY <1>0, <3>1, <3>2
    <2>2. srv' \in [pc : {"recv", "serve", "advance", "send", "again", "panic"}, whom : Env \X Nat, req : CallRecords,
                    r : Int, pg : Entry \cup {None}, o : Entry, file : File]
      <3>1. srv \in [pc : {"recv", "serve", "advance", "send", "again", "panic"}, whom : Env \X Nat, req : CallRecords,
                     r : Int, pg : Entry \cup {None}, o : Entry, file : File]
        BY DEF IInv, TypeOK
      <3>2. srv' = [pc |-> "advance", whom |-> srv.whom, req |-> srv.req, r |-> n, pg |-> srv.pg, o |-> i, file |-> srv.file]
        BY <1>s, <3>1
      <3> QED
        BY <1>0, <3>1, <3>2
    <2> QED
      BY <1>s, <2>1, <2>2 DEF IInv, TypeOK
  <1> USE <1>s, ConstantFacts DEF IInv, Promises
  <1>1. /\ \A j \in Entry : fd'[j].id = fd[j].id /\ fd'[j].offset = fd[j].offset /\ fd'[j].raced = fd[j].raced
        /\ \A j \in Entry : fd'[j].pos = IF j = i THEN fd[i].pos + n ELSE fd[j].pos
    BY <1>0 DEF TypeOK
  <1>3. ClientInv'
    BY <1>1 DEF ClientInv, ReqOK, TypeOK
  <1>4. IdInv' /\ NameInv'
    BY DEF IdInv, NameInv
  <1>5. ServerInv'
    BY <1>s DEF ServerInv, Busy, TypeOK, ReqOK
  <1>6. EntryKept'
    <2>1. Kept
      BY EntryKeptParts
    <2>2. Kept'
      BY <1>1, <2>1 DEF Kept, TypeOK
    <2>3. NoneRefused'
      BY <1>s DEF NoneRefused, TypeOK
    <2> QED
      BY <2>2, <2>3, EntryKeptParts
  <1>7. SharedOffset'
    <2>1. srv'.pc = "advance" /\ srv'.o = i /\ srv'.r = n
      BY <1>s DEF TypeOK
    <2>2. \A j \in Entry : fd[j].raced \/ fd[j].offset = fd[j].pos
      BY DEF SharedOffset, TypeOK
    <2> QED
      BY <1>1, <2>1, <2>2 DEF SharedOffset, TypeOK
  <1>8. StopsFor'
    BY <1>s DEF StopsFor, TypeOK
  <1> QED
    BY <1>2, <1>3, <1>4, <1>5, <1>6, <1>7, <1>8

LEMMA ReadKeeps ==
    ASSUME IInv, serve_read
    PROVE  IInv'
  <1> DEFINE offset == fd[srv.req.fileid % MAXOPEN].offset
             size == files[Opened.file].size
             n == IF offset >= size THEN 0 ELSE Min({Clip(srv.req.x), size - offset})
  <1>1. offset \in Nat /\ size \in Nat /\ srv.req.x \in Nat /\ PGSIZE \in Nat
    BY RequestedEntry, ConstantFacts DEF IInv, TypeOK, CallRecords
  <1>2. Clip(srv.req.x) \in Nat
    BY <1>1, MinOfTwo DEF Clip
  <1> DEFINE m == Min({Clip(srv.req.x), size - offset})
  <1>3. size - offset \in Int /\ m = IF Clip(srv.req.x) <= size - offset THEN Clip(srv.req.x) ELSE size - offset
    BY <1>1, <1>2, MinOfTwo
  <1>0. srv.pc = "serve" /\ Lookup \in {0, E_INVAL} /\ Lookup \in Int /\ (Lookup = E_INVAL => orphaned)
    BY LookupResult DEF serve_read, Serves, FileRequests
  <1>r. CASE Lookup < 0
    BY <1>0, <1>r, ReplyKeeps DEF serve_read
  <1>f. SUFFICES ASSUME ~(Lookup < 0) PROVE IInv'
    BY <1>r
  <1>4. Transfer(n) /\ srv.pc = "serve" /\ UNCHANGED files
    BY <1>0, <1>f DEF serve_read
  <1>5. n \in Nat
    BY <1>1, <1>2, <1>3
  <1>6. DescriptorMeansFile'
    BY <1>4, SameNames DEF Transfer, histVars
  <1>7. files' \in [File -> [name : Names \cup {NoName}, size : Nat]]
    BY <1>4 DEF IInv, TypeOK
  <1> HIDE DEF n
  <1> QED
    BY <1>4, <1>5, <1>6, <1>7, TransferKeeps

LEMMA WriteKeeps ==
    ASSUME IInv, serve_write
    PROVE  IInv'
  <1>0. srv.pc = "serve" /\ Lookup \in {0, E_INVAL} /\ Lookup \in Int /\ (Lookup = E_INVAL => orphaned)
    BY LookupResult DEF serve_write, Serves, FileRequests
  <1>r. CASE Lookup < 0
    BY <1>0, <1>r, ReplyKeeps DEF serve_write
  <1>f. SUFFICES ASSUME ~(Lookup < 0) PROVE IInv'
    BY <1>r
  <1> DEFINE n == Clip(srv.req.x)
             end == fd[srv.req.fileid % MAXOPEN].offset + n
             f == Opened.file
             s == Max({files[f].size, end})
  <1>1. fd[srv.req.fileid % MAXOPEN].offset \in Nat /\ f \in File /\ srv.req.x \in Nat /\ PGSIZE \in Nat
    BY RequestedEntry, ConstantFacts DEF IInv, TypeOK, CallRecords
  <1>2. n \in Nat
    BY <1>1, MinOfTwo DEF Clip
  <1>3. files \in [File -> [name : Names \cup {NoName}, size : Nat]] /\ unlinked \subseteq File
    BY DEF IInv, TypeOK
  <1>4. s \in Nat
    <2>1. files[f].size \in Nat /\ end \in Nat
      BY <1>1, <1>2, <1>3
    <2> HIDE DEF f, end
    <2> QED
      BY <2>1, MaxOfTwo
  <1>5. files' = [files EXCEPT ![f].size = s] /\ srv.pc = "serve"
    BY <1>0, <1>1, <1>3, <1>f DEF serve_write
  <1> HIDE DEF f, s
  <1>6. /\ files' \in [File -> [name : Names \cup {NoName}, size : Nat]]
        /\ \A g \in File : files'[g].name = files[g].name
    BY <1>1, <1>3, <1>4, <1>5
  <1>7. UNCHANGED <<fdtab, opentab, opened, unlinked>>
    BY <1>f DEF serve_write, Transfer, histVars
  <1>8. DescriptorMeansFile'
    BY <1>6, <1>7, SameNames
  <1>9. CASE end <= MaxSize
    BY <1>2, <1>5, <1>6, <1>8, <1>9, <1>f, TransferKeeps DEF serve_write
  <1>10. CASE ~(end <= MaxSize)
    <2>1. Answer(E_NO_DISK, None) /\ UNCHANGED <<clientVars, fdtab, opentab, fd, boundVars, histVars>>
      BY <1>10, <1>f DEF serve_write
    <2>2. E_NO_DISK \in Int /\ E_NO_DISK # E_INVAL
      BY DEF E_NO_DISK, E_INVAL
    <2>3. UNCHANGED <<clientVars, fdtab, opentab, fd, opened, orphaned>>
      BY <2>1 DEF histVars
    <2>4. unlinked' \subseteq File
      BY <1>3, <1>7
    <2> QED
      BY <1>5, <1>6, <1>8, <2>1, <2>2, <2>3, <2>4, AnswerKeeps
  <1> QED
    BY <1>9, <1>10

(* The offset catches up. *)
LEMMA AdvanceKeeps ==
    ASSUME IInv, advance
    PROVE  IInv'
  <1> DEFINE i == srv.o
             n == srv.r
             SrvType == [pc : {"recv", "serve", "advance", "send", "again", "panic"}, whom : Env \X Nat, req : CallRecords,
                         r : Int, pg : Entry \cup {None}, o : Entry, file : File]
             FdType == [id : Int, offset : Nat, omode : {m.acc : m \in Modes} \cup {"rdonly"}, pos : Nat, raced : BOOLEAN, forked : BOOLEAN]
  <1>0. i \in Entry /\ n \in Nat /\ srv \in SrvType /\ fd \in [Entry -> FdType]
    BY DEF advance, IInv, ServerInv, TypeOK
  <1>1. /\ srv.pc = "advance" /\ fd' = [fd EXCEPT ![i].offset = @ + n]
        /\ srv' = [srv EXCEPT !.pc = "send", !.r = n, !.pg = None]
        /\ UNCHANGED <<pc, gen, call, cow, fdtab, opentab, files, opened, orphaned, unlinked>>
    BY DEF advance, Answer, clientVars, histVars
  <1>2. srv' = [pc |-> "send", whom |-> srv.whom, req |-> srv.req, r |-> n, pg |-> None, o |-> i, file |-> srv.file]
    BY <1>0, <1>1
  <1>3. srv' \in SrvType
    BY <1>0, <1>2
  <1>4. fd' \in [Entry -> FdType]
    BY <1>0, <1>1
  <1>5. /\ \A j \in Entry : fd'[j].id = fd[j].id /\ fd'[j].pos = fd[j].pos /\ fd'[j].raced = fd[j].raced
        /\ \A j \in Entry : fd'[j].offset = IF j = i THEN fd[i].offset + n ELSE fd[j].offset
    BY <1>0, <1>1
  <1>6. TypeOK'
    BY <1>1, <1>3, <1>4 DEF IInv, TypeOK
  <1>7. ClientInv'
    BY <1>1, <1>5 DEF ClientInv, ReqOK, TypeOK, IInv
  <1>8. IdInv' /\ NameInv'
    BY <1>1 DEF IdInv, NameInv, IInv
  <1>9. ServerInv'
    BY <1>1, <1>2 DEF ServerInv, Busy, ReqOK, IInv
  <1>10. EntryKept'
    <2>1. Kept
      BY EntryKeptParts DEF IInv, Promises
    <2>2. Kept'
      BY <1>1, <1>5, <2>1 DEF Kept, TypeOK, IInv
    <2>3. NoneRefused'
      BY <1>0, <1>2 DEF NoneRefused, E_INVAL
    <2> QED
      BY <2>2, <2>3, EntryKeptParts
  <1>11. SharedOffset'
    <2>1. \A j \in Entry : fd[j].raced \/ fd[j].offset + (IF j = i THEN n ELSE 0) = fd[j].pos
      BY <1>1 DEF SharedOffset, IInv, Promises
    <2> QED
      BY <1>0, <1>2, <1>5, <2>1 DEF SharedOffset
  <1>12. DescriptorMeansFile' /\ StopsFor'
    BY <1>1, <1>2 DEF DescriptorMeansFile, StopsFor, IInv, Promises
  <1> QED
    BY <1>6, <1>7, <1>8, <1>9, <1>10, <1>11, <1>12 DEF IInv, Promises

(* The client that is answered is the one that asked, and the page goes to the  *)
(* descriptor that it chose; if it is gone it died with its request unanswered. *)
LEMMA FinalAnswerKeeps ==
    ASSUME IInv, answer
    PROVE  IInv'
  <1> DEFINE e == srv.whom[1]
             exists == pc[e] # "free" /\ gen[e] = srv.whom[2]
             SrvType == [pc : {"recv", "serve", "advance", "send", "again", "panic"}, whom : Env \X Nat, req : CallRecords,
                         r : Int, pg : Entry \cup {None}, o : Entry, file : File]
  <1>0. e \in Env /\ srv \in SrvType /\ srv.whom[2] \in Nat /\ gen[e] \in Nat
    BY DEF IInv, TypeOK
  <1>1. /\ srv.pc = "send" /\ (exists => pc[e] = "wait")
        /\ UNCHANGED <<gen, cow, opentab, fd, files, orphaned, unlinked>>
    BY DEF answer, tableVars
  <1>3. exists <=> ~orphaned
    BY <1>0, <1>1 DEF IInv, ServerInv, Busy
  <1>5. ASSUME srv' = [srv EXCEPT !.pc = "panic"], UNCHANGED <<pc, call, fdtab, opened>>,
               orphaned \/ srv.pg # None
        PROVE  IInv'
    <2>1. srv' \in SrvType /\ srv'.pc = "panic" /\ srv'.req = srv.req /\ srv'.pg = srv.pg
      BY <1>0, <1>5
    <2>2. TypeOK'
      BY <1>1, <1>5, <2>1 DEF IInv, TypeOK
    <2>3. ClientInv' /\ NameInv' /\ IdInv'
      BY <1>1, <1>5 DEF ClientInv, NameInv, IdInv, ReqOK, IInv
    <2>4. Kept' /\ NoneRefused'
      <3>1. Kept
        BY EntryKeptParts DEF IInv, Promises
      <3> QED
        BY <1>1, <1>5, <2>1, <3>1 DEF Kept, NoneRefused
    <2>5. DescriptorMeansFile'
      BY <1>1, <1>5 DEF DescriptorMeansFile, IInv, Promises
    <2>6. ServerInv'
      BY <2>1 DEF ServerInv, Busy
    <2>7. SharedOffset'
      BY <1>1, <2>1 DEF SharedOffset, IInv, Promises
    <2>8. StopsFor'
      BY <1>1, <1>5, <2>1 DEF StopsFor, IInv, ServerInv
    <2> QED
      BY <2>2, <2>3, <2>4, <2>5, <2>6, <2>7, <2>8, EntryKeptParts DEF IInv, Promises
  <1>6. ASSUME exists, srv' = [srv EXCEPT !.pc = "again"], Deliver(e)
        PROVE  IInv'
    <2> DEFINE d == srv.req.d
               i == srv.pg
               o == [id |-> opentab[i].fileid, name |-> srv.req.name]
    <2>0. srv' \in SrvType /\ srv'.pc = "again"
      BY <1>0, <1>6
    <2>s. IdInv' /\ ServerInv' /\ SharedOffset' /\ StopsFor' /\ NoneRefused'
      <3>1. IdInv'
        BY <1>1 DEF IdInv, IInv
      <3>2. ServerInv' /\ StopsFor' /\ NoneRefused'
        BY <1>1, <2>0, <1>3, <1>6 DEF ServerInv, Busy, StopsFor, NoneRefused
      <3>3. SharedOffset'
        BY <1>1, <2>0 DEF SharedOffset, IInv, Promises
      <3> QED
        BY <3>1, <3>2, <3>3
    <2>1. /\ pc' = [pc EXCEPT ![e] = "answer"] /\ call' = [call EXCEPT ![e].r = srv.r]
          /\ i = None => UNCHANGED <<fdtab, opened>>
          /\ i # None => fdtab' = [fdtab EXCEPT ![e][call[e].d] = i] /\ opened' = [opened EXCEPT ![e][call[e].d] = o]
      BY <1>6 DEF Deliver
    <2>2. call[e] = srv.req /\ ReqOK(srv.req)
      BY <1>1, <1>3, <1>6 DEF IInv, ServerInv, Busy
    <2>3. i # None => /\ srv.req.type = "open" /\ opentab[i].mapped /\ fd[i].id = opentab[i].fileid /\ d \in Fdnum
                      /\ srv.req.name \in Names /\ files[opentab[i].file].name = srv.req.name /\ i \in Entry
      BY <1>0, <1>1, <2>2 DEF IInv, ServerInv, ReqOK
    <2>4. /\ call' \in [Env -> CallRecords]
          /\ \A e1 \in Env : /\ call'[e1].op = call[e1].op /\ call'[e1].type = call[e1].type /\ call'[e1].d = call[e1].d
                             /\ call'[e1].fileid = call[e1].fileid /\ call'[e1].x = call[e1].x
                             /\ call'[e1].name = call[e1].name /\ call'[e1].mode = call[e1].mode
      <3>1. call \in [Env -> CallRecords] /\ srv.r \in Int
        BY <1>0 DEF IInv, TypeOK
      <3>2. call[e] \in CallRecords /\ [call[e] EXCEPT !.r = srv.r] \in CallRecords
        BY <1>0, <3>1 DEF CallRecords
      <3>3. \A e1 \in Env : call'[e1] = IF e1 = e THEN [call[e] EXCEPT !.r = srv.r] ELSE call[e1]
        BY <2>1, <3>1
      <3>4. call' \in [Env -> CallRecords]
        BY <1>0, <2>1, <3>1, <3>2
      <3> HIDE DEF e
      <3> QED
        BY <3>1, <3>3, <3>4 DEF CallRecords
    <2>5. /\ fdtab' \in [Env -> [Fdnum -> Entry \cup {None}]]
          /\ opened' \in [Env -> [Fdnum -> [id : Int, name : Names \cup {NoName}]]]
          /\ \A e1 \in Env, d1 \in Fdnum :
                fdtab'[e1][d1] = IF i # None /\ e1 = e /\ d1 = d THEN i ELSE fdtab[e1][d1]
          /\ \A e1 \in Env, d1 \in Fdnum :
                opened'[e1][d1] = IF i # None /\ e1 = e /\ d1 = d THEN o ELSE opened[e1][d1]
      <3>1. i # None => o \in [id : Int, name : Names \cup {NoName}]
        BY <2>3 DEF IInv, TypeOK
      <3>2. /\ fdtab \in [Env -> [Fdnum -> Entry \cup {None}]]
            /\ opened \in [Env -> [Fdnum -> [id : Int, name : Names \cup {NoName}]]]
        BY DEF IInv, TypeOK
      <3> HIDE DEF o, e, i
      <3>3. CASE i = None
        BY <2>1, <3>2, <3>3
      <3>4. CASE i # None
        <4>1. fdtab' = [fdtab EXCEPT ![e][d] = i] /\ opened' = [opened EXCEPT ![e][d] = o] /\ d \in Fdnum /\ i \in Entry
          BY <2>1, <2>2, <2>3, <3>4 DEF e, i
        <4> HIDE DEF d
        <4>2. /\ fdtab' \in [Env -> [Fdnum -> Entry \cup {None}]]
              /\ \A e1 \in Env, d1 \in Fdnum : fdtab'[e1][d1] = IF e1 = e /\ d1 = d THEN i ELSE fdtab[e1][d1]
          BY <4>1, <3>2, <1>0
        <4>3. /\ opened' \in [Env -> [Fdnum -> [id : Int, name : Names \cup {NoName}]]]
              /\ \A e1 \in Env, d1 \in Fdnum : opened'[e1][d1] = IF e1 = e /\ d1 = d THEN o ELSE opened[e1][d1]
          BY <4>1, <3>1, <3>2, <3>4, <1>0
        <4> QED
          BY <4>2, <4>3, <3>4
      <3> QED
        BY <3>3, <3>4
    <2>6. TypeOK'
      BY <1>0, <1>1, <2>0, <2>1, <2>4, <2>5 DEF IInv, TypeOK
    <2>7. ClientInv'
      <3> SUFFICES ASSUME NEW e1 \in Env
                   PROVE  /\ pc'[e1] \in {"send", "recv", "wait", "answer"} =>
                                /\ ReqOK(call'[e1])
                                /\ call'[e1].type \in FileRequests =>
                                     fdtab'[e1][call'[e1].d] # None /\ call'[e1].fileid = fd[fdtab'[e1][call'[e1].d]].id
                          /\ pc'[e1] = "map" => call'[e1].d \in Fdnum /\ call'[e1].x \in Fdnum
        BY <1>1 DEF ClientInv, ReqOK
      <3>1. pc'[e1] = IF e1 = e THEN "answer" ELSE pc[e1]
        BY <2>1 DEF IInv, TypeOK
      <3>2. pc[e] = "wait"
        BY <1>1, <1>6
      <3>3. ReqOK(call[e1]) => ReqOK(call'[e1])
        BY <2>4 DEF ReqOK
      <3>4. ReqOK(call[e1]) /\ call[e1].type \in FileRequests => fdtab'[e1][call[e1].d] = fdtab[e1][call[e1].d]
        BY <2>2, <2>3, <2>5 DEF ReqOK, FileRequests
      <3> QED
        BY <2>4, <3>1, <3>2, <3>3, <3>4 DEF IInv, ClientInv
    <2>o. o.name = srv.req.name /\ o.id = opentab[i].fileid
      OBVIOUS
    <2>n. i # None => o # Nothing
      BY <2>3, ConstantFacts DEF Nothing
    <2> HIDE DEF o, i, e, d, exists
    <2>8. NameInv'
      BY <2>3, <2>5, <2>o, SMTT(60) DEF NameInv, IInv
    <2>9. Kept'
      <3>1. Kept
        BY EntryKeptParts DEF IInv, Promises
      <3>2. SUFFICES ASSUME NEW e1 \in Env, NEW d1 \in Fdnum
                     PROVE  /\ fdtab'[e1][d1] = None <=> opened'[e1][d1] = Nothing
                            /\ fdtab'[e1][d1] # None => /\ opentab[fdtab'[e1][d1]].mapped
                                                        /\ opentab[fdtab'[e1][d1]].fileid = opened'[e1][d1].id
                                                        /\ fd[fdtab'[e1][d1]].id = opened'[e1][d1].id
        BY <1>1, Zenon DEF Kept
      <3>3. CASE i # None /\ e1 = e /\ d1 = d
        BY <2>3, <2>5, <2>o, <2>n, <3>3
      <3>4. CASE ~(i # None /\ e1 = e /\ d1 = d)
        <4>1. fdtab'[e1][d1] = fdtab[e1][d1] /\ opened'[e1][d1] = opened[e1][d1]
          BY <2>5, <3>4
        <4> QED
          BY <4>1, <3>1 DEF Kept
      <3> QED
        BY <3>3, <3>4
    <2>10. DescriptorMeansFile'
      <3>1. SUFFICES ASSUME NEW e1 \in Env, NEW d1 \in Fdnum, fdtab'[e1][d1] # None
                     PROVE  \/ opentab[fdtab'[e1][d1]].file \in unlinked
                            \/ files[opentab[fdtab'[e1][d1]].file].name = opened'[e1][d1].name
        BY <1>1, Zenon DEF DescriptorMeansFile
      <3>2. CASE i # None /\ e1 = e /\ d1 = d
        BY <2>3, <2>5, <2>o, <3>2
      <3>3. CASE ~(i # None /\ e1 = e /\ d1 = d)
        <4>1. fdtab'[e1][d1] = fdtab[e1][d1] /\ opened'[e1][d1] = opened[e1][d1]
          BY <2>5, <3>3
        <4> QED
          BY <4>1, <3>1, Zenon DEF DescriptorMeansFile, IInv, Promises
      <3> QED
        BY <3>2, <3>3
    <2> QED
      BY <2>s, <2>6, <2>7, <2>8, <2>9, <2>10, EntryKeptParts DEF IInv, Promises
  <1>7. orphaned \in BOOLEAN
    BY DEF IInv, TypeOK
  <1> QED
    BY <1>3, <1>5, <1>6, <1>7 DEF answer

LEMMA ReceiveKeeps ==
    ASSUME IInv, serve
    PROVE  IInv'
  <1>1. srv.pc = "again" /\ srv' = Receiving /\ UNCHANGED <<pc, gen, call, cow, fdtab, opentab, fd, files, opened, orphaned, unlinked>>
    BY DEF serve, clientVars, tableVars, histVars
  <1>2. ~orphaned
    BY <1>1 DEF IInv, ServerInv, Busy
  <1> USE <1>1, ConstantFacts DEF IInv, Promises
  <1>3. TypeOK'
    BY IdleIsRecord DEF TypeOK, Receiving
  <1>4. ClientInv' /\ IdInv' /\ NameInv'
    BY DEF ClientInv, IdInv, NameInv, ReqOK
  <1>5. ServerInv' /\ StopsFor'
    BY <1>2 DEF ServerInv, Busy, Receiving, StopsFor
  <1>6. EntryKept'
    <2>1. Kept' /\ NoneRefused'
      BY EntryKeptParts DEF Kept, NoneRefused, Receiving
    <2> QED
      BY <2>1, EntryKeptParts
  <1>7. DescriptorMeansFile' /\ SharedOffset'
    BY DEF DescriptorMeansFile, SharedOffset, Receiving
  <1> QED
    BY <1>3, <1>4, <1>5, <1>6, <1>7

(* An entry is taken that nobody has: no descriptor notices. *)
LEMMA AllocKeeps ==
    ASSUME IInv, Serves("open"), NEW i \in Available, openfile_alloc(i),
           NEW r \in Int, NEW pg \in {i, None}, NEW f \in File,
           srv' = [pc |-> "send", whom |-> srv.whom, req |-> srv.req, r |-> r, pg |-> pg, o |-> srv.o, file |-> f],
           UNCHANGED <<clientVars, fdtab, histVars>>,
           files' \in [File -> [name : Names \cup {NoName}, size : Nat]],
           pg = i => files'[f].name = srv.req.name,
           \A g \in File : files[g].name \in Names => files'[g].name = files[g].name
    PROVE  IInv'
  <1> DEFINE SrvType == [pc : {"recv", "serve", "advance", "send", "again", "panic"}, whom : Env \X Nat, req : CallRecords,
                         r : Int, pg : Entry \cup {None}, o : Entry, file : File]
             FdType == [id : Int, offset : Nat, omode : {m.acc : m \in Modes} \cup {"rdonly"}, pos : Nat, raced : BOOLEAN, forked : BOOLEAN]
             TabType == [fileid : 0..(IdMod - 1), file : File, mapped : BOOLEAN, lost : Nat]
             id == NextId(i)
             held(e, d) == fdtab[e][d] # None
  <1>0. /\ i \in Entry /\ i # None /\ srv \in SrvType /\ fd \in [Entry -> FdType] /\ opentab \in [Entry -> TabType]
        /\ fdtab \in [Env -> [Fdnum -> Entry \cup {None}]] /\ srv.pc = "serve" /\ srv.req.type = "open"
        /\ srv.req.mode \in Modes
    <2>1. i \in Entry /\ i # None
      BY ConstantFacts DEF Available
    <2>2. srv.pc = "serve" /\ srv.req.type = "open"
      BY DEF Serves
    <2>3. srv.req.mode \in Modes
      BY <2>2 DEF IInv, ServerInv, Busy, ReqOK
    <2> QED
      BY <2>1, <2>2, <2>3 DEF IInv, TypeOK
  <1>1. srv' = [pc |-> "send", whom |-> srv.whom, req |-> srv.req, r |-> r, pg |-> pg, o |-> srv.o, file |-> f]
    OBVIOUS
  <1>2. srv' \in SrvType
    BY <1>0, <1>1
  <1>3. id \in 0..(IdMod - 1) /\ id % MAXOPEN = i /\ id \in Int
    <2>1. opentab[i].fileid \in 0..(IdMod - 1) /\ opentab[i].fileid % MAXOPEN = i
      BY <1>0 DEF IInv, IdInv
    <2>2. id \in 0..(IdMod - 1) /\ id % MAXOPEN = i
      BY <2>1, <1>0, IdKeepsEntry DEF NextId
    <2> QED
      BY <2>2, ConstantFacts
  <1> HIDE DEF id
  <1>4. /\ opentab' = [opentab EXCEPT ![i] = [fileid |-> id, mapped |-> TRUE, lost |-> opentab[i].lost,
                                              file |-> IF pg = i THEN f ELSE opentab[i].file]]
        /\ fd' = [fd EXCEPT ![i] = IF pg = i THEN NewFd(id, srv.req.mode.acc) ELSE NewFd(0, "rdonly")]
    BY <1>0, <1>1 DEF openfile_alloc, id
  <1>5. opentab' \in [Entry -> TabType] /\ fd' \in [Entry -> FdType]
    <2>1. [fileid |-> id, mapped |-> TRUE, lost |-> opentab[i].lost, file |-> IF pg = i THEN f ELSE opentab[i].file]
          \in TabType
      BY <1>0, <1>3
    <2>2. NewFd(id, srv.req.mode.acc) \in FdType /\ NewFd(0, "rdonly") \in FdType
      BY <1>0, <1>3 DEF NewFd
    <2> HIDE DEF TabType, FdType
    <2> QED
      BY <1>0, <1>4, <2>1, <2>2
  <1>6. /\ \A j \in Entry \ {i} : opentab'[j] = opentab[j] /\ fd'[j] = fd[j]
        /\ opentab'[i].fileid = id /\ opentab'[i].mapped
        /\ fd'[i].offset = 0 /\ fd'[i].pos = 0
        /\ pg = i => fd'[i].id = id /\ opentab'[i].file = f
    BY <1>0, <1>4 DEF NewFd
  <1>7. UNCHANGED <<pc, gen, call, cow, fdtab, opened, orphaned, unlinked>>
    BY DEF clientVars, histVars
  <1>8. Kept
    BY EntryKeptParts DEF IInv, Promises
  <1>9. \A e \in Env, d \in Fdnum : held(e, d) => fdtab[e][d] \in Entry \ {i}
    <2> TAKE e \in Env, d \in Fdnum
    <2>1. held(e, d) => opentab[fdtab[e][d]].mapped
      BY <1>8 DEF Kept
    <2>2. fdtab[e][d] # i
      <3>1. opentab[i].lost \in Nat
        BY <1>0
      <3> HIDE DEF TabType
      <3> QED
        BY <1>0, <2>1, <3>1, AvailableMeansUnheld
    <2> QED
      BY <1>0, <2>2
  <1>10. TypeOK'
    BY <1>2, <1>5, <1>7 DEF IInv, TypeOK
  <1>11. ClientInv'
    BY <1>6, <1>7, <1>9 DEF IInv, ClientInv, ReqOK
  <1>12. IdInv' /\ NameInv'
    <2>1. IdInv'
      BY <1>3, <1>6 DEF IInv, IdInv
    <2>2. NameInv'
      BY <1>7 DEF IInv, NameInv
    <2> QED
      BY <2>1, <2>2
  <1>13. ServerInv'
    BY <1>0, <1>1, <1>6, <1>7 DEF IInv, ServerInv, Busy, ReqOK
  <1>14. EntryKept'
    <2>1. Kept'
      BY <1>6, <1>7, <1>8, <1>9 DEF Kept
    <2>2. NoneRefused'
      BY <1>0, <1>1 DEF NoneRefused
    <2> QED
      BY <2>1, <2>2, EntryKeptParts
  <1>15. DescriptorMeansFile'
    <2> SUFFICES ASSUME NEW e \in Env, NEW d \in Fdnum, held(e, d)
                 PROVE  LET g == opentab'[fdtab[e][d]].file
                        IN  g \in unlinked \/ files'[g].name = opened[e][d].name
      BY <1>7 DEF DescriptorMeansFile
    <2> DEFINE j == fdtab[e][d]
    <2>1. opentab'[j] = opentab[j] /\ opentab[j].file \in File
      BY <1>0, <1>6, <1>9
    <2>2. opened[e][d].name \in Names
      BY DEF IInv, NameInv
    <2>3. opentab[j].file \in unlinked \/ files[opentab[j].file].name = opened[e][d].name
      BY DEF IInv, Promises, DescriptorMeansFile
    <2> QED
      BY <2>1, <2>2, <2>3
  <1>16. SharedOffset' /\ StopsFor'
    <2>1. \A j \in Entry : fd[j].raced \/ fd[j].offset = fd[j].pos
      BY <1>0 DEF IInv, Promises, SharedOffset
    <2>2. srv'.pc = "send"
      BY <1>1
    <2>4. \A j \in Entry : fd'[j].raced \/ fd'[j].offset = fd'[j].pos
      BY <1>6, <2>1
    <2>5. \A j \in Entry : fd'[j].offset \in Nat
      BY <1>5
    <2>6. SharedOffset'
      BY <2>2, <2>4, <2>5 DEF SharedOffset
    <2>3. StopsFor'
      BY <1>1 DEF StopsFor
    <2> QED
      BY <2>3, <2>6
  <1> QED
    BY <1>10, <1>11, <1>12, <1>13, <1>14, <1>15, <1>16 DEF IInv, Promises

LEMMA OpenKeeps ==
    ASSUME IInv, serve_open
    PROVE  IInv'
  <1> DEFINE mode == srv.req.mode
             name == srv.req.name
             found == Find(name)
             create == mode.creat /\ found = {}
             f == IF create THEN Min(Vacant) ELSE Min(found)
             i == Min(Available)
             FilesType == [File -> [name : Names \cup {NoName}, size : Nat]]
  <1>0. /\ Serves("open") /\ UNCHANGED <<clientVars, fdtab, histVars>>
        /\ files \in FilesType /\ unlinked \subseteq File /\ name \in Names /\ srv.file \in File
    <2>1. Serves("open") /\ UNCHANGED <<clientVars, fdtab, histVars>>
      BY DEF serve_open
    <2>2. name \in Names
      BY <2>1 DEF Serves, IInv, ServerInv, Busy, ReqOK
    <2> QED
      BY <2>1, <2>2 DEF IInv, TypeOK
  <1>1. Available # {} => i \in Available /\ NextId(i) \in Int
    <2>1. Available \subseteq Nat
      BY ConstantFacts DEF Available
    <2>2. Available # {} => i \in Available
      BY <2>1, MinIsMember
    <2>3. Available # {} => opentab[i].fileid \in Int
      BY <2>2 DEF Available, IInv, TypeOK
    <2> QED
      BY <2>2, <2>3, ConstantFacts DEF NextId
  <1>2. ASSUME NEW r \in Int, Answer(r, None), UNCHANGED tableVars
        PROVE  IInv'
    <2>1. DescriptorMeansFile'
      BY <1>2, <1>0, SameNames DEF tableVars, histVars
    <2> QED
      BY <1>0, <1>2, <2>1, AnswerKeeps DEF Serves, tableVars, histVars
  <1>3. ASSUME NEW r \in Int, Answer(r, None), UNCHANGED files, Available # {}, openfile_alloc(i)
        PROVE  IInv'
    <2>1. srv' = [pc |-> "send", whom |-> srv.whom, req |-> srv.req, r |-> r, pg |-> None, o |-> srv.o, file |-> srv.file]
      BY <1>3 DEF Answer, IInv, TypeOK
    <2>2. i \in Available /\ i # None
      BY <1>1, <1>3, ConstantFacts DEF Available
    <2> HIDE DEF i
    <2> QED
      BY <1>0, <1>3, <2>1, <2>2, AllocKeeps
  <1>4. ASSUME Available # {}, openfile_alloc(i),
               IF create THEN Vacant # {} ELSE found # {} /\ ~(mode.creat /\ mode.excl),
               files' = [files EXCEPT ![f] = [name |-> name, size |-> IF mode.trunc THEN 0 ELSE files[f].size]],
               srv' = [srv EXCEPT !.pc = "send", !.r = 0, !.pg = i, !.file = f]
        PROVE  IInv'
    <2>1. f \in File /\ files[f].name \in {name, NoName}
      <3>1. File \subseteq Nat /\ Vacant \subseteq File /\ found \subseteq File
        BY DEF File, Vacant, Find
      <3>2. Vacant # {} => Min(Vacant) \in Vacant
        BY <3>1, MinIsMember
      <3>3. found # {} => Min(found) \in found
        BY <3>1, MinIsMember
      <3>4. CASE create
        BY <1>4, <3>1, <3>2, <3>4 DEF Vacant
      <3>5. CASE ~create
        BY <1>4, <3>1, <3>3, <3>5 DEF Find
      <3> QED
        BY <3>4, <3>5
    <2>2. srv' = [pc |-> "send", whom |-> srv.whom, req |-> srv.req, r |-> 0, pg |-> i, o |-> srv.o, file |-> f]
      <3> HIDE DEF i, f
      <3> QED
        BY <1>4 DEF IInv, TypeOK
    <2>3. i \in Available
      BY <1>1, <1>4
    <2> HIDE DEF i, f
    <2>4. files' \in FilesType
      BY <1>0, <1>4, <2>1
    <2>5. \A g \in File : files'[g].name = IF g = f THEN name ELSE files[g].name
      BY <1>0, <1>4, <2>1
    <2>6. files'[f].name = srv.req.name
      BY <2>1, <2>5
    <2>7. \A g \in File : files[g].name \in Names => files'[g].name = files[g].name
      BY <1>0, <2>1, <2>5, ConstantFacts
    <2>8. openfile_alloc(i) /\ Serves("open") /\ UNCHANGED <<clientVars, fdtab, histVars>> /\ f \in File
      BY <1>0, <1>4, <2>1
    <2>9. \A r \in Int, pg \in {i, None} :
             srv' = [pc |-> "send", whom |-> srv.whom, req |-> srv.req, r |-> r, pg |-> pg, o |-> srv.o, file |-> f] => IInv'
      BY <2>3, <2>4, <2>6, <2>7, <2>8, AllocKeeps
    <2>10. 0 \in Int /\ i \in {i, None}
      OBVIOUS
    <2> QED
      BY <2>2, <2>9, <2>10, Zenon
  <1>5. CASE Available = {}
    <2>1. Answer(E_MAX_OPEN, None) /\ UNCHANGED tableVars
      BY <1>5 DEF serve_open
    <2> QED
      BY <2>1, <1>2 DEF E_MAX_OPEN
  <1>6. CASE Available # {}
    <2>1. \/ Answer(E_NO_MEM, None) /\ UNCHANGED tableVars
          \/ Answer(NextId(i) - IdMod, None) /\ UNCHANGED files /\ openfile_alloc(i)
          \/ Answer(IF found # {} THEN E_FILE_EXISTS ELSE E_NOT_FOUND, None) /\ UNCHANGED files /\ openfile_alloc(i)
          \/ /\ openfile_alloc(i)
             /\ IF create THEN Vacant # {} ELSE found # {} /\ ~(mode.creat /\ mode.excl)
             /\ files' = [files EXCEPT ![f] = [name |-> name, size |-> IF mode.trunc THEN 0 ELSE files[f].size]]
             /\ srv' = [srv EXCEPT !.pc = "send", !.r = 0, !.pg = i, !.file = f]
      BY <1>6 DEF serve_open
    <2>2. NextId(i) - IdMod \in Int /\ (IF found # {} THEN E_FILE_EXISTS ELSE E_NOT_FOUND) \in Int /\ E_NO_MEM \in Int
      BY <1>1, <1>6, ConstantFacts DEF E_FILE_EXISTS, E_NOT_FOUND, E_NO_MEM
    <2> QED
      BY <1>2, <1>3, <1>4, <1>6, <2>1, <2>2
  <1> QED
    BY <1>5, <1>6

LEMMA ServerKeeps ==
    ASSUME IInv, Server
    PROVE  IInv'
  BY OpenKeeps, SimpleRequestsKeep, ReadKeeps, WriteKeeps, AdvanceKeeps, RemoveKeeps, FinalAnswerKeeps, ReceiveKeeps
  DEF Server

LEMMA StutterKeeps ==
    ASSUME IInv, UNCHANGED vars
    PROVE  IInv'
  <1> USE DEF IInv, Promises, vars
  <1>1. TypeOK' /\ ClientInv' /\ IdInv' /\ NameInv'
    BY DEF TypeOK, ClientInv, IdInv, NameInv, ReqOK
  <1>2. ServerInv'
    BY DEF ServerInv, Busy, ReqOK
  <1>3. EntryKept'
    BY DEF EntryKept, pageref
  <1>4. DescriptorMeansFile' /\ SharedOffset' /\ StopsFor'
    BY DEF DescriptorMeansFile, SharedOffset, StopsFor
  <1> QED
    BY <1>1, <1>2, <1>3, <1>4

(* Every step of the clients, the server and whoever destroys a client keeps    *)
(* the invariant.                                                               *)
THEOREM ServerInvariant == Spec => []IInv
  <1>1. IInv /\ [Next]_vars => IInv'
    <2> SUFFICES ASSUME IInv, [Next]_vars PROVE IInv'
      OBVIOUS
    <2> QED
      BY ServerKeeps, StepKeeps, CallKeeps, KillKeeps, StutterKeeps DEF Next
  <1> QED
    BY InitIInv, <1>1, PTL DEF Spec

(***************************** private descriptors ****************************)
(* The second invariant, on top of IInv.  A page that fork() never shared has    *)
(* one program's mappings only, and while the server moves its offset that      *)
(* program is the one that waits for the answer: this is what keeps a seek()    *)
(* away from it.                                                                *)
OneHolder ==
    \A e1, e2 \in Env, d1, d2 \in Fdnum :
        fdtab[e1][d1] # None /\ fdtab[e1][d1] = fdtab[e2][d2] /\ ~fd[fdtab[e1][d1]].forked => e1 = e2
Serving(i) ==
    \/ srv.pc = "serve" /\ srv.req.type \in FileRequests /\ opentab[i].fileid = srv.req.fileid
    \/ srv.pc = "advance" /\ srv.o = i
AskerHolds ==
    \A e \in Env, d \in Fdnum :
        fdtab[e][d] # None /\ ~fd[fdtab[e][d]].forked /\ Serving(fdtab[e][d])
            => e = srv.whom[1] /\ gen[e] = srv.whom[2]
\* The page that open() is about to get is nobody's yet.
SentIsNew == srv.pc = "send" /\ srv.pg # None => \A e \in Env, d \in Fdnum : fdtab[e][d] # srv.pg
RacedIsForked == \A i \in Entry : fd[i].raced => fd[i].forked
PInv == OneHolder /\ AskerHolds /\ SentIsNew /\ RacedIsForked /\ refused \in Nat /\ ServerSurvives

LEMMA HeldEntry ==
    ASSUME IInv, NEW e \in Env, NEW d \in Fdnum
    PROVE  fdtab[e][d] # None => fdtab[e][d] \in Entry
  BY DEF IInv, TypeOK

LEMMA InitPInv == Init => PInv
  BY ConstantFacts
  DEF Init, PInv, OneHolder, AskerHolds, SentIsNew, RacedIsForked, ServerSurvives, Receiving, NewFd, Serving

(* Most steps give nobody a page that he had not, and start nothing for the     *)
(* server.                                                                      *)
LEMMA NoNewHolder ==
    ASSUME IInv, PInv, RacedIsForked', refused' \in Nat, ServerSurvives',
           \A e \in Env, d \in Fdnum : fdtab'[e][d] # None =>
              gen'[e] = gen[e] /\ \E d2 \in Fdnum : fdtab'[e][d] = fdtab[e][d2],
           \A i \in Entry : fd[i].forked => fd'[i].forked,
           \A i \in Entry : Serving(i)' => Serving(i) /\ srv'.whom = srv.whom,
           srv'.pc = "send" /\ srv'.pg # None => srv.pc = "send" /\ srv'.pg = srv.pg
    PROVE  PInv'
  <1>1. OneHolder'
    <2> SUFFICES ASSUME NEW e1 \in Env, NEW e2 \in Env, NEW d1 \in Fdnum, NEW d2 \in Fdnum,
                        fdtab'[e1][d1] # None, fdtab'[e1][d1] = fdtab'[e2][d2], ~fd'[fdtab'[e1][d1]].forked
                 PROVE  e1 = e2
      BY DEF OneHolder
    <2>1. PICK c1 \in Fdnum : fdtab'[e1][d1] = fdtab[e1][c1]
      OBVIOUS
    <2>2. PICK c2 \in Fdnum : fdtab'[e2][d2] = fdtab[e2][c2]
      OBVIOUS
    <2>3. fdtab[e1][c1] # None /\ fdtab[e1][c1] = fdtab[e2][c2] /\ ~fd[fdtab[e1][c1]].forked
      BY <2>1, <2>2, HeldEntry
    <2> QED
      BY <2>3 DEF PInv, OneHolder
  <1>2. AskerHolds'
    <2> SUFFICES ASSUME NEW e \in Env, NEW d \in Fdnum, NEW i, i = fdtab'[e][d],
                        i # None, ~fd'[i].forked, Serving(i)'
                 PROVE  e = srv'.whom[1] /\ gen'[e] = srv'.whom[2]
      BY Zenon DEF AskerHolds, Serving
    <2>1. PICK c \in Fdnum : i = fdtab[e][c]
      OBVIOUS
    <2>2. i \in Entry /\ ~fd[i].forked
      BY <2>1, HeldEntry
    <2>3. Serving(i) /\ srv'.whom = srv.whom /\ gen'[e] = gen[e]
      BY <2>2
    <2>4. e = srv.whom[1] /\ gen[e] = srv.whom[2]
      BY <2>1, <2>2, <2>3 DEF PInv, AskerHolds
    <2> QED
      BY <2>3, <2>4
  <1>3. SentIsNew'
    <2> SUFFICES ASSUME srv'.pc = "send", srv'.pg # None, NEW e \in Env, NEW d \in Fdnum, fdtab'[e][d] = srv'.pg
                 PROVE  FALSE
      BY DEF SentIsNew
    <2> QED
      BY DEF PInv, SentIsNew
  <1> QED
    BY <1>1, <1>2, <1>3 DEF PInv

LEMMA QuietKeepsPrivate ==
    ASSUME IInv, PInv, UNCHANGED <<gen, fdtab, opentab, fd, srv, refused, orphaned>>
    PROVE  PInv'
  <1>1. RacedIsForked' /\ refused' \in Nat /\ ServerSurvives'
    BY DEF PInv, RacedIsForked, ServerSurvives
  <1>2. \A i \in Entry : Serving(i)' => Serving(i)
    BY DEF Serving
  <1> QED
    BY <1>1, <1>2, NoNewHolder

(* Whoever seeks in the middle of a request is not the one that waits for it. *)
LEMMA SeekKeepsPrivate ==
    ASSUME IInv, PInv, NEW e \in Env, NEW d \in Fdnum, NEW n \in Offsets, seek(e, d, n)
    PROVE  PInv'
  <1> DEFINE i == fdtab[e][d]
  <1>0. i \in Entry /\ i # None
    BY HeldEntry, ConstantFacts DEF seek, fd_lookup, E_INVAL
  <1>1. /\ fd' = [fd EXCEPT ![i] = [id |-> fd[i].id, omode |-> fd[i].omode, offset |-> n, pos |-> n,
                                    raced |-> fd[i].raced \/ (srv.pc = "advance" /\ srv.o = i),
                                    forked |-> fd[i].forked]]
        /\ pc[e] = "run" /\ UNCHANGED <<gen, fdtab, srv, opentab, refused, orphaned>>
    BY <1>0 DEF seek, Calls, clientVars, histVars
  <1>2. ~(srv.pc = "advance" /\ srv.o = i /\ ~fd[i].forked)
    <2> SUFFICES ASSUME srv.pc = "advance", srv.o = i, ~fd[i].forked PROVE FALSE
      OBVIOUS
    <2>1. e = srv.whom[1] /\ gen[e] = srv.whom[2]
      BY <1>0 DEF PInv, AskerHolds, Serving
    <2>2. gen[e] \in Nat /\ Busy
      BY DEF IInv, TypeOK, Busy
    <2>3. ~orphaned
      BY <2>1, <2>2 DEF IInv, ServerInv
    <2> QED
      BY <1>1, <2>1, <2>2, <2>3 DEF IInv, ServerInv
  <1>3. \A j \in Entry : /\ fd'[j].forked = fd[j].forked
                         /\ fd'[j].raced => fd[j].raced \/ (j = i /\ srv.pc = "advance" /\ srv.o = i)
    BY <1>0, <1>1 DEF IInv, TypeOK
  <1> HIDE DEF i
  <1>4. RacedIsForked'
    BY <1>0, <1>2, <1>3 DEF PInv, RacedIsForked
  <1>5. refused' \in Nat /\ ServerSurvives' /\ \A j \in Entry : Serving(j)' => Serving(j)
    BY <1>1 DEF PInv, ServerSurvives, Serving
  <1>6. UNCHANGED <<gen, fdtab, srv>>
    BY <1>1
  <1>7. \A j \in Entry : fd[j].forked => fd'[j].forked
    BY <1>3
  <1> QED
    BY <1>4, <1>5, <1>6, <1>7, NoNewHolder

(* Who leaves has no page any more. *)
LEMMA LeaveKeepsPrivate ==
    ASSUME IInv, PInv, NEW e \in Env, Leave(e), orphaned => orphaned', UNCHANGED <<srv, fd, refused>>,
           \A i \in Entry : opentab'[i].fileid = opentab[i].fileid
    PROVE  PInv'
  <1>1. \A e1 \in Env, d1 \in Fdnum :
           fdtab'[e1][d1] # None => fdtab'[e1][d1] = fdtab[e1][d1] /\ gen'[e1] = gen[e1]
    BY DEF Leave, IInv, TypeOK
  <1>2. RacedIsForked' /\ refused' \in Nat /\ ServerSurvives' /\ \A i \in Entry : Serving(i)' => Serving(i)
    BY DEF PInv, RacedIsForked, ServerSurvives, Serving
  <1>3. srv'.whom = srv.whom /\ srv'.pc = srv.pc /\ srv'.pg = srv.pg /\ fd' = fd
    OBVIOUS
  <1>4. \A e1 \in Env, d1 \in Fdnum :
           fdtab'[e1][d1] # None => gen'[e1] = gen[e1] /\ \E d2 \in Fdnum : fdtab'[e1][d1] = fdtab[e1][d2]
    BY <1>1
  <1> HIDE DEF Leave
  <1> QED
    BY <1>2, <1>3, <1>4, NoNewHolder

LEMMA KillKeepsPrivate ==
    ASSUME IInv, PInv, NEW e \in Env, Kill(e)
    PROVE  PInv'
  <1> DEFINE n(i) == Cardinality({d \in Fdnum : fdtab[e][d] = i})
  <1>1. opentab' = [i \in Entry |-> [opentab[i] EXCEPT !.lost = @ + n(i)]]
    BY DEF Kill
  <1> HIDE DEF n
  <1>2. \A i \in Entry : opentab'[i].fileid = opentab[i].fileid
    BY <1>1 DEF IInv, TypeOK
  <1>3. Leave(e) /\ (orphaned => orphaned') /\ UNCHANGED <<srv, fd, refused>>
    BY DEF Kill
  <1> QED
    BY <1>2, <1>3, LeaveKeepsPrivate

LEMMA CloseAllKeepsPrivate ==
    ASSUME IInv, PInv, NEW e \in Env, close_all(e)
    PROVE  PInv'
  <1>1. CASE Fdnum \ Unused(e) = {}
    BY <1>1, LeaveKeepsPrivate DEF close_all, tableVars
  <1>2. CASE Fdnum \ Unused(e) # {}
    BY <1>2, QuietKeepsPrivate DEF close_all, devfile_flush, OnFile, Request, tableVars, histVars
  <1> QED
    BY <1>1, <1>2

(* What the child of fork() has from its parent is marked as shared. *)
LEMMA ForkKeepsPrivate ==
    ASSUME IInv, PInv, NEW e \in Env, NEW child \in Env, fork(e, child)
    PROVE  PInv'
  <1> DEFINE held(i) == i \in Held(e)
  <1>1. /\ fdtab' = [fdtab EXCEPT ![child] = fdtab[e]]
        /\ fd' = [i \in Entry |-> [fd[i] EXCEPT !.forked = @ \/ held(i)]]
        /\ UNCHANGED <<gen, srv, opentab, orphaned, refused>>
    BY DEF fork
  <1>2. \A d \in Fdnum : fdtab[e][d] # None => held(fdtab[e][d])
    BY DEF Held
  <1> HIDE DEF held
  <1>3. \A i \in Entry : fd'[i].forked = (fd[i].forked \/ held(i)) /\ fd'[i].raced = fd[i].raced
    BY <1>1 DEF IInv, TypeOK
  <1>4. \A e1 \in Env, d \in Fdnum : fdtab'[e1][d] = IF e1 = child THEN fdtab[e][d] ELSE fdtab[e1][d]
    BY <1>1 DEF IInv, TypeOK
  \* A page that is still private is where it was, and not the child's.
  <1>5. ASSUME NEW e1 \in Env, NEW d \in Fdnum, fdtab'[e1][d] # None, ~fd'[fdtab'[e1][d]].forked
        PROVE  e1 # child /\ fdtab'[e1][d] = fdtab[e1][d] /\ fdtab[e1][d] \in Entry /\ ~fd[fdtab[e1][d]].forked
    <2>1. fdtab'[e1][d] \in Entry
      BY <1>4, <1>5, HeldEntry
    <2>2. e1 # child
      BY <1>2, <1>3, <1>4, <1>5, <2>1
    <2> QED
      BY <1>3, <1>4, <1>5, <2>1, <2>2
  <1>6. OneHolder'
    <2> SUFFICES ASSUME NEW e1 \in Env, NEW e2 \in Env, NEW d1 \in Fdnum, NEW d2 \in Fdnum,
                        fdtab'[e1][d1] # None, fdtab'[e1][d1] = fdtab'[e2][d2], ~fd'[fdtab'[e1][d1]].forked
                 PROVE  e1 = e2
      BY DEF OneHolder
    <2>1. fdtab'[e1][d1] = fdtab[e1][d1] /\ ~fd[fdtab[e1][d1]].forked
      BY <1>5
    <2>2. fdtab'[e2][d2] = fdtab[e2][d2]
      BY <1>5, Zenon
    <2>3. fdtab[e1][d1] # None /\ fdtab[e1][d1] = fdtab[e2][d2] /\ ~fd[fdtab[e1][d1]].forked
      BY <2>1, <2>2
    <2> QED
      BY <2>3 DEF PInv, OneHolder
  <1>7. AskerHolds'
    <2> SUFFICES ASSUME NEW e1 \in Env, NEW d \in Fdnum, NEW i, i = fdtab'[e1][d],
                        i # None, ~fd'[i].forked, Serving(i)'
                 PROVE  e1 = srv'.whom[1] /\ gen'[e1] = srv'.whom[2]
      BY Zenon DEF AskerHolds, Serving
    <2>1. i = fdtab[e1][d] /\ ~fd[i].forked
      BY <1>5, Zenon
    <2>2. Serving(i)
      BY <1>1 DEF Serving
    <2>3. e1 = srv.whom[1] /\ gen[e1] = srv.whom[2]
      BY <2>1, <2>2, Zenon DEF PInv, AskerHolds
    <2> QED
      BY <1>1, <2>3
  <1>8. SentIsNew'
    BY <1>1, <1>4 DEF PInv, SentIsNew
  <1>9. RacedIsForked' /\ refused' \in Nat /\ ServerSurvives'
    BY <1>1, <1>3 DEF PInv, RacedIsForked, ServerSurvives
  <1> QED
    BY <1>6, <1>7, <1>8, <1>9 DEF PInv

LEMMA CallKeepsPrivate ==
    ASSUME IInv, PInv, NEW e \in Env, Call(e)
    PROVE  PInv'
  <1> USE DEF tableVars, histVars
  <1>1. ASSUME NEW c, NEW w, Request(e, c, w) PROVE PInv'
    BY <1>1, QuietKeepsPrivate DEF Request
  <1>2. ASSUME NEW op, NEW type, NEW d, NEW x, OnFile(e, op, type, d, x) PROVE PInv'
    BY <1>1, <1>2 DEF OnFile
  <1>3. ASSUME NEW d \in Fdnum, NEW n \in Writes, write(e, d, n) PROVE PInv'
    <2>1. CASE n <= WRITEMAX
      BY <1>2, <1>3, <2>1 DEF write, devfile_write
    <2>2. CASE ~(n <= WRITEMAX)
      BY <1>3, <2>2, QuietKeepsPrivate DEF write, devfile_write
    <2> QED
      BY <2>1, <2>2
  <1>4. ASSUME NEW d \in Fdnum, NEW d2 \in Fdnum, dup(e, d, d2) PROVE PInv'
    <2>1. CASE fd_lookup(e, d2) = 0
      BY <1>2, <1>4, <2>1 DEF dup, devfile_flush
    <2>2. CASE fd_lookup(e, d2) # 0
      BY <1>4, <2>2, QuietKeepsPrivate DEF dup
    <2> QED
      BY <2>1, <2>2
  <1>5. ASSUME NEW d \in Fdnum, close(e, d) \/ fstat(e, d) PROVE PInv'
    BY <1>2, <1>5 DEF close, fstat, devfile_flush, devfile_stat
  <1>6. ASSUME NEW d \in Fdnum, NEW n, read(e, d, n) \/ ftruncate(e, d, n) PROVE PInv'
    BY <1>2, <1>6 DEF read, ftruncate, devfile_read, devfile_trunc
  <1>7. ASSUME NEW n, remove(e, n) \/ (\E m \in Modes : open(e, n, m)) \/ sync(e) PROVE PInv'
    BY <1>1, <1>7 DEF remove, open, sync
  <1>8. exit(e) => PInv'
    BY CloseAllKeepsPrivate DEF exit
  <1> QED
    BY <1>3, <1>4, <1>5, <1>6, <1>7, <1>8, SeekKeepsPrivate, ForkKeepsPrivate DEF Call

(* The page of the descriptor that a request names is nobody else's. *)
LEMMA SendKeepsPrivate ==
    ASSUME IInv, PInv, NEW e \in Env, ipc_send(e)
    PROVE  PInv'
  <1>1. /\ pc[e] = "send" /\ srv' = [srv EXCEPT !.pc = "serve", !.whom = <<e, gen[e]>>, !.req = call[e]]
        /\ UNCHANGED <<gen, fdtab, opentab, fd, refused, orphaned>>
    BY DEF ipc_send, tableVars, boundVars, histVars
  <1>2. srv'.pc = "serve" /\ srv'.whom = <<e, gen[e]>> /\ srv'.req = call[e]
    BY <1>1 DEF IInv, TypeOK
  <1>3. AskerHolds'
    <2> SUFFICES ASSUME NEW e1 \in Env, NEW d1 \in Fdnum, NEW i, i = fdtab'[e1][d1],
                        i # None, ~fd'[i].forked, Serving(i)'
                 PROVE  e1 = srv'.whom[1] /\ gen'[e1] = srv'.whom[2]
      BY Zenon DEF AskerHolds, Serving
    <2> DEFINE d == call[e].d
               j == fdtab[e][d]
    <2>1. i = fdtab[e1][d1] /\ i \in Entry /\ ~fd[i].forked /\ call[e].type \in FileRequests
          /\ opentab[i].fileid = call[e].fileid
      BY <1>1, <1>2, HeldEntry DEF Serving
    <2>2. d \in Fdnum /\ j # None /\ call[e].fileid = fd[j].id
      BY <1>1, <2>1 DEF IInv, ClientInv, ReqOK
    <2>3. j \in Entry
      BY <2>2, HeldEntry
    <2>4. opentab[j].fileid = fd[j].id
      <3>1. Kept
        BY EntryKeptParts DEF IInv, Promises
      <3>2. opentab[j].fileid = opened[e][d].id /\ fd[j].id = opened[e][d].id
        BY <2>2, <3>1 DEF Kept
      <3> QED
        BY <3>2
    <2>5. i = j
      BY <2>1, <2>2, <2>3, <2>4 DEF IInv, IdInv
    <2>6. e1 = e
      <3>1. fdtab[e1][d1] # None /\ fdtab[e1][d1] = fdtab[e][d] /\ ~fd[fdtab[e1][d1]].forked
        BY <2>1, <2>2, <2>5
      <3> QED
        BY <2>2, <3>1 DEF PInv, OneHolder
    <2> QED
      BY <1>1, <1>2, <2>6
  <1>4. OneHolder' /\ SentIsNew' /\ RacedIsForked' /\ refused' \in Nat /\ ServerSurvives'
    <2>1. OneHolder'
      BY <1>1 DEF PInv, OneHolder
    <2>2. SentIsNew' /\ RacedIsForked' /\ refused' \in Nat /\ ServerSurvives'
      BY <1>1, <1>2 DEF PInv, SentIsNew, RacedIsForked, ServerSurvives
    <2> QED
      BY <2>1, <2>2
  <1> QED
    BY <1>3, <1>4 DEF PInv

(* close(), dup() and exit() unmap a page, and dup() maps one that its caller   *)
(* has.                                                                         *)
LEMMA OwnDescriptorKeepsPrivate ==
    ASSUME IInv, PInv, NEW e \in Env, NEW d \in Fdnum, NEW i,
           fdtab' = [fdtab EXCEPT ![e][d] = i], i = None \/ \E d2 \in Fdnum : i = fdtab[e][d2],
           UNCHANGED <<gen, opentab, fd, srv, refused, orphaned>>
    PROVE  PInv'
  <1>1. RacedIsForked' /\ refused' \in Nat /\ ServerSurvives' /\ \A j \in Entry : Serving(j)' => Serving(j)
    BY DEF PInv, RacedIsForked, ServerSurvives, Serving
  <1>2. \A e1 \in Env, d1 \in Fdnum : fdtab'[e1][d1] = IF e1 = e /\ d1 = d THEN i ELSE fdtab[e1][d1]
    BY DEF IInv, TypeOK
  <1>3. \A e1 \in Env, d1 \in Fdnum :
           fdtab'[e1][d1] # None => gen'[e1] = gen[e1] /\ \E d2 \in Fdnum : fdtab'[e1][d1] = fdtab[e1][d2]
    BY <1>2
  <1> QED
    BY <1>1, <1>3, NoNewHolder

LEMMA StepKeepsPrivate ==
    ASSUME IInv, PInv, NEW e \in Env, Step(e)
    PROVE  PInv'
  <1> USE DEF tableVars, boundVars, histVars
  <1>1. CASE ipc_recv(e)
    BY <1>1, QuietKeepsPrivate DEF ipc_recv
  <1>2. CASE Return(e)
    <2>1. UNCHANGED <<gen, opentab, fd, srv, refused, orphaned>>
      BY <1>2 DEF Return
    <2>2. CASE call[e].op \in {"close", "dup", "exit"}
      <3>1. call[e].d \in Fdnum
        BY <1>2, <2>2 DEF Return, IInv, ClientInv, ReqOK, FileRequests
      <3>2. fdtab' = [fdtab EXCEPT ![e][call[e].d] = None]
        BY <1>2, <2>2 DEF Return
      <3> QED
        BY <2>1, <3>1, <3>2, OwnDescriptorKeepsPrivate
    <2>3. CASE call[e].op \notin {"close", "dup", "exit"}
      BY <1>2, <2>1, <2>3, QuietKeepsPrivate DEF Return
    <2> QED
      BY <2>2, <2>3
  <1>3. CASE dup_map(e)
    <2>1. call[e].d \in Fdnum /\ call[e].x \in Fdnum
      BY <1>3 DEF dup_map, IInv, ClientInv
    <2>2. fdtab' = [fdtab EXCEPT ![e][call[e].d] = fdtab[e][call[e].x]]
          /\ UNCHANGED <<gen, opentab, fd, srv, refused, orphaned>>
      BY <1>3 DEF dup_map
    <2> QED
      BY <2>1, <2>2, OwnDescriptorKeepsPrivate
  <1>4. CASE exit_next(e)
    BY <1>4, CloseAllKeepsPrivate DEF exit_next
  <1> QED
    BY <1>1, <1>2, <1>3, <1>4, SendKeepsPrivate DEF Step

(* The server's steps that send no page. *)
LEMMA ServesKeepsPrivate ==
    ASSUME IInv, PInv, UNCHANGED <<gen, fdtab, opentab, orphaned>>, refused' \in Nat,
           srv'.pc \notin {"serve", "advance", "panic"}, srv'.pc = "send" => srv'.pg = None,
           \A i \in Entry : fd'[i].forked = fd[i].forked /\ fd'[i].raced = fd[i].raced
    PROVE  PInv'
  <1>1. RacedIsForked' /\ ServerSurvives'
    BY DEF PInv, RacedIsForked, ServerSurvives
  <1>2. \A i \in Entry : ~Serving(i)'
    BY DEF Serving
  <1>3. \A e1 \in Env, d1 \in Fdnum :
           fdtab'[e1][d1] # None => gen'[e1] = gen[e1] /\ \E d2 \in Fdnum : fdtab'[e1][d1] = fdtab[e1][d2]
    OBVIOUS
  <1> QED
    BY <1>1, <1>2, <1>3, NoNewHolder

LEMMA AnswerKeepsPrivate ==
    ASSUME IInv, PInv, NEW r, Answer(r, None), UNCHANGED <<gen, fdtab, opentab, fd, orphaned>>, refused' \in Nat
    PROVE  PInv'
  <1>1. srv'.pc = "send" /\ srv'.pg = None
    BY DEF Answer, IInv, TypeOK
  <1> QED
    BY <1>1, ServesKeepsPrivate

LEMMA TransferKeepsPrivate ==
    ASSUME IInv, PInv, srv.pc = "serve", srv.req.type \in FileRequests, Lookup = 0, NEW n, Transfer(n)
    PROVE  PInv'
  <1> DEFINE i == srv.req.fileid % MAXOPEN
  <1>1. i \in Entry /\ Serving(i)
    BY RequestedEntry DEF Lookup, openfile_lookup, Serving, E_INVAL
  <1>2. /\ fd' = [fd EXCEPT ![i].pos = @ + n]
        /\ srv' = [srv EXCEPT !.pc = "advance", !.o = i, !.r = n]
        /\ UNCHANGED <<gen, fdtab, opentab, orphaned, refused>>
    BY DEF Transfer, clientVars, boundVars, histVars
  <1> HIDE DEF i
  <1>3. srv'.pc = "advance" /\ srv'.o = i /\ srv'.whom = srv.whom
    BY <1>2 DEF IInv, TypeOK
  <1>4. \A j \in Entry : fd'[j].forked = fd[j].forked /\ fd'[j].raced = fd[j].raced
    BY <1>1, <1>2 DEF IInv, TypeOK
  <1>5. \A j \in Entry : Serving(j)' => Serving(j) /\ srv'.whom = srv.whom
    BY <1>1, <1>3 DEF Serving
  <1>6. RacedIsForked' /\ refused' \in Nat /\ ServerSurvives'
    BY <1>2, <1>3, <1>4 DEF PInv, RacedIsForked, ServerSurvives
  <1>7. \A e1 \in Env, d1 \in Fdnum :
           fdtab'[e1][d1] # None => gen'[e1] = gen[e1] /\ \E d2 \in Fdnum : fdtab'[e1][d1] = fdtab[e1][d2]
    BY <1>2
  <1>8. (srv'.pc = "send" => FALSE) /\ \A j \in Entry : fd[j].forked => fd'[j].forked
    BY <1>3, <1>4
  <1> QED
    BY <1>5, <1>6, <1>7, <1>8, NoNewHolder

(* open() takes an entry that nobody has. *)
LEMMA AllocKeepsPrivate ==
    ASSUME IInv, PInv, NEW i \in Available, openfile_alloc(i), UNCHANGED <<gen, fdtab, orphaned>>, refused' \in Nat,
           srv'.pc = "send", srv'.pg \in {i, None}
    PROVE  PInv'
  <1>1. i \in Entry /\ i # None
    BY ConstantFacts DEF Available
  <1>2. \A j \in Entry \ {i} : fd'[j] = fd[j]
    BY <1>1 DEF openfile_alloc, IInv, TypeOK
  <1>3. fd'[i].raced = FALSE
    BY <1>1 DEF openfile_alloc, NewFd, IInv, TypeOK
  <1>4. ASSUME NEW e \in Env, NEW d \in Fdnum PROVE fdtab[e][d] # i
    <2>1. fdtab[e][d] # None => opentab[fdtab[e][d]].mapped
      BY EntryKeptParts DEF IInv, Promises, Kept
    <2>2. opentab[i].lost \in Nat
      BY <1>1 DEF IInv, TypeOK
    <2> QED
      BY <1>1, <2>1, <2>2, AvailableMeansUnheld
  <1> HIDE DEF openfile_alloc
  <1>5. \A e \in Env, d \in Fdnum : fdtab[e][d] # None => fd'[fdtab[e][d]] = fd[fdtab[e][d]]
    BY <1>2, <1>4, HeldEntry
  <1>6. OneHolder'
    BY <1>5 DEF PInv, OneHolder
  <1>7. AskerHolds' /\ ServerSurvives'
    BY DEF AskerHolds, Serving, ServerSurvives
  <1>8. SentIsNew'
    BY <1>4 DEF SentIsNew
  <1>9. RacedIsForked'
    BY <1>2, <1>3 DEF PInv, RacedIsForked
  <1> QED
    BY <1>6, <1>7, <1>8, <1>9 DEF PInv

LEMMA OpenKeepsPrivate ==
    ASSUME IInv, PInv, serve_open
    PROVE  PInv'
  <1> DEFINE i == Min(Available)
             n == NextId(i)
  <1>1. UNCHANGED <<gen, fdtab, orphaned>> /\ refused' \in Nat
    BY DEF serve_open, clientVars, histVars, PInv
  <1>2. \/ \E r : Answer(r, None) /\ UNCHANGED tableVars
        \/ Available # {} /\ openfile_alloc(i) /\ \E r : Answer(r, None)
        \/ /\ Available # {} /\ openfile_alloc(i)
           /\ \E f : srv' = [srv EXCEPT !.pc = "send", !.r = 0, !.pg = i, !.file = f]
    <2> HIDE DEF i
    <2> QED
      BY DEF serve_open, i
  <1>3. CASE \E r : Answer(r, None) /\ UNCHANGED tableVars
    BY <1>1, <1>3, AnswerKeepsPrivate DEF tableVars
  <1>4. ASSUME Available # {}, openfile_alloc(i), srv'.pc = "send", srv'.pg \in {i, None}
        PROVE  PInv'
    <2>1. i \in Available
      BY <1>4, MinIsMember, ConstantFacts DEF Available
    <2> HIDE DEF i
    <2> QED
      BY <1>1, <1>4, <2>1, AllocKeepsPrivate
  <1>5. ASSUME NEW r, Answer(r, None) PROVE srv'.pc = "send" /\ srv'.pg = None
    BY <1>5 DEF Answer, IInv, TypeOK
  <1>6. ASSUME NEW f, srv' = [srv EXCEPT !.pc = "send", !.r = 0, !.pg = i, !.file = f]
        PROVE  srv'.pc = "send" /\ srv'.pg = i
    <2> HIDE DEF i
    <2> QED
      BY <1>6 DEF IInv, TypeOK
  <1> HIDE DEF i
  <1> QED
    BY <1>2, <1>3, <1>4, <1>5, <1>6

(* Only the client that asked gets the page. *)
LEMMA FinalAnswerKeepsPrivate ==
    ASSUME IInv, PInv, answer
    PROVE  PInv'
  <1> DEFINE e == srv.whom[1]
             exists == pc[e] # "free" /\ gen[e] = srv.whom[2]
  <1>0. e \in Env /\ srv.pc = "send" /\ UNCHANGED <<gen, opentab, fd, orphaned>>
    BY DEF answer, tableVars, IInv, TypeOK
  <1>1. ASSUME srv' = [srv EXCEPT !.pc = "again"], Deliver(e), UNCHANGED refused
        PROVE  PInv'
    <2>1. srv'.pc = "again" /\ refused' \in Nat
      BY <1>1 DEF PInv, IInv, TypeOK
    <2>2. AskerHolds' /\ SentIsNew' /\ ServerSurvives'
      BY <2>1 DEF AskerHolds, SentIsNew, ServerSurvives, Serving
    <2>3. RacedIsForked'
      BY <1>0 DEF PInv, RacedIsForked
    <2>4. OneHolder'
      <3>1. CASE srv.pg = None
        BY <1>0, <1>1, <3>1 DEF Deliver, PInv, OneHolder
      <3>2. CASE srv.pg # None
        <4> DEFINE i == srv.pg
                   d == call[e].d
        <4>1. fdtab' = [fdtab EXCEPT ![e][d] = i]
          BY <1>1, <3>2 DEF Deliver
        <4>2. \A e1 \in Env, d1 \in Fdnum :
                 fdtab'[e1][d1] = fdtab[e1][d1] \/ (e1 = e /\ fdtab'[e1][d1] = i)
          BY <4>1 DEF IInv, TypeOK
        <4>3. \A e1 \in Env, d1 \in Fdnum : fdtab[e1][d1] # i
          BY <1>0, <3>2 DEF PInv, SentIsNew
        <4> HIDE DEF i, d, e
        <4> SUFFICES ASSUME NEW e1 \in Env, NEW e2 \in Env, NEW d1 \in Fdnum, NEW d2 \in Fdnum,
                            fdtab'[e1][d1] # None, fdtab'[e1][d1] = fdtab'[e2][d2], ~fd[fdtab'[e1][d1]].forked
                     PROVE  e1 = e2
          BY <1>0 DEF OneHolder
        <4>4. CASE fdtab'[e1][d1] = i
          BY <4>2, <4>3, <4>4
        <4>5. CASE fdtab'[e1][d1] # i
          <5>1. fdtab[e1][d1] # None /\ fdtab[e1][d1] = fdtab[e2][d2] /\ ~fd[fdtab[e1][d1]].forked
            BY <4>2, <4>5
          <5> QED
            BY <5>1 DEF PInv, OneHolder
        <4> QED
          BY <4>4, <4>5
      <3> QED
        BY <3>1, <3>2
    <2> QED
      BY <2>1, <2>2, <2>3, <2>4 DEF PInv
  <1>2. ASSUME srv' = [srv EXCEPT !.pc = "panic"], UNCHANGED fdtab, refused' \in Nat,
               orphaned \/ (srv.pg # None /\ refused' > 0)
        PROVE  PInv'
    <2>1. srv'.pc = "panic" /\ srv'.req = srv.req /\ srv'.pg = srv.pg
      BY <1>2 DEF IInv, TypeOK
    <2>2. srv.pg # None => srv.req.type = "open"
      BY <1>0 DEF IInv, ServerInv
    <2>3. AskerHolds' /\ SentIsNew' /\ ServerSurvives'
      BY <1>0, <1>2, <2>1, <2>2 DEF AskerHolds, SentIsNew, ServerSurvives, Serving
    <2>4. OneHolder' /\ RacedIsForked'
      BY <1>0, <1>2 DEF PInv, OneHolder, RacedIsForked
    <2> QED
      BY <1>2, <2>3, <2>4 DEF PInv
  <1>3. exists \/ orphaned
    BY <1>0 DEF IInv, ServerInv, Busy
  <1>4. refused \in Nat
    BY DEF PInv
  <1>5. \/ srv' = [srv EXCEPT !.pc = "again"] /\ Deliver(e) /\ UNCHANGED refused
        \/ /\ ~exists
           /\ srv' = [srv EXCEPT !.pc = "panic"] /\ UNCHANGED <<fdtab, refused>>
        \/ /\ srv.pg # None /\ refused' = refused + 1
           /\ srv' = [srv EXCEPT !.pc = "panic"] /\ UNCHANGED fdtab
    BY DEF answer
  <1> QED
    BY <1>1, <1>2, <1>3, <1>4, <1>5

LEMMA ServerKeepsPrivate ==
    ASSUME IInv, PInv, Server
    PROVE  PInv'
  <1> USE DEF tableVars, boundVars, histVars, clientVars, Serves, FileRequests
  <1>0. refused \in Nat
    BY DEF PInv
  <1>1. CASE serve_set_size \/ serve_stat \/ serve_flush \/ serve_sync \/ serve_remove
    BY <1>0, <1>1, AnswerKeepsPrivate DEF Reply, serve_set_size, serve_stat, serve_flush, serve_sync, serve_remove
  <1>l. Lookup = 0 \/ Lookup < 0
    BY DEF Lookup, openfile_lookup, E_INVAL
  <1>2. CASE serve_read
    <2>1. CASE Lookup < 0
      BY <1>0, <1>2, <2>1, AnswerKeepsPrivate DEF serve_read, Reply
    <2> QED
      BY <1>2, <1>l, <2>1, TransferKeepsPrivate DEF serve_read
  <1>3. CASE serve_write
    <2>1. CASE Lookup < 0
      BY <1>0, <1>3, <2>1, AnswerKeepsPrivate DEF serve_write, Reply
    <2> QED
      BY <1>0, <1>3, <1>l, <2>1, AnswerKeepsPrivate, TransferKeepsPrivate DEF serve_write
  <1>4. CASE advance
    <2>1. srv'.pc = "send" /\ srv'.pg = None
      BY <1>4 DEF advance, Answer, IInv, TypeOK
    <2>2. \A i \in Entry : fd'[i].forked = fd[i].forked /\ fd'[i].raced = fd[i].raced
      BY <1>4 DEF advance, IInv, TypeOK
    <2>3. UNCHANGED <<gen, fdtab, opentab, orphaned, refused>>
      BY <1>4 DEF advance
    <2> QED
      BY <1>0, <2>1, <2>2, <2>3, ServesKeepsPrivate
  <1>5. CASE serve
    <2>1. srv'.pc = "recv" /\ UNCHANGED <<gen, fdtab, opentab, fd, orphaned, refused>>
      BY <1>5 DEF serve, Receiving
    <2> QED
      BY <1>0, <2>1, ServesKeepsPrivate
  <1> QED
    BY <1>1, <1>2, <1>3, <1>4, <1>5, OpenKeepsPrivate, FinalAnswerKeepsPrivate DEF Server

THEOREM PrivateInvariant == Spec => [](IInv /\ PInv)
  <1>1. IInv /\ PInv /\ [Next]_vars => PInv'
    <2> SUFFICES ASSUME IInv, PInv, [Next]_vars PROVE PInv'
      OBVIOUS
    <2>1. CASE UNCHANGED vars
      BY <2>1, QuietKeepsPrivate DEF vars
    <2> QED
      BY <2>1, ServerKeepsPrivate, StepKeepsPrivate, CallKeepsPrivate, KillKeepsPrivate DEF Next
  <1> QED
    BY InitPInv, ServerInvariant, <1>1, PTL DEF Spec

(* EntryKept for any number of clients, entries and file ids: an entry of       *)
(* opentab that somebody has open is not given away, although openfile_alloc()  *)
(* knows only pp_ref and file ids wrap around.                                  *)
THEOREM EntriesAreKept == Spec => []EntryKept
  <1>1. IInv => EntryKept
    BY DEF IInv, Promises
  <1> QED
    BY <1>1, ServerInvariant, PTL

(* DescriptorMeansFile: what is read and written through a descriptor is the    *)
(* file that was named in open(); where a file was removed while it was open,   *)
(* its struct File may be another file's by now (unlinked).                     *)
THEOREM DescriptorsMeanFiles == Spec => []DescriptorMeansFile
  <1>1. IInv => DescriptorMeansFile
    BY DEF IInv, Promises
  <1> QED
    BY <1>1, ServerInvariant, PTL

(* PrivateOffset: serve_read(), serve_write() and seek() agree on fd_offset at   *)
(* every moment of a request, unless fork() gave the descriptor to two programs *)
(* and one of them called seek() between a transfer and its update.             *)
THEOREM OffsetsArePrivate == Spec => []PrivateOffset
  <1>1. IInv /\ PInv => PrivateOffset
    BY DEF IInv, Promises, SharedOffset, PInv, RacedIsForked, PrivateOffset
  <1> QED
    BY <1>1, PrivateInvariant, PTL

(* ServerSurvives: serve() panics in ipc_send() only when a client died before  *)
(* it was answered, or when sys_page_alloc() or page_insert() had found no      *)
(* memory and a descriptor page was to be sent.                                 *)
THEOREM WhenTheServerStops == Spec => []ServerSurvives
  <1>1. PInv => ServerSurvives
    BY DEF PInv
  <1> QED
    BY <1>1, PrivateInvariant, PTL

===============================================================================
