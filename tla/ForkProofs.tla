------------------------------ MODULE ForkProofs ------------------------------
(*****************************************************************************)
(* Theorems about Fork: what a program finds in its memory, and which of its  *)
(* pages a child is left without.                                            *)
(* For any number of environments, pages and words.                           *)
(*****************************************************************************)
EXTENDS Fork, FiniteSetTheorems, SequenceTheorems, TLAPS

(*****************************************************************************)
(* The invariant.                                                            *)
(*****************************************************************************)
Stack == {"stack", "temp", "memmove", "untemp", "set upcall", "set status"}
InFork == {"scan", "dup child", "dup self", "uxstack"} \cup Stack

FamilyInv ==
    /\ \A e \in Env : env_status[e] = "FREE" =>
          pt[e] = NoPages /\ utf[e] = <<>> /\ child[e] = e /\ pc[e] = "run" /\ handler[e] = None
    /\ \A e \in Env : env_status[e] = "NOT_RUNNABLE" =>
          utf[e] = <<>> /\ child[e] = e /\ pc[e] = "child" /\ handler[e] = None
    /\ \A e \in Env : (child[e] # e) <=> (pc[e] \in InFork)
    /\ \A e \in Env : child[e] # e => env_status[child[e]] = "NOT_RUNNABLE"
    /\ \A e, f \in Env : child[e] # e /\ child[f] # f /\ child[e] = child[f] => e = f

FrameOf(e) ==
    /\ handler[e] = "alloc" => pc[e] = "run"
    /\ \A i \in DOMAIN utf[e] :
          /\ ~pt[e][utf[e][i].va].share
          /\ utf[e][i].at = "print" => handler[e] = "alloc"
          /\ utf[e][i].at \in {"copy", "map", "unmap"} => handler[e] # "alloc"
          /\ i < Len(utf[e]) => utf[e][i].at \in {"copy", "print", "lost"}
FrameInv == \A e \in Env : FrameOf(e)

TempOf(e) ==
    /\ pt[e][PFTEMP] = Absent \/ pt[e][PFTEMP].w
    /\ utf[e] = <<>> /\ handler[e] # "alloc" /\ pt[e][PFTEMP] # Absent =>
          pc[e] \in {"memmove", "untemp"} /\ pt[e][PFTEMP].page = pt[child[e]][USTACK].page
TempInv == \A e \in Env : TempOf(e)

DupOf(e) ==
    /\ pc[e] \in InFork => addr[e] <= USTACK
    /\ pc[e] \in {"dup child", "dup self", "memmove", "untemp"} => Present(pt[e][UTEXT]) /\ pt[e][USTACK].w
    /\ pc[e] \in {"dup child", "dup self"} =>
          /\ utf[e] = <<>>
          /\ addr[e] \in VA /\ UTEXT <= addr[e] /\ Present(pt[e][addr[e]])
          /\ perm[e] = pt[e][addr[e]]
    /\ pc[e] = "dup self" => Splits(perm[e])
DupInv == \A e \in Env : DupOf(e)

ShareInv ==
    /\ \A e \in Env, va \in VA : pt[e][va].share => pt[e][va].w
    /\ \A e \in Env, va \in {0, USTACK, DATA, PFTEMP} : ~pt[e][va].share
    /\ \A e, f \in Env, va, vb \in VA :
          pt[e][va].share /\ pt[f][vb].page = pt[e][va].page => va = vb /\ pt[f][vb].share
    /\ \A e, f \in Env, va \in VA :
          pt[e][va].share /\ pt[f][va].share => pt[f][va].page = pt[e][va].page

Fixing(e, va, vb) ==
    /\ utf[e] # <<>> /\ Top(e).at = "unmap"
    /\ {va, vb} = {PFTEMP, Top(e).va}
Lending(e, va, f, vb) ==
    utf[e] = <<>> /\ pc[e] \in {"memmove", "untemp"} /\ va = PFTEMP /\ f = child[e] /\ vb = USTACK
Splitting(e, va, f, vb) == pc[e] = "dup self" /\ f = child[e] /\ va = addr[e] /\ vb = va /\ ~pt[f][vb].w

Excused(e, va, f, vb) ==
    \/ e = f /\ Fixing(e, va, vb)
    \/ Lending(e, va, f, vb) \/ Lending(f, vb, e, va)
    \/ Splitting(e, va, f, vb)

Private(e, va) == pt[e][va].w /\ ~pt[e][va].share
OwnerInv ==
    \A e, f \in Env, va, vb \in VA :
        Private(e, va) /\ pt[f][vb].page = pt[e][va].page /\ (e # f \/ va # vb) => Excused(e, va, f, vb)

CopyOf(e) ==
    (utf[e] # <<>> /\ Top(e).at = "map" /\ pt[e][PFTEMP] # Absent /\ Top(e).va # PFTEMP) =>
        mem[pt[e][PFTEMP].page] = word[e][Top(e).va]
CopyInv == \A e \in Env : CopyOf(e)

ReadyOf(e) ==
    (pc[e] \in {"untemp", "set upcall", "set status"} /\ Present(pt[child[e]][USTACK])) =>
        mem[pt[child[e]][USTACK].page] = word[child[e]][USTACK]
ReadyInv == \A e \in Env : ReadyOf(e)

MemOf(e) ==
    \A va \in VA \ {PFTEMP} : (Present(pt[e][va]) /\ env_status[e] # "FREE")
        => \/ pt[e][va].share /\ mem[pt[e][va].page] = shared[va]
           \/ ~pt[e][va].share /\ mem[pt[e][va].page] = word[e][va]
           \/ env_status[e] = "NOT_RUNNABLE" /\ va = USTACK

IInv == TypeOK /\ FamilyInv /\ FrameInv /\ TempInv /\ DupInv /\ ShareInv /\ OwnerInv
        /\ CopyInv /\ ReadyInv /\ MemoryIsPrivate

-------------------------------------------------------------------------------
(*****************************************************************************)
(* Lemmas.                                                                   *)
(*****************************************************************************)
LEMMA LeastPage ==
    ASSUME NEW S \in SUBSET Nat, S # {}
    PROVE  \E m \in S : \A k \in S : m <= k
  <1> DEFINE R == OpToRel(<, Nat)
  <1>1. IsWellFoundedOn(R, Nat)
    BY NatLessThanWellFounded
  <1>2. PICK m \in S : \A k \in S : ~(<<k, m>> \in R)
    <2> HIDE DEF R
    <2> QED  BY <1>1, WFMin
  <1>3. \A k \in S : ~(k < m)
    BY <1>2 DEF OpToRel
  <1> QED  BY <1>3

\* Where memlayout.h puts the pages.
LEMMA Addresses ==
    /\ {0, PFTEMP, UTEXT, DATA, USTACK, UXSTACK} \subseteq VA /\ VA \subseteq Nat
    /\ PFTEMP \in VA /\ UTEXT \in VA /\ DATA \in VA /\ USTACK \in VA /\ UXSTACK \in VA /\ 0 \in VA
    /\ PFTEMP # UTEXT /\ PFTEMP # USTACK /\ PFTEMP # UXSTACK
    /\ UTEXT # USTACK /\ UTEXT # UXSTACK /\ USTACK # UXSTACK
  <1>1. {0, PFTEMP, UTEXT, DATA, USTACK, UXSTACK} \subseteq VA /\ VA \subseteq Nat
    BY ForkAssumption
  <1>2. PFTEMP < UTEXT /\ UTEXT < USTACK /\ USTACK < UXSTACK
    BY ForkAssumption
  <1>3. PFTEMP \in VA /\ UTEXT \in VA /\ DATA \in VA /\ USTACK \in VA /\ UXSTACK \in VA /\ 0 \in VA
    BY <1>1
  <1>4. PFTEMP \in Nat /\ UTEXT \in Nat /\ USTACK \in Nat /\ UXSTACK \in Nat
    BY <1>1
  <1>5. /\ PFTEMP # UTEXT /\ PFTEMP # USTACK /\ PFTEMP # UXSTACK
        /\ UTEXT # USTACK /\ UTEXT # UXSTACK /\ USTACK # UXSTACK
    BY <1>2, <1>4
  <1> QED  BY <1>1, <1>3, <1>5

\* page_alloc() returns a page that nobody has mapped.
LEMMA Allocated ==
    ASSUME FreePages # {}
    PROVE  /\ page_alloc \in Page /\ page_alloc # 0
           /\ \A e \in Env, va \in VA : pt[e][va].page # page_alloc
  <1>1. FreePages \in SUBSET Nat /\ 0 \notin FreePages
    BY ForkAssumption DEF FreePages
  <1>2. \E m \in FreePages : \A k \in FreePages : m <= k
    <2> HIDE DEF FreePages
    <2> QED  BY <1>1, LeastPage
  <1>3. page_alloc \in FreePages
    BY <1>2 DEF page_alloc
  <1> QED  BY <1>1, <1>3 DEF FreePages, Mapped

\* The stack of user trap frames: what the four operations on it do.
LEMMA FrameStack ==
    ASSUME NEW s \in Seq(Frames)
    PROVE  /\ Len(s) \in Nat /\ DOMAIN s = 1..Len(s) /\ \A i \in 1..Len(s) : s[i] \in Frames
           /\ s = <<>> <=> Len(s) = 0
  OBVIOUS

LEMMA FramePushed ==
    ASSUME NEW s \in Seq(Frames), NEW x \in Frames, NEW t, t = Append(s, x)
    PROVE  /\ t \in Seq(Frames) /\ t # <<>> /\ Len(t) = Len(s) + 1 /\ t[Len(t)] = x
           /\ \A i \in 1..Len(s) : t[i] = s[i]
  OBVIOUS

LEMMA FunctionIsFrames ==
    ASSUME NEW n \in Nat, NEW t \in [1..n -> Frames]
    PROVE  t \in Seq(Frames) /\ Len(t) = n /\ DOMAIN t = 1..n
  OBVIOUS

LEMMA FrameReplaced ==
    ASSUME NEW s \in Seq(Frames), s # <<>>, NEW x \in Frames, NEW t, t = [s EXCEPT ![Len(s)] = x]
    PROVE  /\ t \in Seq(Frames) /\ t # <<>> /\ Len(t) = Len(s) /\ t[Len(t)] = x
           /\ \A i \in 1..(Len(s) - 1) : t[i] = s[i]
  <1> DEFINE n == Len(s)
  <1>1. n \in Nat /\ n # 0 /\ s \in [1..n -> Frames]
    OBVIOUS
  <1>2. t \in [1..n -> Frames] /\ t[n] = x /\ \A i \in 1..(n - 1) : t[i] = s[i]
    <2> HIDE DEF n
    <2>1. t = [s EXCEPT ![n] = x]
      BY DEF n
    <2> QED  BY <1>1, <2>1
  <1>3. t \in Seq(Frames) /\ Len(t) = n
    <2> HIDE DEF n
    <2> QED  BY <1>1, <1>2, FunctionIsFrames
  <1> QED  BY <1>1, <1>2, <1>3

LEMMA FramePopped ==
    ASSUME NEW s \in Seq(Frames), s # <<>>, NEW b, b = SubSeq(s, 1, Len(s) - 1)
    PROVE  /\ b \in Seq(Frames) /\ Len(b) = Len(s) - 1
           /\ \A i \in 1..(Len(s) - 1) : b[i] = s[i]
  <1> DEFINE n == Len(s)
             m == n - 1
  <1>1. n \in Nat /\ n # 0 /\ m \in Nat /\ 1 \in Int /\ m = n - 1 /\ \A i \in 1..m : s[i] \in Frames
    OBVIOUS
  <1> HIDE DEF m, n
  <1>2. /\ SubSeq(s, 1, m) \in Seq(Frames)
        /\ Len(SubSeq(s, 1, m)) = IF 1 <= m THEN m - 1 + 1 ELSE 0
        /\ \A i \in 1..(m - 1 + 1) : SubSeq(s, 1, m)[i] = s[1 + i - 1]
    BY <1>1, SubSeqProperties
  <1>3. b = SubSeq(s, 1, m)
    BY DEF m, n
  <1>4. m - 1 + 1 = m /\ \A i \in 1..m : 1 + i - 1 = i
    BY <1>1
  <1>5. Len(b) = m
    BY <1>1, <1>2, <1>3
  <1>6. \A i \in 1..m : b[i] = s[i]
    BY <1>2, <1>3, <1>4
  <1> QED  BY <1>2, <1>3, <1>5, <1>6 DEF m, n

LEMMA Pushing ==
    ASSUME TypeOK, NEW e \in Env, NEW x \in Frames, utf' = [utf EXCEPT ![e] = Append(@, x)]
    PROVE  /\ utf' \in [Env -> Seq(Frames)] /\ \A f \in Env : f # e => utf'[f] = utf[f]
           /\ utf'[e] # <<>> /\ Top(e)' = x /\ Len(utf'[e]) = Len(utf[e]) + 1
           /\ \A i \in 1..Len(utf[e]) : utf'[e][i] = utf[e][i]
  <1>1. utf \in [Env -> Seq(Frames)] /\ utf[e] \in Seq(Frames)
    BY DEF TypeOK
  <1>2. utf'[e] = Append(utf[e], x) /\ \A f \in Env : f # e => utf'[f] = utf[f]
    BY <1>1
  <1>3. utf'[e] \in Seq(Frames) /\ utf'[e] # <<>> /\ Len(utf'[e]) = Len(utf[e]) + 1 /\ Top(e)' = x
        /\ \A i \in 1..Len(utf[e]) : utf'[e][i] = utf[e][i]
    BY <1>1, <1>2, FramePushed DEF Top
  <1> QED  BY <1>1, <1>2, <1>3

LEMMA Going ==
    ASSUME TypeOK, NEW e \in Env, utf[e] # <<>>,
           NEW place \in {"enter", "copy", "map", "unmap", "print", "lost"}, Goto(e, place)
    PROVE  /\ utf' \in [Env -> Seq(Frames)] /\ \A f \in Env : f # e => utf'[f] = utf[f]
           /\ utf'[e] # <<>> /\ Top(e)'.va = Top(e).va /\ Top(e)'.at = place /\ Len(utf'[e]) = Len(utf[e])
           /\ \A i \in 1..(Len(utf[e]) - 1) : utf'[e][i] = utf[e][i]
  <1> DEFINE x == Frame(Top(e).va, Top(e).wr, place)
  <1>1. utf \in [Env -> Seq(Frames)] /\ utf[e] \in Seq(Frames)
    BY DEF TypeOK
  <1>2. Top(e) \in Frames
    BY <1>1, FrameStack DEF Top
  <1>3. x \in Frames /\ x.va = Top(e).va /\ x.at = place
    BY <1>2 DEF Frame, Frames
  <1>4. utf'[e] = [utf[e] EXCEPT ![Len(utf[e])] = x] /\ \A f \in Env : f # e => utf'[f] = utf[f]
    BY <1>1 DEF Goto
  <1> HIDE DEF x
  <1>5. utf'[e] \in Seq(Frames) /\ utf'[e] # <<>> /\ Len(utf'[e]) = Len(utf[e]) /\ Top(e)' = x
        /\ \A i \in 1..(Len(utf[e]) - 1) : utf'[e][i] = utf[e][i]
    BY <1>1, <1>3, <1>4, FrameReplaced DEF Top
  <1>6. utf' \in [Env -> Seq(Frames)]
    BY <1>1, <1>4, <1>5 DEF Goto
  <1> QED  BY <1>3, <1>4, <1>5, <1>6

LEMMA Resuming ==
    ASSUME TypeOK, NEW e \in Env, utf[e] # <<>>, Resume(e)
    PROVE  /\ utf' \in [Env -> Seq(Frames)] /\ \A f \in Env : f # e => utf'[f] = utf[f]
           /\ Len(utf'[e]) = Len(utf[e]) - 1
           /\ \A i \in 1..(Len(utf[e]) - 1) : /\ utf'[e][i].va = utf[e][i].va
                                              /\ utf'[e][i].at \in {utf[e][i].at, "lost"}
  <1> DEFINE s == utf[e]
             n == Len(s)
             b == SubSeq(s, 1, n - 1)
             x == Frame(b[n - 1].va, b[n - 1].wr, "lost")
             c == [b EXCEPT ![n - 1] = x]
  <1>1. utf \in [Env -> Seq(Frames)] /\ s \in Seq(Frames) /\ s # <<>>
    BY DEF TypeOK
  <1>2. n \in Nat /\ n # 0
    BY <1>1, FrameStack
  <1>3. utf'[e] = b \/ (n # 1 /\ utf'[e] = c)
    BY <1>1 DEF Resume
  <1>4. \A f \in Env : f # e => utf'[f] = utf[f]
    BY <1>1 DEF Resume
  <1>5. b \in Seq(Frames) /\ Len(b) = n - 1 /\ \A i \in 1..(n - 1) : b[i] = s[i]
    <2>1. b = SubSeq(s, 1, Len(s) - 1)
      OBVIOUS
    <2> HIDE DEF b, s
    <2> QED  BY <1>1, <2>1, FramePopped DEF n
  <1>6. CASE utf'[e] = b
    <2> HIDE DEF b, n
    <2>1. utf' \in [Env -> Seq(Frames)]
      BY <1>1, <1>5, <1>6 DEF Resume
    <2> QED  BY <1>4, <1>5, <1>6, <2>1 DEF n
  <1>7. CASE n # 1 /\ utf'[e] = c
    <2> HIDE DEF b, n
    <2>1. n - 1 \in 1..(n - 1) /\ n - 1 = Len(b) /\ b # <<>>
      BY <1>2, <1>5, <1>7
    <2>2. b[n - 1] \in Frames
      BY <1>5, <2>1, FrameStack
    <2>3. x \in Frames /\ x.va = b[n - 1].va /\ x.at = "lost"
      BY <2>2 DEF Frame, Frames
    <2> HIDE DEF x
    <2>4. c \in Seq(Frames) /\ Len(c) = n - 1 /\ c[n - 1] = x /\ \A i \in 1..(n - 2) : c[i] = b[i]
      <3>1. c = [b EXCEPT ![Len(b)] = x]
        BY <2>1
      <3> HIDE DEF c
      <3>2. c \in Seq(Frames) /\ Len(c) = Len(b) /\ c[Len(c)] = x /\ \A i \in 1..(Len(b) - 1) : c[i] = b[i]
        BY <1>5, <2>1, <2>3, <3>1, FrameReplaced
      <3>3. Len(b) - 1 = n - 2
        BY <1>2, <2>1
      <3> QED  BY <2>1, <3>2, <3>3
    <2> HIDE DEF c
    <2>5. \A i \in 1..(n - 1) : c[i].va = s[i].va /\ c[i].at \in {s[i].at, "lost"}
      <3> SUFFICES ASSUME NEW i \in 1..(n - 1) PROVE c[i].va = s[i].va /\ c[i].at \in {s[i].at, "lost"}
        OBVIOUS
      <3>1. CASE i = n - 1
        BY <1>5, <2>1, <2>3, <2>4, <3>1
      <3>2. CASE i # n - 1
        <4>1. i \in 1..(n - 2)
          BY <1>2, <3>2
        <4> QED  BY <1>5, <2>4, <4>1
      <3> QED  BY <3>1, <3>2
    <2>6. utf' \in [Env -> Seq(Frames)]
      BY <1>1, <1>5, <1>7, <2>4 DEF Resume
    <2> QED  BY <1>4, <1>7, <2>4, <2>5, <2>6 DEF n
  <1> QED  BY <1>3, <1>6, <1>7

-------------------------------------------------------------------------------
(*****************************************************************************)
(* Types.                                                                    *)
(*****************************************************************************)
LEMMA Pages ==
    ASSUME TypeOK, NEW e \in Env
    PROVE  /\ Absent \in Entries /\ NoPages \in [VA -> Entries] /\ \A p \in Page : Fresh(p) \in Entries
           /\ Pushed(e) \in [Page -> Words] /\ WordPushed(e) \in [Env -> [VA -> Words]]
  <1>1. Absent \in Entries /\ NoPages \in [VA -> Entries] /\ \A p \in Page : Fresh(p) \in Entries
    BY DEF Entries, NoPages, Fresh
  <1>2. pc[e] \in Words
    BY DEF TypeOK, Words
  <1>3. Pushed(e) \in [Page -> Words]
    BY <1>2 DEF TypeOK, Pushed
  <1>4. WordPushed(e) \in [Env -> [VA -> Words]]
    BY <1>2 DEF TypeOK, WordPushed
  <1> QED  BY <1>1, <1>3, <1>4

LEMMA TypeInit ==
    ASSUME Init
    PROVE  TypeOK
  <1>1. PICK l \in Layouts : pt = [e \in Env |-> [va \in VA |->
                 IF e = First /\ va \in DOMAIN l \cup {USTACK} THEN InitEntry(l, va) ELSE Absent]]
    BY DEF Init
  <1>2. /\ IsFiniteSet(DOMAIN l) /\ 1..(Cardinality(DOMAIN l) + 1) \subseteq Page /\ USTACK \notin DOMAIN l
        /\ DOMAIN l \subseteq Nat /\ USTACK \in Nat
    <2>1. /\ IsFiniteSet(DOMAIN l) /\ 1..(Cardinality(DOMAIN l) + 1) \subseteq Page /\ DOMAIN l \subseteq VA
          /\ \A va \in DOMAIN l : va < USTACK
      BY ForkAssumption, Zenon
    <2>2. VA \subseteq Nat /\ USTACK \in VA
      BY ForkAssumption
    <2>3. DOMAIN l \subseteq Nat /\ USTACK \in Nat
      BY <2>1, <2>2, Zenon
    <2>4. USTACK \notin DOMAIN l
      BY <2>3, <2>1
    <2> QED  BY <2>1, <2>3, <2>4, Zenon
  <1>3. ASSUME NEW va \in DOMAIN l \cup {USTACK} PROVE InitEntry(l, va) \in Entries
    <2> DEFINE D == DOMAIN l \cup {USTACK}
               S == {b \in D : b < va}
    <2>1. IsFiniteSet(D) /\ Cardinality(D) = Cardinality(DOMAIN l) + 1
      BY <1>2, FS_AddElement
    <2>2. S \subseteq D /\ va \in D /\ va \notin S
      BY <1>2, <1>3
    <2>3. IsFiniteSet(S) /\ Cardinality(S) <= Cardinality(D) /\ (Cardinality(S) = Cardinality(D) => S = D)
      BY <2>1, <2>2, FS_Subset
    <2>4. Cardinality(S) \in Nat /\ Cardinality(D) \in Nat
      BY <2>1, <2>3, FS_CardinalityType
    <2>5. 1 + Cardinality(S) \in 1..(Cardinality(DOMAIN l) + 1)
      <3> HIDE DEF S, D
      <3> QED  BY <2>1, <2>2, <2>3, <2>4
    <2> QED  BY <1>2, <2>5 DEF InitEntry, Entries
  <1>4. pt \in [Env -> [VA -> Entries]]
    BY <1>1, <1>3 DEF Entries
  <1>5. addr \in [Env -> Int] /\ perm \in [Env -> Entries] /\ utf \in [Env -> Seq(Frames)]
    BY DEF Init, Entries
  <1> QED  BY <1>4, <1>5 DEF Init, TypeOK, Statuses, Words

LEMMA TypeDies ==
    ASSUME TypeOK, NEW e \in Env, Dies(e)
    PROVE  TypeOK'
  <1>1. NoPages \in [VA -> Entries] /\ Absent \in Entries
    BY Pages
  <1>2. <<>> \in Seq(Frames) /\ [va \in VA |-> Zero] \in [VA -> Words]
    BY DEF Words
  <1>3. utf' \in [Env -> Seq(Frames)] /\ refused' \in [Env -> SUBSET VA] /\ addr' \in [Env -> Int]
    BY <1>2 DEF TypeOK, Dies
  <1>4. pt' \in [Env -> [VA -> Entries]] /\ word' \in [Env -> [VA -> Words]] /\ perm' \in [Env -> Entries]
    <2> HIDE DEF Entries
    <2> QED  BY <1>1, <1>2 DEF TypeOK, Dies
  <1> QED  BY <1>3, <1>4 DEF TypeOK, Dies, Statuses

LEMMA TypePanics ==
    ASSUME TypeOK, NEW e \in Env, Panics(e)
    PROVE  TypeOK'
  BY DEF TypeOK, Panics, Statuses, locals, history

LEMMA TypeFault ==
    ASSUME TypeOK, NEW e \in Env, NEW va \in VA, NEW wr \in BOOLEAN, page_fault_handler(e, va, wr)
    PROVE  TypeOK'
  <1>1. CASE Dies(e)
    BY <1>1, TypeDies
  <1>2. CASE ~Dies(e)
    <2> DEFINE x == Frame(va, wr, "enter")
    <2>1. utf' = [utf EXCEPT ![e] = Append(@, x)]
          /\ UNCHANGED <<env_status, pt, mem, upcall, handler, pc, locals, history>>
      BY <1>2 DEF page_fault_handler
    <2>2. x \in Frames
      BY DEF Frame, Frames
    <2> HIDE DEF x
    <2>3. utf' \in [Env -> Seq(Frames)]
      BY <2>1, <2>2, Pushing
    <2> QED  BY <2>1, <2>3 DEF TypeOK, locals, history
  <1> QED  BY <1>1, <1>2

\* What the steps of a handler may change.
LEMMA TypeHandler ==
    ASSUME TypeOK, NEW e \in Env, utf' \in [Env -> Seq(Frames)], pt' \in [Env -> [VA -> Entries]],
           mem' \in [Page -> Words], word' \in [Env -> [VA -> Words]],
           UNCHANGED <<env_status, upcall, handler, pc, locals, shared, refused>>
    PROVE  TypeOK'
  BY DEF TypeOK, locals

LEMMA HandlerFacts ==
    ASSUME TypeOK, NEW e \in Env, utf[e] # <<>>
    PROVE  /\ Top(e) \in Frames /\ Top(e).va \in VA /\ Len(utf[e]) \in Nat /\ Len(utf[e]) # 0
           /\ utf[e] \in Seq(Frames) /\ DOMAIN utf[e] = 1..Len(utf[e]) /\ Len(utf[e]) \in DOMAIN utf[e]
           /\ pt[e] \in [VA -> Entries] /\ pt[e][Top(e).va] \in Entries /\ pt[e][PFTEMP] \in Entries
  <1>1. utf[e] \in Seq(Frames) /\ pt[e] \in [VA -> Entries] /\ PFTEMP \in VA
    BY ForkAssumption DEF TypeOK
  <1>2. Len(utf[e]) \in Nat /\ DOMAIN utf[e] = 1..Len(utf[e]) /\ Len(utf[e]) # 0
    BY <1>1, FrameStack
  <1>3. Top(e) \in Frames /\ Len(utf[e]) \in DOMAIN utf[e]
    BY <1>1, <1>2, FrameStack DEF Top
  <1>4. Top(e).va \in VA
    BY <1>3 DEF Frames
  <1> QED  BY <1>1, <1>2, <1>3, <1>4

LEMMA EntryPage ==
    ASSUME NEW x \in Entries
    PROVE  /\ x.page \in Page \cup {0} /\ (x # Absent => x.page \in Page) /\ 0 \notin Page
           /\ (x.w \/ x.share \/ x.cow => x # Absent)
           /\ x.w \in BOOLEAN /\ x.share \in BOOLEAN /\ x.cow \in BOOLEAN
  <1>1. 0 \notin Page
    BY ForkAssumption
  <1>2. CASE x = Absent
    BY <1>1, <1>2 DEF Absent
  <1>3. CASE x \in [page : Page, w : BOOLEAN, cow : BOOLEAN, share : BOOLEAN]
    <2>1. x # Absent
      BY <1>1, <1>3 DEF Absent
    <2> QED  BY <1>1, <1>3, <2>1
  <1> QED  BY <1>2, <1>3 DEF Entries

\* A page from page_alloc() is mapped, while something is pushed on the stack.
LEMMA TypeFresh ==
    ASSUME TypeOK, NEW e \in Env, NEW f \in Env, NEW va \in VA, FreePages # {},
           pt' = [pt EXCEPT ![f][va] = Fresh(page_alloc)],
           mem' = [Pushed(e) EXCEPT ![page_alloc] = Zero],
           word' = [WordPushed(e) EXCEPT ![f][va] = Zero]
    PROVE  /\ pt' \in [Env -> [VA -> Entries]] /\ mem' \in [Page -> Words]
           /\ word' \in [Env -> [VA -> Words]]
  <1>1. page_alloc \in Page
    BY Allocated
  <1>2. Fresh(page_alloc) \in Entries /\ Pushed(e) \in [Page -> Words] /\ WordPushed(e) \in [Env -> [VA -> Words]]
    BY <1>1, Pages
  <1>3. Zero \in Words /\ pt \in [Env -> [VA -> Entries]]
    BY DEF Words, TypeOK
  <1>4. pt' \in [Env -> [VA -> Entries]]
    BY <1>2, <1>3
  <1>5. mem' \in [Page -> Words]
    BY <1>2, <1>3
  <1>6. word' \in [Env -> [VA -> Words]]
    BY <1>2, <1>3
  <1> QED  BY <1>4, <1>5, <1>6

LEMMA PageOf ==
    ASSUME TypeOK, NEW e \in Env, NEW va \in VA
    PROVE  /\ pt[e][va] \in Entries
           /\ Present(pt[e][va]) => pt[e][va].page \in Page /\ pt[e][va].page # 0
           /\ ~Present(pt[e][va]) => pt[e][va].page = 0 /\ ~pt[e][va].w /\ ~pt[e][va].share /\ 0 \notin Page
  <1>1. pt[e][va] \in Entries
    BY DEF TypeOK
  <1>2. 0 \notin Page
    BY ForkAssumption
  <1> QED  BY <1>1, <1>2, EntryPage DEF Present, Absent

LEMMA TypeStep ==
    ASSUME TypeOK, DupInv, [Next]_vars
    PROVE  TypeOK'
  <1>0. /\ USTACK \in VA /\ UXSTACK \in VA /\ UTEXT \in VA /\ DATA \in VA /\ PFTEMP \in VA /\ 0 \in VA
        /\ Touched \subseteq VA /\ Holes \subseteq VA /\ VA \subseteq Nat
    BY ForkAssumption
  <1>1. CASE UNCHANGED vars
    BY <1>1 DEF TypeOK, vars
  <1>2. ASSUME NEW e \in Env, Faulting(e) PROVE TypeOK'
    <2>1. utf[e] # <<>>
      BY <1>2 DEF Faulting, pgfault_alloc, pgfault_copy, pgfault_map, pgfault_unmap, alloc_handler, alloc_print,
                  LostFetch, At, Handling
    <2> DEFINE va == Top(e).va
    <2>2. /\ va \in VA /\ pt \in [Env -> [VA -> Entries]] /\ mem \in [Page -> Words] /\ word \in [Env -> [VA -> Words]]
          /\ utf \in [Env -> Seq(Frames)]
      BY <2>1, HandlerFacts DEF TypeOK
    <2>3. Zero \in Words /\ Absent \in Entries /\ \A p \in Page : Fresh(p) \in Entries
      BY Pages DEF Words
    <2>4. CASE pgfault_alloc(e)
      <3>1. CASE Panics(e)
        BY <3>1, TypePanics
      <3>2. CASE ~Panics(e)
        <4>1. /\ FreePages # {} /\ pt' = [pt EXCEPT ![e][PFTEMP] = Fresh(page_alloc)]
              /\ mem' = [mem EXCEPT ![page_alloc] = Zero] /\ Goto(e, "copy")
              /\ UNCHANGED <<env_status, upcall, handler, pc, locals, history>>
          BY <2>4, <3>2 DEF pgfault_alloc
        <4>2. page_alloc \in Page /\ utf' \in [Env -> Seq(Frames)]
          BY <2>1, <4>1, Allocated, Going
        <4>3. Fresh(page_alloc) \in Entries
          BY <2>3, <4>2
        <4>4. pt' \in [Env -> [VA -> Entries]] /\ mem' \in [Page -> Words]
          BY <1>0, <2>2, <2>3, <4>1, <4>3
        <4> QED  BY <2>2, <4>1, <4>2, <4>4, TypeHandler DEF history
      <3> QED  BY <3>1, <3>2
    <2>5. CASE pgfault_copy(e)
      <3>1. CASE page_fault_handler(e, va, FALSE)
        BY <2>2, <3>1, TypeFault
      <3>2. CASE ~page_fault_handler(e, va, FALSE)
        <4>1. /\ Present(pt[e][va]) /\ mem' = [mem EXCEPT ![pt[e][PFTEMP].page] = mem[pt[e][va].page]] /\ Goto(e, "map")
              /\ UNCHANGED <<env_status, pt, upcall, handler, pc, locals, history>>
          BY <2>5, <3>2 DEF pgfault_copy
        <4>2. utf' \in [Env -> Seq(Frames)]
          BY <2>1, <4>1, Going
        <4>3. pt[e][va].page \in Page
          BY <2>1, <4>1, HandlerFacts, EntryPage DEF Present
        <4>4. mem' \in [Page -> Words]
          BY <2>2, <4>1, <4>3
        <4> QED  BY <2>2, <4>1, <4>2, <4>4, TypeHandler DEF history
      <3> QED  BY <3>1, <3>2
    <2>6. CASE pgfault_map(e)
      <3>1. CASE Panics(e)
        BY <3>1, TypePanics
      <3>2. CASE ~Panics(e)
        <4>1. /\ Present(pt[e][PFTEMP]) /\ pt' = [pt EXCEPT ![e][va] = Fresh(pt[e][PFTEMP].page)] /\ Goto(e, "unmap")
              /\ UNCHANGED <<env_status, mem, upcall, handler, pc, locals, history>>
          BY <2>6, <3>2 DEF pgfault_map, MayMap
        <4>2. utf' \in [Env -> Seq(Frames)]
          BY <2>1, <4>1, Going
        <4>3. pt[e][PFTEMP].page \in Page
          BY <2>1, <4>1, HandlerFacts, EntryPage DEF Present
        <4>4. pt' \in [Env -> [VA -> Entries]]
          BY <2>2, <2>3, <4>1, <4>3
        <4> QED  BY <2>2, <4>1, <4>2, <4>4, TypeHandler DEF history
      <3> QED  BY <3>1, <3>2
    <2>7. CASE pgfault_unmap(e)
      <3>1. /\ pt' = [pt EXCEPT ![e][PFTEMP] = Absent] /\ Resume(e)
            /\ UNCHANGED <<env_status, mem, upcall, handler, pc, locals, history>>
        BY <2>7 DEF pgfault_unmap
      <3>2. utf' \in [Env -> Seq(Frames)]
        BY <2>1, <3>1, Resuming
      <3>3. pt' \in [Env -> [VA -> Entries]]
        BY <1>0, <2>2, <2>3, <3>1
      <3> QED  BY <2>2, <3>1, <3>2, <3>3, TypeHandler DEF history
    <2>8. CASE alloc_handler(e)
      <3>1. CASE Panics(e)
        BY <3>1, TypePanics
      <3>2. CASE ~Panics(e)
        <4>1. /\ FreePages # {} /\ pt' = [pt EXCEPT ![e][va] = Fresh(page_alloc)]
              /\ mem' = [mem EXCEPT ![page_alloc] = Zero] /\ word' = [word EXCEPT ![e][va] = Zero] /\ Goto(e, "print")
              /\ UNCHANGED <<env_status, upcall, handler, pc, locals, shared, refused, forks>>
          BY <2>8, <3>2 DEF alloc_handler
        <4>2. page_alloc \in Page /\ utf' \in [Env -> Seq(Frames)]
          BY <2>1, <4>1, Allocated, Going
        <4>3. Fresh(page_alloc) \in Entries
          BY <2>3, <4>2
        <4>4. pt' \in [Env -> [VA -> Entries]] /\ mem' \in [Page -> Words] /\ word' \in [Env -> [VA -> Words]]
          BY <2>2, <2>3, <4>1, <4>3
        <4> QED  BY <2>2, <4>1, <4>2, <4>4, TypeHandler
      <3> QED  BY <3>1, <3>2
    <2>9. CASE alloc_print(e)
      <3>1. CASE Resume(e) /\ UNCHANGED <<env_status, pt, mem, upcall, handler, pc, locals, history>>
        <4>1. utf' \in [Env -> Seq(Frames)]
          BY <2>1, <3>1, Resuming
        <4> QED  BY <2>2, <3>1, <4>1, TypeHandler DEF history
      <3>2. CASE va + 1 \in VA /\ page_fault_handler(e, va + 1, TRUE)
        BY <3>2, TypeFault
      <3> QED  BY <2>9, <3>1, <3>2 DEF alloc_print
    <2>10. CASE LostFetch(e)
      BY <1>0, <2>10, TypeFault DEF LostFetch
    <2> QED  BY <1>2, <2>4, <2>5, <2>6, <2>7, <2>8, <2>9, <2>10 DEF Faulting
  <1>3. ASSUME NEW e \in Env, Program(e) PROVE TypeOK'
    <2>1. CASE fork(e)
      <3>1. CASE Panics(e)
        BY <3>1, TypePanics
      <3>2. CASE ~Panics(e)
        <4>1. /\ \/ /\ FreePages # {} /\ pt' = [pt EXCEPT ![e][UXSTACK] = Fresh(page_alloc)]
                    /\ mem' = [Pushed(e) EXCEPT ![page_alloc] = Zero]
                    /\ word' = [WordPushed(e) EXCEPT ![e][UXSTACK] = Zero]
                 \/ mem' = Pushed(e) /\ word' = WordPushed(e) /\ UNCHANGED pt
              /\ handler' = [handler EXCEPT ![e] = "pgfault"] /\ upcall' = [upcall EXCEPT ![e] = TRUE]
              /\ pc' = [pc EXCEPT ![e] = "exofork"] /\ UNCHANGED <<env_status, utf, locals, shared, refused>>
          BY <2>1, <3>2 DEF fork, Moves
        <4>2. Pushed(e) \in [Page -> Words] /\ WordPushed(e) \in [Env -> [VA -> Words]] /\ \A p \in Page : Fresh(p) \in Entries
          BY Pages
        <4>3. FreePages # {} => page_alloc \in Page
          BY Allocated
        <4>4. Zero \in Words
          BY DEF Words
        <4>5. pt' \in [Env -> [VA -> Entries]] /\ mem' \in [Page -> Words] /\ word' \in [Env -> [VA -> Words]]
          <5>1. CASE mem' = Pushed(e) /\ word' = WordPushed(e) /\ UNCHANGED pt
            BY <4>2, <5>1 DEF TypeOK
          <5>2. CASE /\ FreePages # {} /\ pt' = [pt EXCEPT ![e][UXSTACK] = Fresh(page_alloc)]
                     /\ mem' = [Pushed(e) EXCEPT ![page_alloc] = Zero]
                     /\ word' = [WordPushed(e) EXCEPT ![e][UXSTACK] = Zero]
            BY <1>0, <4>2, <4>3, <4>4, <5>2, TypeFresh
          <5> QED  BY <4>1, <5>1, <5>2
        <4>6. /\ handler' \in [Env -> {None, "pgfault", "alloc"}] /\ upcall' \in [Env -> BOOLEAN]
              /\ pc' \in [Env -> ForkPlaces \cup {"run", "memmove", "child"}]
          BY <4>1 DEF TypeOK, ForkPlaces
        <4> QED  BY <4>1, <4>5, <4>6 DEF TypeOK, locals
      <3> QED  BY <3>1, <3>2
    <2>2. CASE Exit(e)
      BY <2>2, TypeDies DEF Exit
    <2>3. CASE set_alloc_handler(e)
      <3>1. CASE Panics(e)
        BY <3>1, TypePanics
      <3>2. CASE ~Panics(e)
        <4>1. /\ FreePages # {} /\ pt' = [pt EXCEPT ![e][UXSTACK] = Fresh(page_alloc)]
              /\ mem' = [mem EXCEPT ![page_alloc] = Zero] /\ word' = [word EXCEPT ![e][UXSTACK] = Zero]
              /\ handler' = [handler EXCEPT ![e] = "alloc"] /\ upcall' = [upcall EXCEPT ![e] = TRUE]
              /\ UNCHANGED <<env_status, pc, utf, locals, shared, refused, forks>>
          BY <2>3, <3>2 DEF set_alloc_handler
        <4>2. page_alloc \in Page
          BY <4>1, Allocated
        <4>3. Fresh(page_alloc) \in Entries /\ Zero \in Words
          BY <4>2, Pages DEF Words
        <4>4. pt' \in [Env -> [VA -> Entries]] /\ mem' \in [Page -> Words] /\ word' \in [Env -> [VA -> Words]]
          BY <1>0, <4>1, <4>2, <4>3 DEF TypeOK
        <4>5. handler' \in [Env -> {None, "pgfault", "alloc"}] /\ upcall' \in [Env -> BOOLEAN]
          BY <4>1 DEF TypeOK
        <4> QED  BY <4>1, <4>4, <4>5 DEF TypeOK, locals
      <3> QED  BY <3>1, <3>2
    <2>4. ASSUME NEW va \in VA, ReadAbsent(e, va) \/ \E w \in Word : Write(e, va, w) PROVE TypeOK'
      <3>1. CASE page_fault_handler(e, va, TRUE) \/ page_fault_handler(e, va, FALSE)
        BY <3>1, TypeFault
      <3>2. CASE ~(page_fault_handler(e, va, TRUE) \/ page_fault_handler(e, va, FALSE))
        <4>1. PICK w \in Word : /\ mem' = [mem EXCEPT ![pt[e][va].page] = w]
                 /\ \/ shared' = [shared EXCEPT ![va] = w] /\ UNCHANGED word
                    \/ word' = [word EXCEPT ![e][va] = w] /\ UNCHANGED shared
                 /\ UNCHANGED <<env_status, pt, upcall, handler, pc, utf, locals, refused, forks>>
          BY <2>4, <3>2 DEF ReadAbsent, Write
        <4>2. w \in Words
          BY DEF Words
        <4>3. mem' \in [Page -> Words]
          BY <4>1, <4>2 DEF TypeOK
        <4>4. word' \in [Env -> [VA -> Words]]
          <5>1. word \in [Env -> [VA -> Words]]
            BY DEF TypeOK
          <5> QED  BY <4>1, <4>2, <5>1
        <4>5. shared' \in [VA -> Words]
          BY <4>1, <4>2 DEF TypeOK
        <4> QED  BY <4>1, <4>3, <4>4, <4>5 DEF TypeOK, locals
      <3> QED  BY <3>1, <3>2
    <2> QED  BY <1>0, <1>3, <2>1, <2>2, <2>3, <2>4 DEF Program
  <1>4. ASSUME NEW e \in Env, Forking(e) PROVE TypeOK'
    <2>0. Pushed(e) \in [Page -> Words] /\ WordPushed(e) \in [Env -> [VA -> Words]]
          /\ Absent \in Entries /\ (\A p \in Page : Fresh(p) \in Entries) /\ Zero \in Words
      BY Pages DEF Words
    <2>1. CASE PushFaults(e) \/ FetchAbsent(e)
      BY <1>0, <2>1, TypeFault DEF PushFaults, FetchAbsent
    <2>2. CASE sys_exofork(e)
      <3>1. CASE Panics(e)
        BY <3>1, TypePanics
      <3>2. CASE ~Panics(e)
        <4>1. PICK f \in Env : /\ env_status' = [env_status EXCEPT ![f] = "NOT_RUNNABLE"]
              /\ pc' = [pc EXCEPT ![f] = "child", ![e] = "scan"] /\ child' = [child EXCEPT ![e] = f]
              /\ addr' = [addr EXCEPT ![e] = USTACK] /\ refused' = [refused EXCEPT ![f] = {}]
              /\ UNCHANGED <<pt, mem, upcall, handler, utf, perm, word, shared, forks>>
          BY <2>2, <3>2 DEF sys_exofork
        <4>2. addr' \in [Env -> Int]
          BY <1>0, <4>1 DEF TypeOK
        <4> QED  BY <4>1, <4>2 DEF TypeOK, Statuses, ForkPlaces
      <3> QED  BY <3>1, <3>2
    <2>3. CASE fork_scan(e)
      <3>1. mem' \in [Page -> Words] /\ word' \in [Env -> [VA -> Words]]
        <4>1. (mem' = mem /\ word' = word) \/ (mem' = Pushed(e) /\ word' = WordPushed(e))
          BY <2>3 DEF fork_scan, history
        <4> QED  BY <2>0, <4>1 DEF TypeOK
      <3>2. pc' \in [Env -> ForkPlaces \cup {"run", "memmove", "child"}]
        <4>1. pc' = pc \/ pc' = [pc EXCEPT ![e] = "uxstack"] \/ pc' = [pc EXCEPT ![e] = "dup child"]
          BY <2>3 DEF fork_scan, Moves
        <4> QED  BY <4>1 DEF TypeOK, ForkPlaces
      <3>3. addr' \in [Env -> Int]
        <4>1. addr[e] \in Int /\ Skip(e, addr[e]) \in Int
          BY ForkAssumption DEF Skip, TypeOK
        <4>2. addr' = addr \/ addr' = [addr EXCEPT ![e] = addr[e] - Skip(e, addr[e])]
          BY <2>3 DEF fork_scan, locals
        <4> QED  BY <4>1, <4>2 DEF TypeOK
      <3>4. perm' \in [Env -> Entries]
        <4>1. perm' = perm \/ (addr[e] \in VA /\ perm' = [perm EXCEPT ![e] = pt[e][addr[e]]])
          BY <2>3 DEF fork_scan, locals
        <4>2. perm \in [Env -> Entries] /\ (addr[e] \in VA => pt[e][addr[e]] \in Entries)
          BY DEF TypeOK
        <4> HIDE DEF Entries
        <4> QED  BY <4>1, <4>2
      <3>5. UNCHANGED <<env_status, pt, upcall, handler, utf, child, shared, refused>>
        BY <2>3 DEF fork_scan, locals, history
      <3> QED  BY <3>1, <3>2, <3>3, <3>4, <3>5 DEF TypeOK
    <2>4. CASE duppage_child(e)
      <3> DEFINE a == addr[e]
                 want == Cow(perm[e], pt[e][a].page)
      <3>1. child[e] \in Env /\ perm[e] \in Entries /\ addr[e] \in Int /\ a \in VA
        BY <2>4 DEF TypeOK, DupInv, DupOf, duppage_child, Calls, Runs
      <3>2. pt' \in [Env -> [VA -> Entries]] /\ word' \in [Env -> [VA -> Words]]
        <4>1. CASE UNCHANGED pt /\ word' = WordPushed(e)
          BY <2>0, <4>1 DEF TypeOK
        <4>2. CASE /\ MayMap(pt[e][a], want) /\ pt' = [pt EXCEPT ![child[e]][a] = want]
                   /\ word' = [WordPushed(e) EXCEPT ![child[e]][a] = WordPushed(e)[e][a]]
          <5>1. pt[e][a].page \in Page
            BY <3>1, <4>2, EntryPage DEF TypeOK, MayMap, Present
          <5>2. want \in Entries
            BY <3>1, <5>1, EntryPage DEF Cow, Entries
          <5>3. pt' \in [Env -> [VA -> Entries]]
            <6> HIDE DEF want
            <6> QED  BY <4>2, <5>2 DEF TypeOK
          <5>4. word' \in [Env -> [VA -> Words]]
            BY <2>0, <3>1, <4>2
          <5> QED  BY <5>3, <5>4
        <4> QED  BY <2>4, <4>1, <4>2 DEF duppage_child
      <3>3. refused' \in [Env -> SUBSET VA]
        <4>1. refused' = refused \/ refused' = [refused EXCEPT ![child[e]] = @ \cup {a}]
          BY <2>4 DEF duppage_child
        <4>2. refused \in [Env -> SUBSET VA] /\ refused[child[e]] \cup {a} \in SUBSET VA
          BY <3>1 DEF TypeOK
        <4> HIDE DEF a
        <4> QED  BY <3>1, <4>1, <4>2
      <3>4. addr' \in [Env -> Int]
        <4>1. addr' = [addr EXCEPT ![e] = a] \/ addr' = [addr EXCEPT ![e] = a - 1]
          BY <2>4 DEF duppage_child, TypeOK
        <4> QED  BY <3>1, <4>1 DEF TypeOK
      <3>5. pc' \in [Env -> ForkPlaces \cup {"run", "memmove", "child"}] /\ mem' \in [Page -> Words]
        BY <2>0, <2>4 DEF duppage_child, TypeOK, Moves, ForkPlaces
      <3> QED  BY <2>4, <3>2, <3>3, <3>4, <3>5 DEF duppage_child, TypeOK
    <2>5. CASE duppage_self(e)
      <3> DEFINE a == addr[e]
                 x == Cow(perm[e], pt[e][a].page)
      <3>1. /\ mem' = Pushed(e) /\ word' = WordPushed(e) /\ pt' = [pt EXCEPT ![e][a] = x]
            /\ addr' = [addr EXCEPT ![e] = a - 1] /\ pc' = [pc EXCEPT ![e] = "scan"]
            /\ UNCHANGED <<env_status, upcall, handler, utf, child, perm, shared, refused>>
        BY <2>5 DEF duppage_self, Moves
      <3>2. pt' \in [Env -> [VA -> Entries]]
        <4>1. a \in VA /\ perm[e] = pt[e][a] /\ Present(pt[e][a]) /\ pt[e][a] \in Entries
          BY <2>5 DEF duppage_self, Calls, Runs, DupInv, DupOf, TypeOK
        <4>2. x \in Entries
          BY <4>1, EntryPage DEF Present, Cow, Entries
        <4> HIDE DEF x
        <4> QED  BY <3>1, <4>1, <4>2 DEF TypeOK
      <3>3. addr' \in [Env -> Int]
        BY <3>1 DEF TypeOK
      <3> QED  BY <2>0, <3>1, <3>2, <3>3 DEF TypeOK, ForkPlaces
    <2>6. ASSUME NEW va \in {UXSTACK, USTACK}, NEW place, NEW after \in ForkPlaces, AllocForChild(e, place, va, after)
          PROVE TypeOK'
      <3>1. /\ \/ /\ FreePages # {} /\ pt' = [pt EXCEPT ![child[e]][va] = Fresh(page_alloc)]
                  /\ mem' = [Pushed(e) EXCEPT ![page_alloc] = Zero]
                  /\ word' = [WordPushed(e) EXCEPT ![child[e]][va] = Zero]
               \/ mem' = Pushed(e) /\ word' = WordPushed(e) /\ UNCHANGED pt
            /\ pc' = [pc EXCEPT ![e] = after]
            /\ UNCHANGED <<env_status, upcall, handler, utf, locals, shared, refused, forks>>
        BY <2>6 DEF AllocForChild, Moves
      <3>2. child[e] \in Env /\ va \in VA
        BY <1>0, <2>6 DEF TypeOK
      <3>3. pt' \in [Env -> [VA -> Entries]] /\ mem' \in [Page -> Words] /\ word' \in [Env -> [VA -> Words]]
        <4>1. CASE mem' = Pushed(e) /\ word' = WordPushed(e) /\ UNCHANGED pt
          BY <2>0, <4>1 DEF TypeOK
        <4>2. CASE /\ FreePages # {} /\ pt' = [pt EXCEPT ![child[e]][va] = Fresh(page_alloc)]
                   /\ mem' = [Pushed(e) EXCEPT ![page_alloc] = Zero]
                   /\ word' = [WordPushed(e) EXCEPT ![child[e]][va] = Zero]
          BY <3>2, <4>2, TypeFresh
        <4> QED  BY <3>1, <4>1, <4>2
      <3>4. pc' \in [Env -> ForkPlaces \cup {"run", "memmove", "child"}]
        BY <3>1, <2>6 DEF TypeOK
      <3> QED  BY <3>1, <3>3, <3>4 DEF TypeOK, locals
    <2>7. CASE fork_uxstack(e) \/ fork_stack(e)
      BY <2>6, <2>7 DEF fork_uxstack, fork_stack, ForkPlaces
    <2>8. CASE fork_temp(e)
      <3> DEFINE theirs == pt[child[e]][USTACK]
      <3>1. /\ mem' = Pushed(e) /\ word' = WordPushed(e)
            /\ pt' = pt \/ (Present(theirs) /\ pt' = [pt EXCEPT ![e][PFTEMP] = Fresh(theirs.page)])
            /\ pc' = [pc EXCEPT ![e] = "memmove"]
            /\ UNCHANGED <<env_status, upcall, handler, utf, locals, shared, refused, forks>>
        BY <2>8 DEF fork_temp, Moves, MayMap
      <3>2. theirs \in Entries
        BY <1>0 DEF TypeOK
      <3>3. Present(theirs) => Fresh(theirs.page) \in Entries
        BY <2>0, <3>2, EntryPage DEF Present
      <3>4. pt' \in [Env -> [VA -> Entries]]
        <4>1. CASE pt' = pt
          BY <4>1 DEF TypeOK
        <4>2. CASE Present(theirs) /\ pt' = [pt EXCEPT ![e][PFTEMP] = Fresh(theirs.page)]
          <5> DEFINE x == Fresh(theirs.page)
          <5>1. x \in Entries /\ pt' = [pt EXCEPT ![e][PFTEMP] = x]
            BY <3>3, <4>2
          <5> HIDE DEF x
          <5> QED  BY <1>0, <5>1 DEF TypeOK
        <4> QED  BY <3>1, <4>1, <4>2
      <3> QED  BY <2>0, <3>1, <3>4 DEF TypeOK, locals
    <2>9. CASE fork_memmove(e)
      <3>1. CASE page_fault_handler(e, USTACK, TRUE) \/ page_fault_handler(e, PFTEMP, TRUE)
        BY <1>0, <3>1, TypeFault
      <3>2. CASE ~(page_fault_handler(e, USTACK, TRUE) \/ page_fault_handler(e, PFTEMP, TRUE))
        <4>1. /\ mem' = [Pushed(e) EXCEPT ![pt[e][PFTEMP].page] = "memmove"]
              /\ word' = [word EXCEPT ![e][USTACK] = "memmove", ![child[e]][USTACK] = "memmove"]
              /\ pc' = [pc EXCEPT ![e] = "untemp"]
              /\ UNCHANGED <<env_status, pt, upcall, handler, utf, locals, shared, refused, forks>>
          BY <2>9, <3>2 DEF fork_memmove, Moves
        <4>2. "memmove" \in Words
          BY DEF Words
        <4>3. mem' \in [Page -> Words]
          BY <2>0, <4>1, <4>2
        <4>4. word' \in [Env -> [VA -> Words]]
          BY <4>1, <4>2 DEF TypeOK
        <4> QED  BY <4>1, <4>3, <4>4 DEF TypeOK, locals, ForkPlaces
      <3> QED  BY <3>1, <3>2
    <2>10. CASE fork_untemp(e)
      <3>1. /\ mem' = Pushed(e) /\ word' = WordPushed(e) /\ pt' = [pt EXCEPT ![e][PFTEMP] = Absent]
            /\ pc' = [pc EXCEPT ![e] = "set upcall"]
            /\ UNCHANGED <<env_status, upcall, handler, utf, locals, shared, refused, forks>>
        BY <2>10 DEF fork_untemp, Moves
      <3>2. pt' \in [Env -> [VA -> Entries]]
        BY <2>0, <3>1 DEF TypeOK
      <3> QED  BY <2>0, <3>1, <3>2 DEF TypeOK, locals, ForkPlaces
    <2>11. CASE fork_upcall(e)
      <3>1. /\ mem' = Pushed(e) /\ word' = WordPushed(e)
            /\ upcall' = [upcall EXCEPT ![child[e]] = upcall[e]] /\ pc' = [pc EXCEPT ![e] = "set status"]
            /\ UNCHANGED <<env_status, pt, handler, utf, locals, shared, refused, forks>>
        BY <2>11 DEF fork_upcall, Moves
      <3> QED  BY <2>0, <3>1 DEF TypeOK, locals, ForkPlaces
    <2>12. CASE fork_status(e)
      <3>1. /\ mem' = Pushed(e) /\ word' = WordPushed(e)
            /\ env_status' = [env_status EXCEPT ![child[e]] = "RUNNABLE"]
            /\ handler' = [handler EXCEPT ![child[e]] = handler[e]] /\ pc' = [pc EXCEPT ![e] = "run"]
            /\ child' = [child EXCEPT ![e] = e] /\ addr' = [addr EXCEPT ![e] = 0]
            /\ perm' = [perm EXCEPT ![e] = Absent]
            /\ UNCHANGED <<pt, upcall, utf, shared, refused, forks>>
        BY <2>12 DEF fork_status
      <3>2. addr' \in [Env -> Int]
        BY <3>1 DEF TypeOK
      <3>3. perm' \in [Env -> Entries]
        <4> HIDE DEF Absent, Entries
        <4> QED  BY <2>0, <3>1 DEF TypeOK
      <3>4. env_status' \in [Env -> Statuses] /\ handler' \in [Env -> {None, "pgfault", "alloc"}]
            /\ child' \in [Env -> Env] /\ pc' \in [Env -> ForkPlaces \cup {"run", "memmove", "child"}]
        BY <3>1 DEF TypeOK, Statuses
      <3> QED  BY <2>0, <3>1, <3>2, <3>3, <3>4 DEF TypeOK
    <2>13. CASE fork_child(e)
      <3>1. CASE page_fault_handler(e, DATA, TRUE)
        BY <1>0, <3>1, TypeFault
      <3>2. CASE ~page_fault_handler(e, DATA, TRUE)
        <4>1. /\ mem' = [Pushed(e) EXCEPT ![pt[e][DATA].page] = "thisenv"]
              /\ word' = [WordPushed(e) EXCEPT ![e][DATA] = "thisenv"] /\ pc' = [pc EXCEPT ![e] = "run"]
              /\ UNCHANGED <<env_status, pt, upcall, handler, utf, locals, shared, refused, forks>>
          BY <2>13, <3>2 DEF fork_child, Moves
        <4>2. "thisenv" \in Words
          BY DEF Words
        <4>3. mem' \in [Page -> Words]
          BY <2>0, <4>1, <4>2
        <4>4. word' \in [Env -> [VA -> Words]]
          BY <2>0, <4>1, <4>2
        <4> QED  BY <4>1, <4>3, <4>4 DEF TypeOK, locals
      <3> QED  BY <3>1, <3>2
    <2> QED  BY <1>4, <2>1, <2>2, <2>3, <2>4, <2>5, <2>7, <2>8, <2>9, <2>10, <2>11, <2>12, <2>13 DEF Forking
  <1> QED  BY <1>1, <1>2, <1>3, <1>4 DEF Next

-------------------------------------------------------------------------------
(*****************************************************************************)
(* What one step may do without disturbing the invariant.                     *)
(*****************************************************************************)
\* An environment that runs is nobody's new child.
LEMMA Runner ==
    ASSUME TypeOK, FamilyInv, NEW e \in Env, env_status[e] = "RUNNABLE"
    PROVE  /\ \A f \in Env : pc[f] \in InFork => child[f] # e /\ child[f] # f /\ child[f] \in Env
           /\ \A f \in Env : child[f] # f => child[f] # e
  BY DEF FamilyInv, TypeOK

\* A page that is written is mapped nowhere else.
LEMMA Sole ==
    ASSUME IInv, NEW e \in Env, env_status[e] = "RUNNABLE", NEW va \in VA, Private(e, va),
           \/ utf[e] # <<>> /\ Top(e).at # "unmap"
           \/ /\ utf[e] = <<>>
              /\ pc[e] \in {"memmove", "untemp"} => va # PFTEMP
              /\ pc[e] = "dup self" => va # addr[e]
    PROVE  /\ pt[e][va].page \in Page
           /\ \A f \in Env, vb \in VA : e # f \/ va # vb => pt[f][vb].page # pt[e][va].page
  <1>1. pt[e][va].page \in Page
    <2>1. pt[e][va] \in Entries
      BY DEF IInv, TypeOK
    <2> QED  BY <2>1, EntryPage DEF Private
  <1>2. \A f \in Env : pc[f] \in InFork => child[f] # e
    BY Runner DEF IInv
  <1>3. pc[e] = "dup self" => utf[e] = <<>>
    BY DEF IInv, DupInv, DupOf
  <1>4. ASSUME NEW f \in Env, NEW vb \in VA PROVE ~Excused(e, va, f, vb)
    BY <1>2, <1>3 DEF Excused, Fixing, Lending, Splitting, InFork, Stack
  <1> QED  BY <1>1, <1>4 DEF IInv, OwnerInv

\* One entry of one environment changes.
Changes(g, x, y) == pt' = [pt EXCEPT ![g][x] = y]

\* Only environment e moves.
OthersStay(e) ==
    \A f \in Env \ {e} :
        /\ env_status'[f] = env_status[f] /\ handler'[f] = handler[f] /\ pc'[f] = pc[f] /\ utf'[f] = utf[f]
        /\ child'[f] = child[f] /\ addr'[f] = addr[f] /\ perm'[f] = perm[f]

LEMMA Changed ==
    ASSUME TypeOK, NEW g \in Env, NEW x \in VA, NEW y, Changes(g, x, y)
    PROVE  /\ pt'[g][x] = y
           /\ \A f \in Env, va \in VA : f # g \/ va # x => pt'[f][va] = pt[f][va]
           /\ \A f \in Env : f # g => pt'[f] = pt[f]
  BY DEF TypeOK, Changes

LEMMA ShareKept ==
    ASSUME TypeOK, ShareInv, NEW g \in Env, NEW x \in VA, NEW y \in Entries, Changes(g, x, y),
           y.share => y.w /\ \E f \in Env : pt[f][x].share /\ pt[f][x].page = y.page,
           ~y.share => \A f \in Env, va \in VA : pt[f][va].share => pt[f][va].page # y.page
    PROVE  ShareInv'
  <1>1. /\ pt'[g][x] = y
        /\ \A f \in Env, va \in VA : f # g \/ va # x => pt'[f][va] = pt[f][va]
    BY Changed
  <1>2. y.share => x \notin {0, USTACK, DATA, PFTEMP}
    BY DEF ShareInv
  <1>3. ASSUME NEW e \in Env, NEW va \in VA
        PROVE  /\ pt'[e][va].share => pt'[e][va].w
               /\ va \in {0, USTACK, DATA, PFTEMP} => ~pt'[e][va].share
    BY <1>1, <1>2 DEF ShareInv
  <1>4. ASSUME NEW e \in Env, NEW f \in Env, NEW va \in VA, NEW vb \in VA,
               pt'[e][va].share, pt'[f][vb].page = pt'[e][va].page
        PROVE  va = vb /\ pt'[f][vb].share
    <2>1. CASE e = g /\ va = x
      BY <1>1, <1>4, <2>1 DEF ShareInv
    <2>2. CASE ~(e = g /\ va = x)
      BY <1>1, <1>4, <2>2, SMTT(60) DEF ShareInv
    <2> QED  BY <2>1, <2>2
  <1>5. ASSUME NEW e \in Env, NEW f \in Env, NEW va \in VA, pt'[e][va].share, pt'[f][va].share
        PROVE  pt'[f][va].page = pt'[e][va].page
    BY <1>1, <1>5, SMTT(60) DEF ShareInv
  <1>6. {0, USTACK, DATA, PFTEMP} \subseteq VA
    BY ForkAssumption
  <1> QED  BY <1>3, <1>4, <1>5, <1>6 DEF ShareInv

\* What excused e concerns the entry that changes, and what it changes to is excused.
OnlyThere(e, g, x) ==
    \A f \in Env, va, vb \in VA :
        /\ Fixing(e, va, vb) => g = e /\ x \in {va, vb}
        /\ Lending(e, va, f, vb) \/ Splitting(e, va, f, vb) => g = e /\ x = va
ExcusedThere(g, x, y) ==
    \A f \in Env, vb \in VA : (f # g \/ vb # x) /\ pt[f][vb].page = y.page =>
        /\ y.w /\ ~y.share => Excused(g, x, f, vb)'
        /\ Private(f, vb) => Excused(f, vb, g, x)'

LEMMA OwnerKept ==
    ASSUME TypeOK, OwnerInv, NEW e \in Env, OthersStay(e),
           NEW g \in Env, NEW x \in VA, NEW y \in Entries, Changes(g, x, y),
           OnlyThere(e, g, x), ExcusedThere(g, x, y)
    PROVE  OwnerInv'
  <1>1. /\ pt'[g][x] = y
        /\ \A f \in Env, va \in VA : f # g \/ va # x => pt'[f][va] = pt[f][va]
    BY Changed
  <1> SUFFICES ASSUME NEW a \in Env, NEW b \in Env, NEW va \in VA, NEW vb \in VA,
                      Private(a, va)', pt'[b][vb].page = pt'[a][va].page, a # b \/ va # vb
               PROVE  Excused(a, va, b, vb)'
    BY DEF OwnerInv
  <1>2. CASE a = g /\ va = x
    <2>1. y.w /\ ~y.share /\ (b # g \/ vb # x) /\ pt[b][vb].page = y.page
      BY <1>1, <1>2 DEF Private
    <2> QED  BY <1>2, <2>1 DEF ExcusedThere
  <1>3. CASE b = g /\ vb = x
    <2>1. Private(a, va) /\ (a # g \/ va # x) /\ pt[a][va].page = y.page
      BY <1>1, <1>3 DEF Private
    <2> QED  BY <1>3, <2>1 DEF ExcusedThere
  <1>4. CASE ~(a = g /\ va = x) /\ ~(b = g /\ vb = x)
    <2>1. Private(a, va) /\ pt[b][vb].page = pt[a][va].page /\ pt'[b][vb] = pt[b][vb]
      BY <1>1, <1>4 DEF Private
    <2>2. Excused(a, va, b, vb)
      BY <2>1 DEF OwnerInv
    <2>3. CASE a = b /\ Fixing(a, va, vb)
      <3>1. a # e
        BY <1>4, <2>3 DEF OnlyThere
      <3>2. Fixing(a, va, vb)'
        BY <2>3, <3>1 DEF OthersStay, Fixing, Top
      <3> QED  BY <2>3, <3>2 DEF Excused
    <2>4. CASE Lending(a, va, b, vb)
      <3>1. a # e
        BY <1>4, <2>4 DEF OnlyThere
      <3>2. Lending(a, va, b, vb)'
        BY <2>4, <3>1 DEF OthersStay, Lending
      <3> QED  BY <3>2 DEF Excused
    <2>5. CASE Lending(b, vb, a, va)
      <3>1. b # e
        BY <1>4, <2>5 DEF OnlyThere
      <3>2. Lending(b, vb, a, va)'
        BY <2>5, <3>1 DEF OthersStay, Lending
      <3> QED  BY <3>2 DEF Excused
    <2>6. CASE Splitting(a, va, b, vb)
      <3>1. a # e
        BY <1>4, <2>6 DEF OnlyThere
      <3>2. Splitting(a, va, b, vb)'
        BY <2>1, <2>6, <3>1 DEF OthersStay, Splitting
      <3> QED  BY <3>2 DEF Excused
    <2> QED  BY <2>2, <2>3, <2>4, <2>5, <2>6 DEF Excused
  <1> QED  BY <1>2, <1>3, <1>4

\* Nothing changes in the page tables.
LEMMA OwnerSame ==
    ASSUME TypeOK, OwnerInv, NEW e \in Env, OthersStay(e), pt' = pt,
           \A f \in Env, va, vb \in VA :
              /\ ~Fixing(e, va, vb)
              /\ Splitting(e, va, f, vb) => Splitting(e, va, f, vb)'
              /\ Lending(e, va, f, vb) /\ Present(pt[e][va]) => Lending(e, va, f, vb)'
    PROVE  OwnerInv'
  <1> SUFFICES ASSUME NEW a \in Env, NEW b \in Env, NEW va \in VA, NEW vb \in VA,
                      Private(a, va), pt[b][vb].page = pt[a][va].page, a # b \/ va # vb
               PROVE  Excused(a, va, b, vb)'
    BY DEF OwnerInv, Private
  <1>0. Present(pt[a][va]) /\ Present(pt[b][vb])
    <2>1. pt[a][va] \in Entries /\ pt[b][vb] \in Entries
      BY DEF TypeOK
    <2>2. pt[a][va].page # 0
      BY <2>1, EntryPage DEF Private
    <2> QED  BY <2>2 DEF Present, Absent
  <1>1. Excused(a, va, b, vb)
    BY DEF OwnerInv
  <1>2. CASE a = b /\ Fixing(a, va, vb)
    <2>1. Fixing(a, va, vb)'
      BY <1>2, SMTT(60) DEF OthersStay, Fixing, Top
    <2> QED  BY <1>2, <2>1 DEF Excused
  <1>3. CASE Lending(a, va, b, vb)
    <2>1. Lending(a, va, b, vb)'
      <3>1. CASE a = e
        BY <1>0, <1>3, <3>1
      <3>2. CASE a # e
        BY <1>3, <3>2 DEF OthersStay, Lending
      <3> QED  BY <3>1, <3>2
    <2> QED  BY <2>1 DEF Excused
  <1>4. CASE Lending(b, vb, a, va)
    <2>1. Lending(b, vb, a, va)'
      <3>1. CASE b = e
        BY <1>0, <1>4, <3>1
      <3>2. CASE b # e
        BY <1>4, <3>2 DEF OthersStay, Lending
      <3> QED  BY <3>1, <3>2
    <2> QED  BY <2>1 DEF Excused
  <1>5. CASE Splitting(a, va, b, vb)
    <2>1. Splitting(a, va, b, vb)'
      <3>1. CASE a = e
        BY <1>5, <3>1
      <3>2. CASE a # e
        BY <1>5, <3>2 DEF OthersStay, Splitting
      <3> QED  BY <3>1, <3>2
    <2> QED  BY <2>1 DEF Excused
  <1> QED  BY <1>1, <1>2, <1>3, <1>4, <1>5 DEF Excused

LEMMA PanicsKeeps ==
    ASSUME IInv, TypeOK', NEW e \in Env, env_status[e] = "RUNNABLE", Panics(e)
    PROVE  IInv'
  <1>1. /\ env_status' = [env_status EXCEPT ![e] = "PANIC"]
        /\ pt' = pt /\ mem' = mem /\ upcall' = upcall /\ handler' = handler /\ pc' = pc /\ utf' = utf
        /\ child' = child /\ addr' = addr /\ perm' = perm /\ word' = word /\ shared' = shared /\ refused' = refused
    BY DEF Panics, locals, history
  <1>2. FamilyInv'
    BY <1>1 DEF IInv, TypeOK, FamilyInv
  <1>3. FrameInv'
    BY <1>1, Zenon DEF IInv, FrameInv, FrameOf
  <1>4. TempInv'
    BY <1>1, Zenon DEF IInv, TempInv, TempOf
  <1>5. DupInv'
    BY <1>1, Zenon DEF IInv, DupInv, DupOf, Present
  <1>6. ShareInv'
    <2>1. ShareInv
      BY DEF IInv
    <2> QED  BY <1>1, <2>1 DEF ShareInv
  <1>7. OwnerInv'
    <2>1. OwnerInv
      BY DEF IInv
    <2>2. ASSUME NEW a \in Env, NEW b \in Env, NEW va \in VA, NEW vb \in VA, Excused(a, va, b, vb)
          PROVE  Excused(a, va, b, vb)'
      BY <1>1, <2>2 DEF Excused, Fixing, Lending, Splitting, Top
    <2> QED  BY <1>1, <2>1, <2>2 DEF OwnerInv, Private
  <1>8. CopyInv'
    BY <1>1, Zenon DEF IInv, CopyInv, CopyOf, Top
  <1>9. ReadyInv'
    BY <1>1, Zenon DEF IInv, ReadyInv, ReadyOf, Present
  <1>10. MemoryIsPrivate'
    <2>1. MemoryIsPrivate /\ env_status \in [Env -> Statuses]
      BY DEF IInv, TypeOK
    <2> QED  BY <1>1, <2>1 DEF MemoryIsPrivate, Present
  <1> QED  BY <1>2, <1>3, <1>4, <1>5, <1>6, <1>7, <1>8, <1>9, <1>10 DEF IInv

LEMMA DiesKeeps ==
    ASSUME IInv, TypeOK', NEW e \in Env, env_status[e] = "RUNNABLE", Dies(e)
    PROVE  IInv'
  <1>1. /\ env_status'[e] = "FREE" /\ pt'[e] = NoPages /\ handler'[e] = None /\ pc'[e] = "run" /\ utf'[e] = <<>>
        /\ child'[e] = e /\ mem' = mem /\ shared' = shared
        /\ \A f \in Env : f # e =>
              /\ env_status'[f] = env_status[f] /\ pt'[f] = pt[f] /\ handler'[f] = handler[f] /\ pc'[f] = pc[f]
              /\ utf'[f] = utf[f] /\ child'[f] = child[f] /\ addr'[f] = addr[f] /\ perm'[f] = perm[f]
              /\ word'[f] = word[f]
    BY DEF IInv, TypeOK, Dies
  <1>2. \A va \in VA : pt'[e][va] = Absent
    BY <1>1 DEF NoPages
  <1>3. (\A f \in Env : pc[f] \in InFork => child[f] # e /\ child[f] \in Env) /\ (\A f \in Env : child[f] # f => child[f] # e)
    BY Runner DEF IInv
  <1>4. FamilyInv'
    <2>1. FamilyInv /\ child \in [Env -> Env] /\ "run" \notin InFork
      BY DEF IInv, TypeOK, InFork, Stack
    <2> QED  BY <1>1, <1>3, <2>1 DEF FamilyInv
  <1>5. FrameInv'
    BY <1>1 DEF IInv, FrameInv, FrameOf
  <1>6. TempInv'
    <2>1. TempInv /\ PFTEMP \in VA /\ {"memmove", "untemp"} \subseteq InFork
      BY ForkAssumption DEF IInv, InFork, Stack
    <2> QED  BY <1>1, <1>2, <1>3, <2>1 DEF TempInv, TempOf
  <1>7. DupInv'
    BY <1>1, ZenonT(60) DEF IInv, DupInv, DupOf, InFork, Stack
  <1>8. ShareInv'
    <2>1. ShareInv /\ {0, USTACK, DATA, PFTEMP} \subseteq VA
      BY ForkAssumption DEF IInv
    <2>2. ~Absent.share /\ Absent.page = 0 /\ \A f \in Env, va \in VA : pt[f][va].share => pt[f][va].page # 0
      BY EntryPage DEF IInv, TypeOK, Absent
    <2> HIDE DEF Absent
    <2> QED  BY <1>1, <1>2, <2>1, <2>2, SMTT(60) DEF ShareInv
  <1>9. OwnerInv'
    <2> SUFFICES ASSUME NEW a \in Env, NEW b \in Env, NEW va \in VA, NEW vb \in VA,
                        Private(a, va)', pt'[b][vb].page = pt'[a][va].page, a # b \/ va # vb
                 PROVE  Excused(a, va, b, vb)'
      BY DEF OwnerInv
    <2>1. a # e /\ Private(a, va) /\ pt'[a][va].page = pt[a][va].page
      BY <1>1, <1>2 DEF Private, Absent
    <2>2. pt[a][va].page # 0
      BY <2>1, EntryPage DEF Private, IInv, TypeOK
    <2>3. b # e
      BY <1>2, <2>1, <2>2 DEF Absent
    <2>4. Excused(a, va, b, vb)
      BY <1>1, <2>1, <2>3 DEF IInv, OwnerInv
    <2> QED  BY <1>1, <2>1, <2>3, <2>4 DEF Excused, Fixing, Lending, Splitting, Top
  <1>10. CopyInv'
    BY <1>1 DEF IInv, CopyInv, CopyOf, Top
  <1>11. ReadyInv'
    <2>1. ReadyInv /\ {"untemp", "set upcall", "set status"} \subseteq InFork /\ "run" \notin {"untemp", "set upcall", "set status"}
      BY DEF IInv, InFork, Stack
    <2> SUFFICES ASSUME NEW f \in Env, pc'[f] \in {"untemp", "set upcall", "set status"},
                        Present(pt'[child'[f]][USTACK])
                 PROVE  mem'[pt'[child'[f]][USTACK].page] = word'[child'[f]][USTACK]
      BY DEF ReadyInv, ReadyOf
    <2>2. f # e
      BY <1>1, <2>1
    <2>3. child'[f] = child[f] /\ child[f] \in Env /\ child[f] # e /\ pc'[f] = pc[f]
      BY <1>1, <1>3, <2>1, <2>2
    <2>4. pt'[child[f]] = pt[child[f]] /\ word'[child[f]] = word[child[f]] /\ mem' = mem
      BY <1>1, <2>3
    <2>5. Present(pt[child[f]][USTACK]) /\ pc[f] \in {"untemp", "set upcall", "set status"}
      BY <2>3, <2>4
    <2>6. mem[pt[child[f]][USTACK].page] = word[child[f]][USTACK]
      BY <2>1, <2>5 DEF ReadyInv, ReadyOf
    <2> QED  BY <2>3, <2>4, <2>6
  <1>12. MemoryIsPrivate'
    BY <1>1, <1>2 DEF IInv, MemoryIsPrivate
  <1> QED  BY <1>4, <1>5, <1>6, <1>7, <1>8, <1>9, <1>10, <1>11, <1>12 DEF IInv

\* Environments other than e and c do not notice the step.
Apart(e, c) ==
    \A f \in Env \ {e, c} :
        /\ env_status'[f] = env_status[f] /\ handler'[f] = handler[f] /\ pc'[f] = pc[f] /\ utf'[f] = utf[f]
        /\ child'[f] = child[f] /\ addr'[f] = addr[f] /\ perm'[f] = perm[f]
        /\ pt'[f] = pt[f] /\ word'[f] = word[f]
        /\ \A va \in VA : Present(pt[f][va]) =>
              IF pt[f][va].share THEN mem'[pt[f][va].page] = shared'[va]
              ELSE mem'[pt[f][va].page] = mem[pt[f][va].page]

Good(e) == FrameOf(e) /\ TempOf(e) /\ DupOf(e) /\ CopyOf(e) /\ ReadyOf(e) /\ MemOf(e)

LEMMA ApartKeep ==
    ASSUME IInv, NEW e \in Env, NEW c \in Env, Apart(e, c),
           NEW f \in Env, f \notin {e, c}, child[f] \notin {e, c}
    PROVE  Good(f)'
  <1>1. /\ env_status'[f] = env_status[f] /\ handler'[f] = handler[f] /\ pc'[f] = pc[f] /\ utf'[f] = utf[f]
        /\ child'[f] = child[f] /\ addr'[f] = addr[f] /\ perm'[f] = perm[f]
        /\ pt'[f] = pt[f] /\ word'[f] = word[f]
        /\ \A va \in VA : Present(pt[f][va]) =>
              IF pt[f][va].share THEN mem'[pt[f][va].page] = shared'[va]
              ELSE mem'[pt[f][va].page] = mem[pt[f][va].page]
    BY DEF Apart
  <1>2. FrameOf(f)'
    <2>1. FrameOf(f)
      BY DEF IInv, FrameInv
    <2> QED  BY <1>1, <2>1 DEF FrameOf
  <1>3. child[f] \in Env /\ PFTEMP \in VA /\ USTACK \in VA /\ Top(f)' = Top(f)
    BY <1>1, ForkAssumption DEF IInv, TypeOK, Top
  <1>4. /\ pt'[child[f]] = pt[child[f]] /\ word'[child[f]] = word[child[f]]
        /\ \A va \in VA : Present(pt[child[f]][va]) /\ ~pt[child[f]][va].share =>
              mem'[pt[child[f]][va].page] = mem[pt[child[f]][va].page]
    BY <1>3 DEF Apart
  <1>5. ~pt[f][PFTEMP].share /\ ~pt[child[f]][USTACK].share
    BY <1>3 DEF IInv, ShareInv
  <1>6. TempOf(f)'
    <2>1. TempOf(f)
      BY DEF IInv, TempInv
    <2> QED  BY <1>1, <1>4, <2>1 DEF TempOf
  <1>7. DupOf(f)'
    <2>1. DupOf(f)
      BY DEF IInv, DupInv
    <2> QED  BY <1>1, <2>1 DEF DupOf
  <1>8. CopyOf(f)'
    <2>1. CopyOf(f)
      BY DEF IInv, CopyInv
    <2>2. pt[f][PFTEMP] # Absent => mem'[pt[f][PFTEMP].page] = mem[pt[f][PFTEMP].page]
      BY <1>1, <1>3, <1>5 DEF Present
    <2> QED  BY <1>1, <1>3, <2>1, <2>2 DEF CopyOf
  <1>9. ReadyOf(f)'
    <2>1. ReadyOf(f)
      BY DEF IInv, ReadyInv
    <2>2. Present(pt[child[f]][USTACK]) => mem'[pt[child[f]][USTACK].page] = mem[pt[child[f]][USTACK].page]
      BY <1>3, <1>4, <1>5
    <2> QED  BY <1>1, <1>4, <2>1, <2>2 DEF ReadyOf
  <1>10. MemOf(f)'
    <2> SUFFICES ASSUME NEW va \in VA \ {PFTEMP}, Present(pt[f][va]), env_status[f] # "FREE"
                 PROVE  \/ pt[f][va].share /\ mem'[pt[f][va].page] = shared'[va]
                        \/ ~pt[f][va].share /\ mem'[pt[f][va].page] = word[f][va]
                        \/ env_status[f] = "NOT_RUNNABLE" /\ va = USTACK
      BY <1>1 DEF MemOf
    <2>1. \/ pt[f][va].share /\ mem[pt[f][va].page] = shared[va]
          \/ ~pt[f][va].share /\ mem[pt[f][va].page] = word[f][va]
          \/ env_status[f] = "NOT_RUNNABLE" /\ va = USTACK
      BY DEF IInv, MemoryIsPrivate
    <2> QED  BY <1>1, <2>1
  <1> QED  BY <1>2, <1>6, <1>7, <1>8, <1>9, <1>10 DEF Good

\* A child that its parent is still making: it does not move.
LEMMA ChildKeeps ==
    ASSUME IInv, TypeOK', NEW c \in Env, env_status[c] = "NOT_RUNNABLE",
           handler'[c] = handler[c], pc'[c] = pc[c], utf'[c] = utf[c],
           pt'[c][PFTEMP] = pt[c][PFTEMP], MemOf(c)'
    PROVE  Good(c)'
  <1>1. utf[c] = <<>> /\ child[c] = c /\ pc[c] = "child" /\ handler[c] = None
    BY DEF IInv, FamilyInv
  <1>2. None # "alloc" /\ "child" \notin InFork
    BY DEF None, InFork, Stack
  <1>3. FrameOf(c)'
    BY <1>1, <1>2 DEF FrameOf
  <1>4. TempOf(c)'
    BY <1>1, <1>2 DEF IInv, TempInv, TempOf
  <1>5. DupOf(c)' /\ CopyOf(c)' /\ ReadyOf(c)'
    BY <1>1, <1>2 DEF DupOf, CopyOf, ReadyOf
  <1> QED  BY <1>3, <1>4, <1>5 DEF Good

LEMMA AllGood ==
    ASSUME TypeOK', FamilyInv', ShareInv', OwnerInv', \A f \in Env : Good(f)'
    PROVE  IInv'
  <1>1. FrameInv' /\ TempInv' /\ DupInv' /\ CopyInv' /\ ReadyInv'
    BY DEF Good, FrameInv, TempInv, DupInv, CopyInv, ReadyInv
  <1>2. MemoryIsPrivate'
    BY DEF Good, MemOf, MemoryIsPrivate
  <1> QED  BY <1>1, <1>2 DEF IInv

\* The step of a running environment e, and of the child that it is making.
LEMMA StepKeeps ==
    ASSUME IInv, TypeOK', NEW e \in Env, env_status[e] = "RUNNABLE", OthersStay(e), Apart(e, child[e]),
           child[e] # e => pt'[child[e]][PFTEMP] = pt[child[e]][PFTEMP] /\ MemOf(child[e])',
           env_status'[e] = "RUNNABLE", child'[e] = child[e], pc[e] \in InFork <=> pc'[e] \in InFork,
           ShareInv', OwnerInv', Good(e)'
    PROVE  IInv'
  <1>1. child[e] \in Env /\ \A f \in Env \ {e} : utf'[f] = utf[f] /\ child'[f] = child[f] /\ handler'[f] = handler[f]
                                                /\ env_status'[f] = env_status[f] /\ pc'[f] = pc[f]
    BY DEF IInv, TypeOK, OthersStay
  <1>2. \A f \in Env : child[f] # f => child[f] # e /\ (f # e => child[f] # child[e])
    BY Runner DEF IInv, FamilyInv
  <1>3. child[e] # e => env_status[child[e]] = "NOT_RUNNABLE" /\ child[child[e]] = child[e]
    BY <1>1 DEF IInv, FamilyInv
  <1>4. FamilyInv'
    <2>1. FamilyInv
      BY DEF IInv
    <2>2. ASSUME NEW f \in Env, env_status'[f] = "FREE" PROVE pt'[f] = pt[f]
      <3>1. f # e /\ env_status[f] = "FREE"
        BY <1>1, <2>2
      <3>2. f # child[e]
        BY <1>3, <3>1
      <3> QED  BY <3>1, <3>2 DEF Apart
    <2>3. ASSUME NEW f \in Env
          PROVE  /\ env_status'[f] = env_status[f] \/ f = e
                 /\ child'[f] = child[f] /\ (pc[f] \in InFork <=> pc'[f] \in InFork)
      BY <1>1
    <2>4. ASSUME NEW f \in Env
          PROVE  /\ env_status'[f] = "FREE" =>
                       pt'[f] = NoPages /\ utf'[f] = <<>> /\ child'[f] = f /\ pc'[f] = "run" /\ handler'[f] = None
                 /\ env_status'[f] = "NOT_RUNNABLE" =>
                       utf'[f] = <<>> /\ child'[f] = f /\ pc'[f] = "child" /\ handler'[f] = None
      <3>1. CASE f = e
        BY <3>1
      <3>2. CASE f # e
        BY <1>1, <2>1, <2>2, <3>2 DEF FamilyInv
      <3> QED  BY <3>1, <3>2
    <2>5. \A f \in Env : child'[f] # f <=> pc'[f] \in InFork
      BY <2>1, <2>3 DEF FamilyInv
    <2>6. ASSUME NEW f \in Env, child'[f] # f PROVE env_status'[child'[f]] = "NOT_RUNNABLE"
      <3>1. child[f] # f /\ child[f] \in Env /\ child[f] # e
        BY <1>2, <2>3, <2>6 DEF IInv, TypeOK
      <3> QED  BY <1>1, <2>1, <2>3, <3>1 DEF FamilyInv
    <2>7. \A a, b \in Env : child'[a] # a /\ child'[b] # b /\ child'[a] = child'[b] => a = b
      BY <2>1, <2>3 DEF FamilyInv
    <2> QED  BY <2>4, <2>5, <2>6, <2>7 DEF FamilyInv
  <1>5. ASSUME NEW f \in Env, f \notin {e, child[e]} PROVE Good(f)'
    <2>1. child[f] \notin {e, child[e]}
      BY <1>2, <1>5
    <2> QED  BY <1>1, <1>5, <2>1, ApartKeep
  <1>6. child[e] # e => Good(child[e])'
    BY <1>1, <1>3, ChildKeeps
  <1> QED  BY <1>4, <1>5, <1>6, AllGood

LEMMA NowGood ==
    ASSUME IInv, NEW e \in Env
    PROVE  Good(e)
  <1>1. FrameOf(e) /\ TempOf(e) /\ DupOf(e) /\ CopyOf(e) /\ ReadyOf(e)
    BY DEF IInv, FrameInv, TempInv, DupInv, CopyInv, ReadyInv
  <1>2. MemOf(e)
    BY DEF IInv, MemoryIsPrivate, MemOf
  <1> QED  BY <1>1, <1>2 DEF Good

LEMMA SharedWords ==
    ASSUME IInv, NEW f \in Env, NEW va \in VA, Present(pt[f][va]), pt[f][va].share
    PROVE  mem[pt[f][va].page] = shared[va]
  <1>1. va # PFTEMP /\ (va = USTACK => ~pt[f][va].share)
    BY DEF IInv, ShareInv
  <1>2. env_status[f] # "FREE"
    BY DEF IInv, FamilyInv, Present, NoPages
  <1> QED  BY <1>1, <1>2 DEF IInv, MemoryIsPrivate

\* A step of e that touches only entries of its own and pages of its own.
LEMMA StepMine ==
    ASSUME IInv, TypeOK', NEW e \in Env, env_status[e] = "RUNNABLE", OthersStay(e), shared' = shared,
           \A f \in Env \ {e} :
              /\ pt'[f] = pt[f] /\ word'[f] = word[f]
              /\ \A va \in VA : Present(pt[f][va]) => mem'[pt[f][va].page] = mem[pt[f][va].page],
           env_status'[e] = "RUNNABLE", child'[e] = child[e], pc[e] \in InFork <=> pc'[e] \in InFork,
           ShareInv', OwnerInv', Good(e)'
    PROVE  IInv'
  <1>1. ASSUME NEW f \in Env, NEW va \in VA, Present(pt[f][va]), pt[f][va].share
        PROVE  mem[pt[f][va].page] = shared[va]
    BY <1>1, SharedWords
  <1>2. Apart(e, child[e])
    BY <1>1 DEF Apart, OthersStay
  <1>3. PFTEMP \in VA /\ child[e] \in Env
    BY ForkAssumption DEF IInv, TypeOK
  <1>4. ASSUME child[e] # e PROVE pt'[child[e]][PFTEMP] = pt[child[e]][PFTEMP] /\ MemOf(child[e])'
    <2>1. MemOf(child[e])
      BY <1>3, NowGood DEF Good
    <2>2. env_status'[child[e]] = env_status[child[e]]
      BY <1>3, <1>4 DEF OthersStay
    <2> QED  BY <1>3, <1>4, <2>1, <2>2 DEF MemOf
  <1> QED  BY <1>2, <1>4, StepKeeps

\* Where and when a fault is taken.
MayFault(e, va) ==
    /\ ~pt[e][va].share
    /\ utf[e] = <<>> \/ Top(e).at \in {"copy", "print", "lost"}
    /\ pc[e] \notin {"dup child", "dup self"}
    /\ utf[e] = <<>> /\ pc[e] \in {"memmove", "untemp"} => ~Present(pt[e][PFTEMP])

LEMMA FaultKeeps ==
    ASSUME IInv, TypeOK', NEW e \in Env, env_status[e] = "RUNNABLE",
           NEW va \in VA, NEW wr \in BOOLEAN, page_fault_handler(e, va, wr), MayFault(e, va)
    PROVE  IInv'
  <1>1. CASE Dies(e)
    BY <1>1, DiesKeeps
  <1>2. CASE ~Dies(e)
    <2> DEFINE x == Frame(va, wr, "enter")
    <2>1. utf' = [utf EXCEPT ![e] = Append(@, x)]
          /\ env_status' = env_status /\ pt' = pt /\ mem' = mem /\ handler' = handler /\ pc' = pc
          /\ child' = child /\ addr' = addr /\ perm' = perm /\ word' = word /\ shared' = shared
      BY <1>2 DEF page_fault_handler, locals, history
    <2>2. x \in Frames /\ x.va = va /\ x.at = "enter"
      BY DEF Frame, Frames
    <2>3. TypeOK /\ Good(e)
      BY NowGood DEF IInv
    <2> HIDE DEF x
    <2>4. /\ utf' \in [Env -> Seq(Frames)] /\ \A f \in Env : f # e => utf'[f] = utf[f]
          /\ utf'[e] # <<>> /\ Top(e)' = x /\ Len(utf'[e]) = Len(utf[e]) + 1
          /\ \A i \in 1..Len(utf[e]) : utf'[e][i] = utf[e][i]
      BY <2>1, <2>2, <2>3, Pushing
    <2>5. /\ utf[e] \in Seq(Frames) /\ Len(utf[e]) \in Nat /\ DOMAIN utf[e] = 1..Len(utf[e])
          /\ DOMAIN utf'[e] = 1..(Len(utf[e]) + 1)
      BY <2>3, <2>4, FrameStack DEF TypeOK
    <2>6. OthersStay(e)
      BY <2>1, <2>4 DEF OthersStay
    <2>7. FrameOf(e)'
      <3> DEFINE n == Len(utf[e])
      <3>1. n \in Nat /\ DOMAIN utf'[e] = 1..(n + 1) /\ DOMAIN utf[e] = 1..n /\ Len(utf'[e]) = n + 1
            /\ utf'[e][n + 1] = x /\ (n # 0 => utf[e][n].at \in {"copy", "print", "lost"})
            /\ \A i \in 1..n : utf'[e][i] = utf[e][i]
        BY <2>4, <2>5, FrameStack DEF Top, MayFault
      <3>0. n \in Nat
        BY <3>1
      <3>a. \A i \in 1..n : utf'[e][i] = utf[e][i]
        BY <3>1
      <3>b. utf'[e][n + 1] = x
        BY <3>1
      <3>c. n # 0 => utf[e][n].at \in {"copy", "print", "lost"}
        BY <3>1
      <3> HIDE DEF n
      <3>2. ASSUME NEW i \in 1..(n + 1)
            PROVE  /\ ~pt[e][utf'[e][i].va].share
                   /\ utf'[e][i].at = "print" => handler[e] = "alloc"
                   /\ utf'[e][i].at \in {"copy", "map", "unmap"} => handler[e] # "alloc"
                   /\ i < n + 1 => utf'[e][i].at \in {"copy", "print", "lost"}
        <4>1. CASE i = n + 1
          <5>1. utf'[e][i].va = va /\ utf'[e][i].at = "enter" /\ ~(i < n + 1)
            BY <2>2, <3>0, <3>b, <4>1
          <5> QED  BY <5>1 DEF MayFault
        <4>2. CASE i # n + 1
          <5>1. i \in 1..n /\ (i = n \/ i < n) /\ utf'[e][i] = utf[e][i]
            BY <3>0, <3>a, <4>2
          <5>2. i = n => utf[e][i].at \in {"copy", "print", "lost"}
            BY <3>c, <5>1, <3>0
          <5> QED  BY <2>3, <3>1, <5>1, <5>2 DEF FrameOf, Good, n
        <4> QED  BY <4>1, <4>2
      <3>3. handler' = handler /\ pc' = pc /\ pt' = pt
        BY <2>1
      <3>4. handler[e] = "alloc" => pc[e] = "run"
        BY <2>3 DEF FrameOf, Good
      <3> QED  BY <3>1, <3>2, <3>3, <3>4 DEF FrameOf
    <2>8. TempOf(e)' /\ DupOf(e)' /\ CopyOf(e)'
      BY <2>1, <2>2, <2>3, <2>4 DEF TempOf, DupOf, CopyOf, Good, MayFault
    <2>9. ReadyOf(e)' /\ MemOf(e)'
      BY <2>1, <2>3 DEF ReadyOf, MemOf, Good
    <2>10. ShareInv'
      <3>1. ShareInv /\ pt' = pt
        BY <2>1 DEF IInv
      <3> QED  BY <3>1 DEF ShareInv
    <2>11. OwnerInv'
      <3>1. OwnerInv
        BY DEF IInv
      <3>2. ASSUME NEW f \in Env, NEW a \in VA, NEW b \in VA
            PROVE  /\ ~Fixing(e, a, b)
                   /\ Splitting(e, a, f, b) => Splitting(e, a, f, b)'
                   /\ Lending(e, a, f, b) /\ Present(pt[e][a]) => Lending(e, a, f, b)'
        BY DEF Fixing, Splitting, Lending, MayFault
      <3> QED  BY <2>1, <2>3, <2>6, <3>1, <3>2, OwnerSame
    <2>12. Good(e)'
      BY <2>7, <2>8, <2>9 DEF Good
    <2> QED  BY <2>1, <2>6, <2>10, <2>11, <2>12, StepMine
  <1> QED  BY <1>1, <1>2

\* What a handler does to its own frame.
MayGo(e, place) ==
    /\ utf[e] # <<>> /\ Goto(e, place) /\ handler'[e] = handler[e] /\ pc'[e] = pc[e]
    /\ \A va \in VA : pt'[e][va] = pt[e][va] \/ ~pt'[e][va].share
    /\ place = "print" => handler[e] = "alloc"
    /\ place \in {"copy", "map", "unmap"} => handler[e] # "alloc"

LEMMA FrameGoes ==
    ASSUME IInv, NEW e \in Env, NEW place \in {"enter", "copy", "map", "unmap", "print", "lost"}, MayGo(e, place)
    PROVE  FrameOf(e)'
  <1> DEFINE n == Len(utf[e])
  <1>1. /\ utf'[e] \in Seq(Frames) /\ utf'[e] # <<>> /\ Top(e)'.va = Top(e).va /\ Top(e)'.at = place
        /\ Len(utf'[e]) = n /\ \A i \in 1..(n - 1) : utf'[e][i] = utf[e][i]
    BY Going DEF MayGo, IInv
  <1>2. n \in Nat /\ n # 0 /\ DOMAIN utf[e] = 1..n /\ DOMAIN utf'[e] = 1..n /\ n \in DOMAIN utf[e] /\ Top(e).va \in VA
        /\ \A i \in 1..n : utf[e][i].va \in VA
    <2>1. utf[e] \in Seq(Frames)
      BY DEF IInv, TypeOK
    <2>2. n \in Nat /\ n # 0 /\ DOMAIN utf[e] = 1..n /\ n \in DOMAIN utf[e] /\ Top(e).va \in VA
      BY HandlerFacts DEF IInv, MayGo
    <2>3. DOMAIN utf'[e] = 1..n
      BY <1>1, FrameStack
    <2>4. \A i \in 1..n : utf[e][i].va \in VA
      BY <2>1, FrameStack DEF Frames
    <2> QED  BY <2>2, <2>3, <2>4
  <1>3. FrameOf(e)
    BY NowGood DEF Good
  <1>4. /\ utf'[e][n].va = utf[e][n].va /\ utf'[e][n].at = place /\ Len(utf'[e]) = n
        /\ \A i \in 1..(n - 1) : utf'[e][i] = utf[e][i]
    BY <1>1 DEF Top
  <1>5. n \in Nat
    BY <1>2
  <1>6. DOMAIN utf[e] = 1..n
    BY <1>2
  <1>7. \A i \in 1..n : utf[e][i].va \in VA
    BY <1>2
  <1> HIDE DEF n
  <1>8. ASSUME NEW i \in 1..n
        PROVE  /\ ~pt'[e][utf'[e][i].va].share
               /\ utf'[e][i].at = "print" => handler[e] = "alloc"
               /\ utf'[e][i].at \in {"copy", "map", "unmap"} => handler[e] # "alloc"
               /\ i < n => utf'[e][i].at \in {"copy", "print", "lost"}
    <2>1. utf'[e][i].va = utf[e][i].va /\ (utf'[e][i] = utf[e][i] \/ (i = n /\ utf'[e][i].at = place))
      <3>1. i = n \/ i \in 1..(n - 1)
        BY <1>5
      <3> QED  BY <1>4, <3>1
    <2>2. ~pt[e][utf[e][i].va].share /\ utf[e][i].va \in VA
      BY <1>3, <1>6, <1>7 DEF FrameOf
    <2>3. ~pt'[e][utf'[e][i].va].share
      BY <2>1, <2>2 DEF MayGo
    <2>4. CASE utf'[e][i] = utf[e][i]
      BY <1>3, <1>6, <2>3, <2>4 DEF FrameOf, n
    <2>5. CASE i = n /\ utf'[e][i].at = place
      <3>1. ~(i < n)
        BY <1>5, <2>5
      <3> QED  BY <2>3, <2>5, <3>1 DEF MayGo
    <2> QED  BY <2>1, <2>4, <2>5
  <1>9. handler'[e] = "alloc" => pc'[e] = "run"
    BY <1>3 DEF FrameOf, MayGo
  <1>10. handler'[e] = handler[e]
    BY DEF MayGo
  <1>11. DOMAIN utf'[e] = 1..n /\ Len(utf'[e]) = n
    BY <1>2, <1>4
  <1> QED  BY <1>8, <1>9, <1>10, <1>11 DEF FrameOf

MayReturn(e) ==
    /\ utf[e] # <<>> /\ Resume(e) /\ handler'[e] = handler[e] /\ pc'[e] = pc[e]
    /\ \A va \in VA : pt'[e][va] = pt[e][va] \/ ~pt'[e][va].share

LEMMA FrameReturns ==
    ASSUME IInv, NEW e \in Env, MayReturn(e)
    PROVE  /\ FrameOf(e)' /\ (utf'[e] # <<>> => Top(e)'.at \in {"copy", "print", "lost"})
           /\ \A f \in Env : f # e => utf'[f] = utf[f]
  <1> DEFINE n == Len(utf[e])
             m == n - 1
  <1>1. /\ utf'[e] \in Seq(Frames) /\ Len(utf'[e]) = m /\ \A f \in Env : f # e => utf'[f] = utf[f]
        /\ \A i \in 1..m : utf'[e][i].va = utf[e][i].va /\ utf'[e][i].at \in {utf[e][i].at, "lost"}
    BY Resuming DEF MayReturn, IInv
  <1>2. n \in Nat /\ n # 0 /\ DOMAIN utf[e] = 1..n
    BY HandlerFacts DEF IInv, MayReturn
  <1>3. \A i \in 1..n : utf[e][i].va \in VA
    <2>1. utf[e] \in Seq(Frames)
      BY DEF IInv, TypeOK
    <2> QED  BY <2>1, FrameStack DEF Frames
  <1>4. FrameOf(e)
    BY NowGood DEF Good
  <1>5. DOMAIN utf'[e] = 1..m /\ Len(utf'[e]) = m /\ (utf'[e] # <<>> => m # 0)
    BY <1>1, FrameStack
  <1>6. n \in Nat /\ n # 0 /\ m = n - 1
    BY <1>2
  <1>7. m \in Nat /\ \A i \in 1..m : i \in 1..n /\ i < n
    <2> HIDE DEF n
    <2> QED  BY <1>6
  <1>8. DOMAIN utf[e] = 1..n
    BY <1>2
  <1>9. ASSUME NEW i \in 1..m
        PROVE  /\ ~pt'[e][utf'[e][i].va].share
               /\ utf'[e][i].at = "print" => handler[e] = "alloc"
               /\ utf'[e][i].at \in {"copy", "map", "unmap"} => handler[e] # "alloc"
               /\ utf'[e][i].at \in {"copy", "print", "lost"}
    <2>1. i \in DOMAIN utf[e] /\ i < Len(utf[e])
      BY <1>7, <1>8
    <2>2. /\ ~pt[e][utf[e][i].va].share
          /\ utf[e][i].at = "print" => handler[e] = "alloc"
          /\ utf[e][i].at \in {"copy", "map", "unmap"} => handler[e] # "alloc"
          /\ utf[e][i].at \in {"copy", "print", "lost"}
      BY <1>4, <2>1 DEF FrameOf
    <2>3. utf'[e][i].va = utf[e][i].va /\ utf'[e][i].at \in {utf[e][i].at, "lost"}
      BY <1>1
    <2>4. utf[e][i].va \in VA
      BY <1>3, <1>7
    <2>5. ~pt'[e][utf[e][i].va].share
      BY <2>2, <2>4 DEF MayReturn
    <2> QED  BY <2>2, <2>3, <2>5
  <1>10. (handler'[e] = "alloc" => pc'[e] = "run") /\ handler'[e] = handler[e]
    BY <1>4 DEF FrameOf, MayReturn
  <1>11. FrameOf(e)'
    <2> HIDE DEF m, n
    <2> QED  BY <1>5, <1>9, <1>10 DEF FrameOf
  <1>12. utf'[e] # <<>> => Top(e)'.at \in {"copy", "print", "lost"}
    <2>1. utf'[e] # <<>> => m \in 1..m
      BY <1>5, <1>7
    <2> HIDE DEF m, n
    <2> QED  BY <1>5, <1>9, <2>1 DEF Top
  <1> QED  BY <1>1, <1>11, <1>12

\* e does nothing that excuses a second mapping of a writable page.
Unexcused(e) ==
    /\ utf[e] # <<>> => Top(e).at # "unmap"
    /\ utf[e] = <<>> => pc[e] \notin {"memmove", "untemp"}
    /\ pc[e] # "dup self"

LEMMA FreshKeeps ==
    ASSUME IInv, NEW e \in Env, OthersStay(e), Unexcused(e),
           NEW g \in Env, NEW x \in VA, FreePages # {}, Changes(g, x, Fresh(page_alloc))
    PROVE  ShareInv' /\ OwnerInv'
  <1> DEFINE y == Fresh(page_alloc)
  <1>1. TypeOK /\ ShareInv /\ OwnerInv
    BY DEF IInv
  <1>2. page_alloc \in Page /\ \A f \in Env, va \in VA : pt[f][va].page # page_alloc
    BY Allocated
  <1>3. y \in Entries /\ y.page = page_alloc /\ ~y.share
    BY <1>1, <1>2, Pages DEF Fresh
  <1>4. ASSUME NEW f \in Env, NEW va \in VA, NEW vb \in VA
        PROVE  ~Fixing(e, va, vb) /\ ~Lending(e, va, f, vb) /\ ~Splitting(e, va, f, vb)
    BY DEF Unexcused, Fixing, Lending, Splitting
  <1>5. Changes(g, x, y)
    OBVIOUS
  <1> HIDE DEF y
  <1>6. ShareInv'
    BY <1>1, <1>2, <1>3, <1>5, ShareKept
  <1>7. OnlyThere(e, g, x) /\ ExcusedThere(g, x, y)
    BY <1>2, <1>3, <1>4 DEF OnlyThere, ExcusedThere
  <1>8. OwnerInv'
    BY <1>1, <1>3, <1>5, <1>7, OwnerKept
  <1> QED  BY <1>6, <1>8

LEMMA UnmapKeeps ==
    ASSUME IInv, NEW e \in Env, OthersStay(e), NEW x \in VA, Changes(e, x, Absent),
           OnlyThere(e, e, x)
    PROVE  ShareInv' /\ OwnerInv'
  <1>1. TypeOK /\ ShareInv /\ OwnerInv
    BY DEF IInv
  <1>2. Absent \in Entries /\ Absent.page = 0 /\ ~Absent.share /\ ~Absent.w
    BY <1>1, Pages DEF Absent
  <1>3. ASSUME NEW f \in Env, NEW va \in VA, pt[f][va].w \/ pt[f][va].share PROVE pt[f][va].page # 0
    <2>1. pt[f][va] \in Entries
      BY <1>1 DEF TypeOK
    <2> QED  BY <1>3, <2>1, EntryPage
  <1> HIDE DEF Absent
  <1>4. ShareInv'
    BY <1>1, <1>2, <1>3, ShareKept
  <1>5. ExcusedThere(e, x, Absent)
    BY <1>2, <1>3 DEF ExcusedThere, Private
  <1>6. OwnerInv'
    BY <1>1, <1>2, <1>5, OwnerKept
  <1> QED  BY <1>4, <1>6

-------------------------------------------------------------------------------
(*****************************************************************************)
(* The steps of the fault handlers.                                          *)
(*****************************************************************************)
HandlerStep(e) ==
    /\ utf[e] # <<>> /\ env_status[e] = "RUNNABLE"
    /\ UNCHANGED <<env_status, handler, pc, child, addr, perm, shared>>
    /\ \A f \in Env : f # e => utf'[f] = utf[f] /\ pt'[f] = pt[f] /\ word'[f] = word[f]
    /\ \A f \in Env, va \in VA : f # e /\ Present(pt[f][va]) => mem'[pt[f][va].page] = mem[pt[f][va].page]
    /\ \A va \in {UTEXT, USTACK} : pt'[e][va] = pt[e][va] \/ (Present(pt'[e][va]) /\ pt'[e][va].w)

LEMMA HandlerKeeps ==
    ASSUME IInv, TypeOK', NEW e \in Env, HandlerStep(e), ShareInv', OwnerInv',
           FrameOf(e)', TempOf(e)', CopyOf(e)', MemOf(e)'
    PROVE  IInv'
  <1>1. /\ env_status' = env_status /\ handler' = handler /\ pc' = pc /\ child' = child /\ addr' = addr
        /\ perm' = perm /\ shared' = shared /\ env_status[e] = "RUNNABLE"
        /\ \A f \in Env : f # e => utf'[f] = utf[f] /\ pt'[f] = pt[f] /\ word'[f] = word[f]
        /\ \A f \in Env, va \in VA : f # e /\ Present(pt[f][va]) => mem'[pt[f][va].page] = mem[pt[f][va].page]
    BY DEF HandlerStep
  <1>2. OthersStay(e)
    BY <1>1 DEF OthersStay
  <1>3. Good(e) /\ child[e] \in Env /\ USTACK \in VA
    BY NowGood, ForkAssumption DEF IInv, TypeOK
  <1>4. pc[e] \notin {"dup child", "dup self"}
    BY <1>3 DEF Good, DupOf, HandlerStep
  <1>5. DupOf(e)'
    <2>1. /\ pc[e] \in {"memmove", "untemp"} => Present(pt'[e][UTEXT]) /\ pt'[e][USTACK].w
          /\ pc[e] \in InFork => addr[e] <= USTACK
      BY <1>3 DEF Good, DupOf, HandlerStep
    <2> QED  BY <1>1, <1>4, <2>1 DEF DupOf
  <1>6. ReadyOf(e)'
    <2> SUFFICES ASSUME pc[e] \in {"untemp", "set upcall", "set status"}, Present(pt'[child[e]][USTACK])
                 PROVE  mem'[pt'[child[e]][USTACK].page] = word'[child[e]][USTACK]
      BY <1>1 DEF ReadyOf
    <2>1. child[e] # e
      BY DEF IInv, FamilyInv, InFork, Stack
    <2>2. pt'[child[e]] = pt[child[e]] /\ word'[child[e]] = word[child[e]]
      BY <1>1, <1>3, <2>1
    <2>3. mem'[pt[child[e]][USTACK].page] = mem[pt[child[e]][USTACK].page]
      BY <1>1, <1>3, <2>1, <2>2
    <2> QED  BY <1>3, <2>2, <2>3 DEF Good, ReadyOf
  <1>7. Good(e)'
    BY <1>5, <1>6 DEF Good
  <1> QED  BY <1>1, <1>2, <1>7, StepMine

\* What a handler finds: its own frame, and nothing that PFTEMP is shared with.
LEMMA InHandler ==
    ASSUME IInv, NEW e \in Env, Handling(e)
    PROVE  /\ env_status[e] = "RUNNABLE" /\ utf[e] # <<>> /\ Top(e).va \in VA
           /\ pc[e] \notin {"dup child", "dup self"} /\ ~pt[e][Top(e).va].share
           /\ Top(e).at # "unmap" => Unexcused(e)
           /\ Top(e).at = "print" => handler[e] = "alloc"
           /\ Top(e).at \in {"copy", "map", "unmap"} => handler[e] # "alloc"
           /\ pt[e][PFTEMP] # Absent => Private(e, PFTEMP)
  <1>1. env_status[e] = "RUNNABLE" /\ utf[e] # <<>> /\ Good(e)
    BY NowGood DEF Handling
  <1>2. Top(e).va \in VA /\ Len(utf[e]) \in DOMAIN utf[e]
    BY <1>1, HandlerFacts DEF IInv
  <1>3. pc[e] \notin {"dup child", "dup self"}
    BY <1>1 DEF Good, DupOf
  <1>4. /\ ~pt[e][Top(e).va].share
        /\ Top(e).at = "print" => handler[e] = "alloc"
        /\ Top(e).at \in {"copy", "map", "unmap"} => handler[e] # "alloc"
    <2>1. FrameOf(e)
      BY <1>1 DEF Good
    <2> QED  BY <1>2, <2>1 DEF FrameOf, Top
  <1>5. Top(e).at # "unmap" => Unexcused(e)
    BY <1>1, <1>3 DEF Unexcused
  <1>6. pt[e][PFTEMP] # Absent => Private(e, PFTEMP)
    BY <1>1, ForkAssumption DEF Good, TempOf, Private, IInv, ShareInv
  <1> QED  BY <1>1, <1>2, <1>3, <1>4, <1>5, <1>6

LEMMA FreshPage ==
    ASSUME TypeOK, FreePages # {}, mem' = [mem EXCEPT ![page_alloc] = Zero]
    PROVE  /\ mem'[page_alloc] = Zero /\ Present(Fresh(page_alloc)) /\ Fresh(page_alloc).page = page_alloc
           /\ Fresh(page_alloc).w /\ ~Fresh(page_alloc).share
           /\ \A f \in Env, va \in VA : Present(pt[f][va]) => mem'[pt[f][va].page] = mem[pt[f][va].page]
  <1>1. page_alloc \in Page /\ page_alloc # 0 /\ \A f \in Env, va \in VA : pt[f][va].page # page_alloc
    BY Allocated
  <1>2. mem \in [Page -> Words]
    BY DEF TypeOK
  <1>3. ASSUME NEW f \in Env, NEW va \in VA, Present(pt[f][va]) PROVE mem'[pt[f][va].page] = mem[pt[f][va].page]
    <2>1. pt[f][va] \in Entries
      BY DEF TypeOK
    <2>2. pt[f][va].page \in Page
      BY <1>3, <2>1, EntryPage DEF Present
    <2> QED  BY <1>1, <1>2, <2>2
  <1>4. mem'[page_alloc] = Zero
    BY <1>1, <1>2
  <1>5. /\ Present(Fresh(page_alloc)) /\ Fresh(page_alloc).page = page_alloc
        /\ Fresh(page_alloc).w /\ ~Fresh(page_alloc).share
    BY <1>1 DEF Fresh, Present, Absent
  <1> QED  BY <1>3, <1>4, <1>5

LEMMA PgfaultAllocKeeps ==
    ASSUME IInv, TypeOK', NEW e \in Env, pgfault_alloc(e)
    PROVE  IInv'
  <1>1. /\ Handling(e) /\ Top(e).at = "enter" /\ handler[e] = "pgfault"
        /\ \/ Panics(e)
           \/ /\ FreePages # {} /\ pt' = [pt EXCEPT ![e][PFTEMP] = Fresh(page_alloc)]
              /\ mem' = [mem EXCEPT ![page_alloc] = Zero] /\ Goto(e, "copy")
              /\ UNCHANGED <<env_status, upcall, handler, pc, locals, history>>
    BY DEF pgfault_alloc, At
  <1>2. TypeOK /\ env_status[e] = "RUNNABLE" /\ utf[e] # <<>> /\ Unexcused(e) /\ Good(e)
    BY <1>1, InHandler, NowGood DEF IInv
  <1>3. CASE Panics(e)
    BY <1>2, <1>3, PanicsKeeps
  <1>4. CASE /\ FreePages # {} /\ pt' = [pt EXCEPT ![e][PFTEMP] = Fresh(page_alloc)]
             /\ mem' = [mem EXCEPT ![page_alloc] = Zero] /\ Goto(e, "copy")
             /\ UNCHANGED <<env_status, upcall, handler, pc, locals, history>>
    <2> DEFINE y == Fresh(page_alloc)
    <2>1. PFTEMP \in VA /\ PFTEMP \notin {UTEXT, USTACK} /\ UTEXT \in VA /\ USTACK \in VA
      BY Addresses
    <2>2. Changes(e, PFTEMP, y)
      BY <1>4 DEF Changes
    <2>3. /\ Present(y) /\ y.w /\ ~y.share
          /\ \A f \in Env, va \in VA : Present(pt[f][va]) => mem'[pt[f][va].page] = mem[pt[f][va].page]
      BY <1>2, <1>4, FreshPage
    <2> HIDE DEF y
    <2>4. /\ pt'[e][PFTEMP] = y /\ \A va \in VA : va # PFTEMP => pt'[e][va] = pt[e][va]
          /\ \A f \in Env : f # e => pt'[f] = pt[f]
      BY <1>2, <2>1, <2>2, Changed
    <2>5. utf'[e] # <<>> /\ Top(e)'.at = "copy" /\ \A f \in Env : f # e => utf'[f] = utf[f]
      BY <1>2, <1>4, Going
    <2>6. UNCHANGED <<env_status, handler, pc, child, addr, perm, word, shared>>
      BY <1>4 DEF locals, history
    <2>7. HandlerStep(e)
      BY <1>2, <2>1, <2>3, <2>4, <2>5, <2>6 DEF HandlerStep
    <2>8. OthersStay(e)
      BY <2>5, <2>6 DEF OthersStay
    <2>9. ShareInv' /\ OwnerInv'
      BY <1>2, <1>4, <2>1, <2>2, <2>8, FreshKeeps DEF y
    <2>10. FrameOf(e)'
      <3>1. MayGo(e, "copy")
        BY <1>1, <1>2, <1>4, <2>1, <2>3, <2>4, <2>6 DEF MayGo
      <3> QED  BY <3>1, FrameGoes
    <2>11. TempOf(e)' /\ CopyOf(e)'
      BY <2>3, <2>4, <2>5 DEF TempOf, CopyOf
    <2>12. MemOf(e)'
      <3>1. MemOf(e)
        BY <1>2 DEF Good
      <3> QED  BY <2>3, <2>4, <2>6, <3>1 DEF MemOf
    <2> QED  BY <2>7, <2>9, <2>10, <2>11, <2>12, HandlerKeeps
  <1> QED  BY <1>1, <1>3, <1>4

\* The page at PFTEMP is nobody else's.
LEMMA TempPage ==
    ASSUME IInv, NEW e \in Env, Handling(e), Top(e).at # "unmap", pt[e][PFTEMP] # Absent
    PROVE  /\ pt[e][PFTEMP].page \in Page /\ pt[e][PFTEMP].w
           /\ \A f \in Env, va \in VA : e # f \/ va # PFTEMP => pt[f][va].page # pt[e][PFTEMP].page
  <1>1. PFTEMP \in VA /\ env_status[e] = "RUNNABLE" /\ utf[e] # <<>> /\ Private(e, PFTEMP)
    BY Addresses, InHandler
  <1>2. \A f \in Env, va \in VA : e # f \/ PFTEMP # va => pt[f][va].page # pt[e][PFTEMP].page
    BY <1>1, Sole
  <1>3. pt[e][PFTEMP].page \in Page
    BY <1>1, Sole
  <1>4. pt[e][PFTEMP].w
    BY <1>1 DEF Private
  <1> QED  BY <1>2, <1>3, <1>4

LEMMA PgfaultCopyKeeps ==
    ASSUME IInv, TypeOK', NEW e \in Env, pgfault_copy(e)
    PROVE  IInv'
  <1> DEFINE va == Top(e).va
  <1>1. /\ Handling(e) /\ Top(e).at = "copy"
        /\ \/ /\ Present(pt[e][va]) /\ mem' = [mem EXCEPT ![pt[e][PFTEMP].page] = mem[pt[e][va].page]] /\ Goto(e, "map")
              /\ UNCHANGED <<env_status, pt, upcall, handler, pc, locals, history>>
           \/ ~Present(pt[e][va]) /\ page_fault_handler(e, va, FALSE)
    BY DEF pgfault_copy, At
  <1>2. /\ TypeOK /\ env_status[e] = "RUNNABLE" /\ utf[e] # <<>> /\ Unexcused(e) /\ Good(e) /\ va \in VA
        /\ ~pt[e][va].share /\ pc[e] \notin {"dup child", "dup self"} /\ handler[e] # "alloc"
    BY <1>1, InHandler, NowGood DEF IInv
  <1>3. CASE page_fault_handler(e, va, FALSE)
    <2>1. MayFault(e, va)
      BY <1>1, <1>2 DEF MayFault
    <2> QED  BY <1>2, <1>3, <2>1, FaultKeeps
  <1>4. CASE /\ Present(pt[e][va]) /\ mem' = [mem EXCEPT ![pt[e][PFTEMP].page] = mem[pt[e][va].page]] /\ Goto(e, "map")
             /\ UNCHANGED <<env_status, pt, upcall, handler, pc, locals, history>>
    <2>1. utf'[e] # <<>> /\ Top(e)'.at = "map" /\ Top(e)'.va = va /\ \A f \in Env : f # e => utf'[f] = utf[f]
      BY <1>2, <1>4, Going
    <2>2. UNCHANGED <<env_status, pt, handler, pc, child, addr, perm, word, shared>>
      BY <1>4 DEF locals, history
    <2>3. ASSUME NEW f \in Env, NEW vb \in VA, Present(pt[f][vb]), f # e \/ vb # PFTEMP
          PROVE  mem'[pt[f][vb].page] = mem[pt[f][vb].page]
      <3>1. pt[f][vb].page \in Page /\ mem \in [Page -> Words]
        BY <1>2, <2>3, PageOf DEF TypeOK
      <3>2. pt[f][vb].page # pt[e][PFTEMP].page
        <4>1. CASE pt[e][PFTEMP] = Absent
          BY <3>1, <4>1, ForkAssumption DEF Absent
        <4>2. CASE pt[e][PFTEMP] # Absent
          BY <1>1, <2>3, <4>2, TempPage
        <4> QED  BY <4>1, <4>2
      <3> QED  BY <1>4, <3>1, <3>2
    <2>4. ASSUME pt[e][PFTEMP] # Absent PROVE mem'[pt[e][PFTEMP].page] = mem[pt[e][va].page]
      BY <1>1, <1>2, <1>4, <2>4, TempPage DEF TypeOK
    <2>5. HandlerStep(e)
      BY <1>2, <2>1, <2>2, <2>3 DEF HandlerStep
    <2>6. OthersStay(e) /\ pt' = pt
      BY <2>1, <2>2 DEF OthersStay
    <2>7. ShareInv'
      <3>1. ShareInv
        BY DEF IInv
      <3> QED  BY <2>6, <3>1 DEF ShareInv
    <2>8. OwnerInv'
      <3>1. ASSUME NEW f \in Env, NEW a \in VA, NEW b \in VA
            PROVE  ~Fixing(e, a, b) /\ ~Lending(e, a, f, b) /\ ~Splitting(e, a, f, b)
        BY <1>2 DEF Unexcused, Fixing, Lending, Splitting
      <3> QED  BY <1>2, <2>6, <3>1, OwnerSame DEF IInv
    <2>9. FrameOf(e)'
      <3>1. MayGo(e, "map")
        BY <1>2, <1>4, <2>2 DEF MayGo
      <3> QED  BY <3>1, FrameGoes
    <2>10. TempOf(e)'
      BY <1>2, <2>1, <2>2 DEF Good, TempOf
    <2>11. MemOf(e)'
      <3>1. MemOf(e)
        BY <1>2 DEF Good
      <3> QED  BY <2>2, <2>3, <3>1 DEF MemOf
    <2>12. CopyOf(e)'
      <3> SUFFICES ASSUME pt[e][PFTEMP] # Absent, va # PFTEMP
                   PROVE  mem'[pt[e][PFTEMP].page] = word[e][va]
        BY <2>1, <2>2 DEF CopyOf
      <3>1. mem[pt[e][va].page] = word[e][va]
        BY <1>2, <1>4 DEF Good, MemOf
      <3> QED  BY <2>4, <3>1
    <2> QED  BY <2>5, <2>7, <2>8, <2>9, <2>10, <2>11, <2>12, HandlerKeeps
  <1> QED  BY <1>1, <1>3, <1>4

LEMMA PgfaultMapKeeps ==
    ASSUME IInv, TypeOK', NEW e \in Env, pgfault_map(e)
    PROVE  IInv'
  <1> DEFINE va == Top(e).va
             y == Fresh(pt[e][PFTEMP].page)
  <1>1. /\ Handling(e) /\ Top(e).at = "map"
        /\ \/ Panics(e)
           \/ /\ pt[e][PFTEMP] # Absent /\ Changes(e, va, y) /\ Goto(e, "unmap")
              /\ UNCHANGED <<env_status, mem, upcall, handler, pc, locals, history>>
    BY DEF pgfault_map, At, MayMap, Present, Changes
  <1>2. /\ TypeOK /\ env_status[e] = "RUNNABLE" /\ utf[e] # <<>> /\ Unexcused(e) /\ Good(e) /\ va \in VA
        /\ ~pt[e][va].share /\ handler[e] # "alloc" /\ PFTEMP \in VA /\ USTACK \in VA
    BY <1>1, InHandler, NowGood, Addresses DEF IInv
  <1>3. CASE Panics(e)
    BY <1>2, <1>3, PanicsKeeps
  <1>4. CASE /\ pt[e][PFTEMP] # Absent /\ Changes(e, va, y) /\ Goto(e, "unmap")
             /\ UNCHANGED <<env_status, mem, upcall, handler, pc, locals, history>>
    <2> DEFINE p == pt[e][PFTEMP].page
    <2>1. /\ p \in Page /\ pt[e][PFTEMP].w
          /\ \A f \in Env, vb \in VA : e # f \/ vb # PFTEMP => pt[f][vb].page # p
      BY <1>1, <1>4, TempPage
    <2>2. y \in Entries /\ Present(y) /\ y.w /\ ~y.share /\ y.page = p
      BY <1>2, <2>1, Pages, EntryPage DEF Fresh, Present, Absent
    <2>3. Changes(e, va, y)
      BY <1>4
    <2> HIDE DEF y
    <2>4. /\ pt'[e][va] = y /\ \A vb \in VA : vb # va => pt'[e][vb] = pt[e][vb]
          /\ \A f \in Env : f # e => pt'[f] = pt[f]
      BY <1>2, <2>3, Changed
    <2>5. utf'[e] # <<>> /\ Top(e)'.at = "unmap" /\ Top(e)'.va = va /\ \A f \in Env : f # e => utf'[f] = utf[f]
      BY <1>2, <1>4, Going
    <2>6. UNCHANGED <<env_status, mem, handler, pc, child, addr, perm, word, shared>>
      BY <1>4 DEF locals, history
    <2>7. HandlerStep(e)
      <3>1. \A vb \in {UTEXT, USTACK} : pt'[e][vb] = pt[e][vb] \/ (Present(pt'[e][vb]) /\ pt'[e][vb].w)
        BY <2>2, <2>4, Addresses
      <3> QED  BY <1>2, <2>4, <2>5, <2>6, <3>1 DEF HandlerStep
    <2>8. OthersStay(e)
      BY <2>5, <2>6 DEF OthersStay
    <2>9. ShareInv'
      <3>1. ShareInv /\ ~pt[e][PFTEMP].share
        BY <1>2 DEF IInv, ShareInv
      <3>2. \A f \in Env, vb \in VA : pt[f][vb].share => pt[f][vb].page # y.page
        BY <2>1, <2>2, <3>1
      <3> QED  BY <1>2, <2>2, <2>3, <3>1, <3>2, ShareKept
    <2>10. OwnerInv'
      <3>1. ASSUME NEW f \in Env, NEW a \in VA, NEW b \in VA
            PROVE  ~Fixing(e, a, b) /\ ~Lending(e, a, f, b) /\ ~Splitting(e, a, f, b)
        BY <1>2 DEF Unexcused, Fixing, Lending, Splitting
      <3>2. ASSUME NEW f \in Env, NEW vb \in VA, f # e \/ vb # va, pt[f][vb].page = y.page
            PROVE  Excused(e, va, f, vb)' /\ Excused(f, vb, e, va)'
        <4>1. f = e /\ vb = PFTEMP
          BY <2>1, <2>2, <3>2
        <4> QED  BY <2>5, <4>1 DEF Excused, Fixing
      <3>3. OnlyThere(e, e, va) /\ ExcusedThere(e, va, y)
        BY <3>1, <3>2 DEF OnlyThere, ExcusedThere
      <3>4. OwnerInv
        BY DEF IInv
      <3> HIDE DEF va
      <3> QED  BY <1>2, <2>2, <2>3, <2>8, <3>3, <3>4, OwnerKept
    <2>11. FrameOf(e)'
      <3>1. MayGo(e, "unmap")
        BY <1>2, <1>4, <2>2, <2>4, <2>6 DEF MayGo
      <3> QED  BY <3>1, FrameGoes
    <2>12. TempOf(e)' /\ CopyOf(e)'
      BY <1>2, <2>1, <2>2, <2>4, <2>5 DEF TempOf, CopyOf
    <2>13. MemOf(e)'
      <3>1. va # PFTEMP => mem[p] = word[e][va]
        BY <1>1, <1>2, <1>4 DEF Good, CopyOf
      <3>2. MemOf(e)
        BY <1>2 DEF Good
      <3> QED  BY <2>2, <2>4, <2>6, <3>1, <3>2 DEF MemOf
    <2> QED  BY <2>7, <2>9, <2>10, <2>11, <2>12, <2>13, HandlerKeeps
  <1> QED  BY <1>1, <1>3, <1>4

LEMMA PgfaultUnmapKeeps ==
    ASSUME IInv, TypeOK', NEW e \in Env, pgfault_unmap(e)
    PROVE  IInv'
  <1>1. /\ Handling(e) /\ Top(e).at = "unmap" /\ Changes(e, PFTEMP, Absent) /\ Resume(e)
        /\ UNCHANGED <<env_status, mem, handler, pc, child, addr, perm, word, shared>>
    BY DEF pgfault_unmap, At, Changes, locals, history
  <1>2. /\ TypeOK /\ env_status[e] = "RUNNABLE" /\ utf[e] # <<>> /\ Good(e)
        /\ pc[e] \notin {"dup child", "dup self"} /\ PFTEMP \in VA
    BY <1>1, InHandler, NowGood, Addresses DEF IInv
  <1>3. /\ pt'[e][PFTEMP] = Absent /\ \A vb \in VA : vb # PFTEMP => pt'[e][vb] = pt[e][vb]
        /\ \A f \in Env : f # e => pt'[f] = pt[f]
    BY <1>1, <1>2, Changed, ZenonT(60)
  <1>4. MayReturn(e)
    <2>1. ~Absent.share
      BY DEF Absent
    <2> HIDE DEF Absent
    <2> QED  BY <1>1, <1>2, <1>3, <2>1 DEF MayReturn
  <1>5. /\ FrameOf(e)' /\ (utf'[e] # <<>> => Top(e)'.at \in {"copy", "print", "lost"})
        /\ \A f \in Env : f # e => utf'[f] = utf[f]
    BY <1>4, FrameReturns
  <1>6. HandlerStep(e)
    <2>1. \A va \in {UTEXT, USTACK} : pt'[e][va] = pt[e][va]
      BY <1>3, Addresses
    <2> QED  BY <1>1, <1>2, <1>3, <1>5, <2>1 DEF HandlerStep
  <1>7. OthersStay(e)
    BY <1>1, <1>5 DEF OthersStay
  <1>8. OnlyThere(e, e, PFTEMP)
    BY <1>2 DEF OnlyThere, Fixing, Lending, Splitting
  <1>9. ShareInv' /\ OwnerInv'
    BY <1>1, <1>2, <1>7, <1>8, UnmapKeeps
  <1>10. TempOf(e)' /\ CopyOf(e)'
    BY <1>3, <1>5 DEF TempOf, CopyOf
  <1>11. MemOf(e)'
    BY <1>1, <1>2, <1>3 DEF MemOf, Good
  <1> QED  BY <1>5, <1>6, <1>9, <1>10, <1>11, HandlerKeeps

LEMMA AllocHandlerKeeps ==
    ASSUME IInv, TypeOK', NEW e \in Env, alloc_handler(e)
    PROVE  IInv'
  <1> DEFINE va == Top(e).va
  <1>1. /\ Handling(e) /\ Top(e).at = "enter" /\ handler[e] = "alloc"
        /\ \/ Panics(e)
           \/ /\ FreePages # {} /\ pt' = [pt EXCEPT ![e][va] = Fresh(page_alloc)]
              /\ mem' = [mem EXCEPT ![page_alloc] = Zero] /\ word' = [word EXCEPT ![e][va] = Zero] /\ Goto(e, "print")
              /\ UNCHANGED <<env_status, upcall, handler, pc, locals, shared, refused, forks>>
    BY DEF alloc_handler, At
  <1>2. TypeOK /\ env_status[e] = "RUNNABLE" /\ utf[e] # <<>> /\ Unexcused(e) /\ Good(e) /\ va \in VA
    BY <1>1, InHandler, NowGood DEF IInv
  <1>3. CASE Panics(e)
    BY <1>2, <1>3, PanicsKeeps
  <1>4. CASE /\ FreePages # {} /\ pt' = [pt EXCEPT ![e][va] = Fresh(page_alloc)]
             /\ mem' = [mem EXCEPT ![page_alloc] = Zero] /\ word' = [word EXCEPT ![e][va] = Zero] /\ Goto(e, "print")
             /\ UNCHANGED <<env_status, upcall, handler, pc, locals, shared, refused, forks>>
    <2> DEFINE y == Fresh(page_alloc)
    <2>2. Changes(e, va, y)
      BY <1>4 DEF Changes
    <2>3. /\ Present(y) /\ y.w /\ ~y.share /\ mem'[y.page] = Zero
          /\ \A f \in Env, vb \in VA : Present(pt[f][vb]) => mem'[pt[f][vb].page] = mem[pt[f][vb].page]
      BY <1>2, <1>4, FreshPage
    <2> HIDE DEF y
    <2>4. /\ pt'[e][va] = y /\ \A vb \in VA : vb # va => pt'[e][vb] = pt[e][vb]
          /\ \A f \in Env : f # e => pt'[f] = pt[f]
      BY <1>2, <2>2, Changed
    <2>5. utf'[e] # <<>> /\ Top(e)'.at = "print" /\ \A f \in Env : f # e => utf'[f] = utf[f]
      BY <1>2, <1>4, Going
    <2>6. UNCHANGED <<env_status, handler, pc, child, addr, perm, shared>>
      BY <1>4 DEF locals
    <2>7. /\ word'[e][va] = Zero /\ \A vb \in VA : vb # va => word'[e][vb] = word[e][vb]
          /\ \A f \in Env : f # e => word'[f] = word[f]
      BY <1>2, <1>4 DEF TypeOK
    <2>8. HandlerStep(e)
      <3>1. \A vb \in {UTEXT, USTACK} : pt'[e][vb] = pt[e][vb] \/ (Present(pt'[e][vb]) /\ pt'[e][vb].w)
        BY <2>3, <2>4, Addresses
      <3> QED  BY <1>2, <2>3, <2>4, <2>5, <2>6, <2>7, <3>1 DEF HandlerStep
    <2>9. OthersStay(e)
      BY <2>5, <2>6 DEF OthersStay
    <2>10. ShareInv' /\ OwnerInv'
      BY <1>2, <1>4, <2>2, <2>9, FreshKeeps DEF y
    <2>11. FrameOf(e)'
      <3>1. MayGo(e, "print")
        BY <1>1, <1>2, <1>4, <2>3, <2>4, <2>6 DEF MayGo
      <3> QED  BY <3>1, FrameGoes
    <2>12. TempOf(e)' /\ CopyOf(e)'
      <3>1. pt'[e][PFTEMP] = Absent \/ pt'[e][PFTEMP].w
        BY <1>2, <2>3, <2>4, Addresses DEF Good, TempOf
      <3> QED  BY <2>5, <3>1 DEF TempOf, CopyOf
    <2>13. MemOf(e)'
      <3> SUFFICES ASSUME NEW vb \in VA \ {PFTEMP}, Present(pt'[e][vb])
                   PROVE  \/ pt'[e][vb].share /\ mem'[pt'[e][vb].page] = shared'[vb]
                          \/ ~pt'[e][vb].share /\ mem'[pt'[e][vb].page] = word'[e][vb]
        BY DEF MemOf
      <3>1. CASE vb = va
        BY <2>3, <2>4, <2>7, <3>1
      <3>2. CASE vb # va
        BY <1>2, <2>3, <2>4, <2>6, <2>7, <3>2 DEF MemOf, Good
      <3> QED  BY <3>1, <3>2
    <2> QED  BY <2>8, <2>10, <2>11, <2>12, <2>13, HandlerKeeps
  <1> QED  BY <1>1, <1>3, <1>4

LEMMA AllocPrintKeeps ==
    ASSUME IInv, TypeOK', NEW e \in Env, alloc_print(e)
    PROVE  IInv'
  <1> DEFINE next == Top(e).va + 1
  <1>1. /\ Handling(e) /\ Top(e).at = "print"
        /\ \/ Resume(e) /\ UNCHANGED <<env_status, pt, mem, upcall, handler, pc, locals, history>>
           \/ next \in VA /\ ~pt[e][next].w /\ page_fault_handler(e, next, TRUE)
    BY DEF alloc_print, At
  <1>2. /\ TypeOK /\ env_status[e] = "RUNNABLE" /\ utf[e] # <<>> /\ Unexcused(e) /\ Good(e)
        /\ pc[e] \notin {"dup child", "dup self"} /\ handler[e] = "alloc"
    BY <1>1, InHandler, NowGood DEF IInv
  <1>3. CASE next \in VA /\ ~pt[e][next].w /\ page_fault_handler(e, next, TRUE)
    <2>1. ~pt[e][next].share
      BY <1>3 DEF IInv, ShareInv
    <2>2. MayFault(e, next)
      BY <1>1, <1>2, <2>1 DEF MayFault
    <2> QED  BY <1>2, <1>3, <2>2, FaultKeeps
  <1>4. CASE Resume(e) /\ UNCHANGED <<env_status, pt, mem, upcall, handler, pc, locals, history>>
    <2>1. pt' = pt /\ UNCHANGED <<env_status, mem, handler, pc, child, addr, perm, word, shared>>
      BY <1>4 DEF locals, history
    <2>2. MayReturn(e)
      BY <1>2, <1>4, <2>1 DEF MayReturn
    <2>3. /\ FrameOf(e)' /\ (utf'[e] # <<>> => Top(e)'.at \in {"copy", "print", "lost"})
          /\ \A f \in Env : f # e => utf'[f] = utf[f]
      BY <2>2, FrameReturns
    <2>4. HandlerStep(e)
      BY <1>2, <2>1, <2>3 DEF HandlerStep
    <2>5. OthersStay(e)
      BY <2>1, <2>3 DEF OthersStay
    <2>6. ShareInv'
      <3>1. ShareInv /\ pt' = pt
        BY <2>1 DEF IInv
      <3> QED  BY <3>1 DEF ShareInv
    <2>7. OwnerInv'
      <3>1. ASSUME NEW f \in Env, NEW a \in VA, NEW b \in VA
            PROVE  ~Fixing(e, a, b) /\ ~Lending(e, a, f, b) /\ ~Splitting(e, a, f, b)
        BY <1>2 DEF Unexcused, Fixing, Lending, Splitting
      <3> QED  BY <1>2, <2>1, <2>5, <3>1, OwnerSame DEF IInv
    <2>8. TempOf(e)' /\ CopyOf(e)' /\ MemOf(e)'
      BY <1>2, <2>1, <2>3 DEF Good, TempOf, CopyOf, MemOf
    <2> QED  BY <2>3, <2>4, <2>6, <2>7, <2>8, HandlerKeeps
  <1> QED  BY <1>1, <1>3, <1>4

LEMMA FaultingKeeps ==
    ASSUME IInv, TypeOK', NEW e \in Env, Faulting(e)
    PROVE  IInv'
  <1>1. CASE LostFetch(e)
    <2>1. Handling(e) /\ Top(e).at = "lost" /\ page_fault_handler(e, 0, FALSE) /\ 0 \in VA
      BY <1>1, Addresses DEF LostFetch, At
    <2>2. env_status[e] = "RUNNABLE" /\ utf[e] # <<>> /\ pc[e] \notin {"dup child", "dup self"}
      BY <2>1, InHandler
    <2>3. ~pt[e][0].share
      BY DEF IInv, ShareInv
    <2>4. MayFault(e, 0)
      BY <2>1, <2>2, <2>3 DEF MayFault
    <2> QED  BY <2>1, <2>2, <2>4, FaultKeeps
  <1> QED  BY <1>1, PgfaultAllocKeeps, PgfaultCopyKeeps, PgfaultMapKeeps, PgfaultUnmapKeeps, AllocHandlerKeeps,
              AllocPrintKeeps DEF Faulting

-------------------------------------------------------------------------------
(*****************************************************************************)
(* The steps of programs.                                                    *)
(*****************************************************************************)
LEMMA InProgram ==
    ASSUME IInv, NEW e \in Env, Runs(e, pc[e])
    PROVE  /\ env_status[e] = "RUNNABLE" /\ utf[e] = <<>> /\ Present(pt[e][UTEXT])
           /\ pc[e] # "run" => handler[e] # "alloc"
           /\ pc[e] \notin {"memmove", "untemp"} /\ handler[e] # "alloc" => pt[e][PFTEMP] = Absent
           /\ child[e] \in Env /\ (child[e] # e <=> pc[e] \in InFork)
           /\ child[e] # e =>
                 /\ env_status[child[e]] = "NOT_RUNNABLE" /\ utf[child[e]] = <<>> /\ child[child[e]] = child[e]
                 /\ pc[child[e]] = "child" /\ handler[child[e]] = None /\ pt[child[e]][PFTEMP] = Absent
  <1>1. env_status[e] = "RUNNABLE" /\ utf[e] = <<>> /\ Present(pt[e][UTEXT])
    BY DEF Runs
  <1>2. Good(e) /\ child[e] \in Env
    BY NowGood DEF IInv, TypeOK
  <1>3. /\ pc[e] # "run" => handler[e] # "alloc"
        /\ pc[e] \notin {"memmove", "untemp"} /\ handler[e] # "alloc" => pt[e][PFTEMP] = Absent
    BY <1>1, <1>2 DEF Good, FrameOf, TempOf
  <1>4. child[e] # e <=> pc[e] \in InFork
    BY DEF IInv, FamilyInv
  <1>5. child[e] # e =>
           /\ env_status[child[e]] = "NOT_RUNNABLE" /\ utf[child[e]] = <<>> /\ child[child[e]] = child[e]
           /\ pc[child[e]] = "child" /\ handler[child[e]] = None
    BY <1>2 DEF IInv, FamilyInv
  <1>6. child[e] # e => pt[child[e]][PFTEMP] = Absent
    BY <1>2, <1>5, NowGood DEF Good, TempOf, None
  <1> QED  BY <1>1, <1>2, <1>3, <1>4, <1>5, <1>6

\* A call pushes its return address; only a child that shares the stack sees it.
LEMMA StackPush ==
    ASSUME IInv, NEW e \in Env, Runs(e, pc[e]), pt[e][USTACK].w
    PROVE  /\ pt[e][USTACK].page \in Page /\ ~pt[e][USTACK].share
           /\ Pushed(e)[pt[e][USTACK].page] = pc[e] /\ WordPushed(e)[e][USTACK] = pc[e]
           /\ \A va \in VA : va # USTACK => WordPushed(e)[e][va] = word[e][va]
           /\ \A f \in Env : f # e => WordPushed(e)[f] = word[f]
           /\ \A f \in Env, va \in VA :
                 /\ f # e \/ va # USTACK
                 /\ pc[e] = "dup self" => f # child[e] \/ va # USTACK
                 => pt[f][va].page # pt[e][USTACK].page
           /\ \A f \in Env, va \in VA :
                 /\ Present(pt[f][va]) /\ (f # e \/ va # USTACK)
                 /\ pc[e] = "dup self" => f # child[e] \/ va # USTACK
                 => Pushed(e)[pt[f][va].page] = mem[pt[f][va].page]
  <1>1. env_status[e] = "RUNNABLE" /\ utf[e] = <<>> /\ USTACK \in VA /\ USTACK # PFTEMP /\ TypeOK
    BY InProgram, Addresses DEF IInv
  <1>2. ~pt[e][USTACK].share
    BY DEF IInv, ShareInv
  <1>3. pt[e][USTACK].page \in Page
    BY <1>1, PageOf
  <1>4. mem \in [Page -> Words] /\ word \in [Env -> [VA -> Words]]
    BY <1>1 DEF TypeOK
  <1>5. Pushed(e)[pt[e][USTACK].page] = pc[e] /\ WordPushed(e)[e][USTACK] = pc[e]
    BY <1>1, <1>3, <1>4 DEF Pushed, WordPushed
  <1>6. /\ \A va \in VA : va # USTACK => WordPushed(e)[e][va] = word[e][va]
        /\ \A f \in Env : f # e => WordPushed(e)[f] = word[f]
    BY <1>1, <1>4 DEF WordPushed
  <1>7. ASSUME NEW f \in Env, NEW va \in VA, f # e \/ va # USTACK,
               pc[e] = "dup self" => f # child[e] \/ va # USTACK
        PROVE  pt[f][va].page # pt[e][USTACK].page
    <2>1. \A g \in Env : pc[g] \in InFork => child[g] # e
      BY <1>1, Runner DEF IInv
    <2>2. ~Fixing(e, USTACK, va) /\ ~Lending(e, USTACK, f, va)
      BY <1>1 DEF Fixing, Lending
    <2>3. ~Lending(f, va, e, USTACK)
      BY <2>1 DEF Lending, InFork, Stack
    <2>4. ~Splitting(e, USTACK, f, va)
      BY <1>7 DEF Splitting
    <2>5. ~Excused(e, USTACK, f, va)
      BY <2>2, <2>3, <2>4 DEF Excused
    <2>6. Private(e, USTACK)
      BY <1>2 DEF Private
    <2> QED  BY <1>1, <1>7, <2>5, <2>6 DEF IInv, OwnerInv
  <1>8. ASSUME NEW f \in Env, NEW va \in VA, Present(pt[f][va]), f # e \/ va # USTACK,
               pc[e] = "dup self" => f # child[e] \/ va # USTACK
        PROVE  Pushed(e)[pt[f][va].page] = mem[pt[f][va].page]
    <2>1. pt[f][va].page \in Page /\ pt[f][va].page # pt[e][USTACK].page
      BY <1>1, <1>7, <1>8, PageOf
    <2> QED  BY <1>4, <2>1 DEF Pushed
  <1> QED  BY <1>2, <1>3, <1>5, <1>6, <1>7, <1>8

LEMMA StackIsOwn ==
    ASSUME IInv, NEW e \in Env, Runs(e, pc[e]), pt[e][USTACK].w, pc[e] # "dup self"
    PROVE  /\ Pushed(e)[pt[e][USTACK].page] = pc[e] /\ WordPushed(e)[e][USTACK] = pc[e] /\ ~pt[e][USTACK].share
           /\ pt[e][USTACK].page \in Page
           /\ \A va \in VA : va # USTACK => WordPushed(e)[e][va] = word[e][va]
           /\ \A f \in Env : f # e => WordPushed(e)[f] = word[f]
           /\ \A f \in Env, va \in VA : f # e \/ va # USTACK => pt[f][va].page # pt[e][USTACK].page
           /\ \A f \in Env, va \in VA : Present(pt[f][va]) /\ (f # e \/ va # USTACK) =>
                 Pushed(e)[pt[f][va].page] = mem[pt[f][va].page]
  <1>1. \A f \in Env, va \in VA : f # e \/ va # USTACK => pt[f][va].page # pt[e][USTACK].page
    BY StackPush
  <1>2. ASSUME NEW f \in Env, NEW va \in VA, Present(pt[f][va]), f # e \/ va # USTACK
        PROVE  Pushed(e)[pt[f][va].page] = mem[pt[f][va].page]
    <2>1. mem \in [Page -> Words] /\ pt[f][va].page \in Page
      BY <1>2, PageOf DEF IInv, TypeOK
    <2> QED  BY <1>1, <1>2, <2>1 DEF Pushed
  <1>3. Pushed(e)[pt[e][USTACK].page] = pc[e] /\ WordPushed(e)[e][USTACK] = pc[e] /\ ~pt[e][USTACK].share
        /\ pt[e][USTACK].page \in Page
    BY StackPush
  <1>4. /\ \A va \in VA : va # USTACK => WordPushed(e)[e][va] = word[e][va]
        /\ \A f \in Env : f # e => WordPushed(e)[f] = word[f]
    BY StackPush
  <1> QED  BY <1>1, <1>2, <1>3, <1>4

\* The program goes on, and nothing but its stack changes.
JustPushes(e) ==
    /\ pt' = pt /\ mem' = Pushed(e) /\ word' = WordPushed(e) /\ shared' = shared /\ OthersStay(e)
    /\ env_status'[e] = "RUNNABLE" /\ child'[e] = child[e] /\ (pc[e] \in InFork <=> pc'[e] \in InFork)
    /\ utf'[e] = <<>> /\ handler[e] # "alloc" /\ handler'[e] # "alloc"
    /\ pc[e] \notin {"dup self", "memmove", "untemp"}

LEMMA JustPushesKeeps ==
    ASSUME IInv, TypeOK', NEW e \in Env, Runs(e, pc[e]), pt[e][USTACK].w, JustPushes(e), DupOf(e)', ReadyOf(e)'
    PROVE  IInv'
  <1>1. env_status[e] = "RUNNABLE" /\ utf[e] = <<>> /\ pt[e][PFTEMP] = Absent /\ TypeOK /\ Good(e)
    BY InProgram, NowGood DEF JustPushes, IInv
  <1>2. /\ mem'[pt[e][USTACK].page] = pc[e] /\ word'[e][USTACK] = pc[e] /\ ~pt[e][USTACK].share
        /\ \A va \in VA : va # USTACK => word'[e][va] = word[e][va]
        /\ \A f \in Env : f # e => word'[f] = word[f]
        /\ \A f \in Env, va \in VA : Present(pt[f][va]) /\ (f # e \/ va # USTACK) =>
              mem'[pt[f][va].page] = mem[pt[f][va].page]
    <2>1. mem' = Pushed(e) /\ word' = WordPushed(e) /\ pc[e] # "dup self"
      BY DEF JustPushes
    <2>2. /\ Pushed(e)[pt[e][USTACK].page] = pc[e] /\ WordPushed(e)[e][USTACK] = pc[e] /\ ~pt[e][USTACK].share
          /\ \A va \in VA : va # USTACK => WordPushed(e)[e][va] = word[e][va]
          /\ \A f \in Env : f # e => WordPushed(e)[f] = word[f]
          /\ \A f \in Env, va \in VA : Present(pt[f][va]) /\ (f # e \/ va # USTACK) =>
                Pushed(e)[pt[f][va].page] = mem[pt[f][va].page]
      BY <2>1, StackIsOwn
    <2> QED  BY <2>1, <2>2
  <1>3. pt' = pt /\ utf'[e] = <<>> /\ handler'[e] # "alloc"
    BY DEF JustPushes
  <1>4. FrameOf(e)' /\ TempOf(e)' /\ CopyOf(e)'
    BY <1>1, <1>3 DEF FrameOf, TempOf, CopyOf
  <1>5. MemOf(e)'
    <2> SUFFICES ASSUME NEW va \in VA \ {PFTEMP}, Present(pt[e][va])
                 PROVE  \/ pt[e][va].share /\ mem'[pt[e][va].page] = shared[va]
                        \/ ~pt[e][va].share /\ mem'[pt[e][va].page] = word'[e][va]
      BY <1>3 DEF MemOf, JustPushes
    <2>1. CASE va = USTACK
      BY <1>2, <2>1
    <2>2. CASE va # USTACK
      BY <1>1, <1>2, <2>2 DEF MemOf, Good
    <2> QED  BY <2>1, <2>2
  <1>6. ShareInv'
    <2>1. ShareInv /\ pt' = pt
      BY <1>3 DEF IInv
    <2> QED  BY <2>1 DEF ShareInv
  <1>7. OwnerInv'
    <2>1. ASSUME NEW f \in Env, NEW a \in VA, NEW b \in VA
          PROVE  ~Fixing(e, a, b) /\ ~Lending(e, a, f, b) /\ ~Splitting(e, a, f, b)
      BY <1>1 DEF JustPushes, Fixing, Lending, Splitting
    <2> QED  BY <1>1, <1>3, <2>1, OwnerSame DEF IInv, JustPushes
  <1>8. Good(e)'
    BY <1>4, <1>5 DEF Good
  <1> QED  BY <1>1, <1>2, <1>3, <1>6, <1>7, <1>8, StepMine DEF JustPushes

\* A new page is mapped, for the program or for its child, while something is pushed.
PushesFresh(e, g, x) ==
    /\ FreePages # {} /\ Changes(g, x, Fresh(page_alloc))
    /\ mem' = [Pushed(e) EXCEPT ![page_alloc] = Zero] /\ word' = [WordPushed(e) EXCEPT ![g][x] = Zero]
    /\ shared' = shared /\ OthersStay(e)
    /\ env_status'[e] = "RUNNABLE" /\ child'[e] = child[e] /\ (pc[e] \in InFork <=> pc'[e] \in InFork)
    /\ utf'[e] = <<>> /\ handler[e] # "alloc" /\ handler'[e] # "alloc"
    /\ pc[e] \notin {"dup self", "memmove", "untemp"}
    /\ g \in {e, child[e]} /\ (g = e => x = UXSTACK) /\ x \in {UXSTACK, USTACK}

LEMMA PushesFreshEffect ==
    ASSUME IInv, NEW e \in Env, Runs(e, pc[e]), pt[e][USTACK].w, NEW g \in Env, NEW x \in VA, PushesFresh(e, g, x)
    PROVE  /\ Present(pt'[g][x]) /\ ~pt'[g][x].share /\ mem'[pt'[g][x].page] = Zero /\ word'[g][x] = Zero
           /\ mem'[pt[e][USTACK].page] = pc[e] /\ word'[e][USTACK] = pc[e] /\ ~pt[e][USTACK].share
           /\ \A f \in Env, va \in VA : (f # g \/ va # x) /\ (f # e \/ va # USTACK) => word'[f][va] = word[f][va]
           /\ \A f \in Env : f # e /\ f # g => word'[f] = word[f]
           /\ \A f \in Env, va \in VA : Present(pt[f][va]) /\ (f # e \/ va # USTACK) =>
                 mem'[pt[f][va].page] = mem[pt[f][va].page]
           /\ \A f \in Env, va \in VA : f # g \/ va # x => pt'[f][va] = pt[f][va]
           /\ \A f \in Env : f # g => pt'[f] = pt[f]
  <1>1. /\ FreePages # {} /\ Changes(g, x, Fresh(page_alloc)) /\ pc[e] # "dup self"
        /\ mem' = [Pushed(e) EXCEPT ![page_alloc] = Zero] /\ word' = [WordPushed(e) EXCEPT ![g][x] = Zero]
        /\ (g # e \/ x # USTACK)
    BY Addresses DEF PushesFresh
  <1>2. TypeOK /\ USTACK \in VA
    BY Addresses DEF IInv
  <1>3. page_alloc \in Page /\ page_alloc # 0 /\ \A f \in Env, va \in VA : pt[f][va].page # page_alloc
    BY <1>1, Allocated
  <1>4. Pushed(e) \in [Page -> Words] /\ WordPushed(e) \in [Env -> [VA -> Words]]
    BY <1>2, Pages
  <1>5. /\ Pushed(e)[pt[e][USTACK].page] = pc[e] /\ WordPushed(e)[e][USTACK] = pc[e] /\ ~pt[e][USTACK].share
        /\ pt[e][USTACK].page \in Page
        /\ \A va \in VA : va # USTACK => WordPushed(e)[e][va] = word[e][va]
        /\ \A f \in Env : f # e => WordPushed(e)[f] = word[f]
        /\ \A f \in Env, va \in VA : Present(pt[f][va]) /\ (f # e \/ va # USTACK) =>
              Pushed(e)[pt[f][va].page] = mem[pt[f][va].page]
    BY <1>1, StackIsOwn
  <1>6. /\ pt'[g][x] = Fresh(page_alloc)
        /\ \A f \in Env, va \in VA : f # g \/ va # x => pt'[f][va] = pt[f][va]
        /\ \A f \in Env : f # g => pt'[f] = pt[f]
    BY <1>1, <1>2, Changed
  <1>7. Present(pt'[g][x]) /\ ~pt'[g][x].share /\ pt'[g][x].page = page_alloc
    BY <1>3, <1>6 DEF Fresh, Present, Absent
  <1>8. \A p \in Page : p # page_alloc => mem'[p] = Pushed(e)[p]
    BY <1>1, <1>4
  <1>9. mem'[page_alloc] = Zero
    BY <1>1, <1>3, <1>4
  <1>10. /\ word'[g][x] = Zero
         /\ \A f \in Env, va \in VA : f # g \/ va # x => word'[f][va] = WordPushed(e)[f][va]
         /\ \A f \in Env : f # g => word'[f] = WordPushed(e)[f]
    BY <1>1, <1>4
  <1>11. mem'[pt[e][USTACK].page] = pc[e] /\ word'[e][USTACK] = pc[e]
    BY <1>1, <1>2, <1>3, <1>5, <1>8, <1>10
  <1>12. ASSUME NEW f \in Env, NEW va \in VA, Present(pt[f][va]), f # e \/ va # USTACK
         PROVE  mem'[pt[f][va].page] = mem[pt[f][va].page]
    BY <1>2, <1>3, <1>5, <1>8, <1>12, PageOf
  <1>13. \A f \in Env, va \in VA : (f # g \/ va # x) /\ (f # e \/ va # USTACK) => word'[f][va] = word[f][va]
    BY <1>5, <1>10
  <1>14. \A f \in Env : f # e /\ f # g => word'[f] = word[f]
    BY <1>5, <1>10
  <1> QED  BY <1>5, <1>6, <1>7, <1>9, <1>10, <1>11, <1>12, <1>13, <1>14

LEMMA PushesFreshKeeps ==
    ASSUME IInv, TypeOK', NEW e \in Env, Runs(e, pc[e]), pt[e][USTACK].w,
           NEW g \in Env, NEW x \in VA, PushesFresh(e, g, x), DupOf(e)', ReadyOf(e)'
    PROVE  IInv'
  <1>1. /\ env_status[e] = "RUNNABLE" /\ utf[e] = <<>> /\ pt[e][PFTEMP] = Absent /\ TypeOK /\ Good(e)
        /\ child[e] \in Env /\ (child[e] # e => env_status[child[e]] = "NOT_RUNNABLE")
    BY InProgram, NowGood DEF PushesFresh, IInv
  <1>2. /\ Present(pt'[g][x]) /\ ~pt'[g][x].share /\ mem'[pt'[g][x].page] = Zero /\ word'[g][x] = Zero
        /\ mem'[pt[e][USTACK].page] = pc[e] /\ word'[e][USTACK] = pc[e] /\ ~pt[e][USTACK].share
        /\ \A f \in Env, va \in VA : (f # g \/ va # x) /\ (f # e \/ va # USTACK) => word'[f][va] = word[f][va]
        /\ \A f \in Env : f # e /\ f # g => word'[f] = word[f]
        /\ \A f \in Env, va \in VA : Present(pt[f][va]) /\ (f # e \/ va # USTACK) =>
              mem'[pt[f][va].page] = mem[pt[f][va].page]
        /\ \A f \in Env, va \in VA : f # g \/ va # x => pt'[f][va] = pt[f][va]
        /\ \A f \in Env : f # g => pt'[f] = pt[f]
    BY PushesFreshEffect
  <1>3. /\ shared' = shared /\ OthersStay(e) /\ utf'[e] = <<>> /\ handler'[e] # "alloc" /\ g \in {e, child[e]}
        /\ (g = e => x = UXSTACK) /\ x \in {UXSTACK, USTACK} /\ x # PFTEMP
        /\ env_status'[e] = "RUNNABLE" /\ child'[e] = child[e] /\ (pc[e] \in InFork <=> pc'[e] \in InFork)
    BY Addresses DEF PushesFresh
  <1>4. pt'[e][PFTEMP] = Absent /\ (child[e] # e => pt'[child[e]][PFTEMP] = pt[child[e]][PFTEMP])
    BY <1>1, <1>2, <1>3, Addresses
  <1>5. FrameOf(e)' /\ TempOf(e)' /\ CopyOf(e)'
    BY <1>3, <1>4 DEF FrameOf, TempOf, CopyOf
  <1>6. MemOf(e)'
    <2> SUFFICES ASSUME NEW va \in VA \ {PFTEMP}, Present(pt'[e][va])
                 PROVE  \/ pt'[e][va].share /\ mem'[pt'[e][va].page] = shared[va]
                        \/ ~pt'[e][va].share /\ mem'[pt'[e][va].page] = word'[e][va]
      BY <1>3 DEF MemOf
    <2>1. CASE va = USTACK
      <3>1. pt'[e][va] = pt[e][va]
        BY <1>2, <1>3, <2>1, Addresses
      <3> QED  BY <1>2, <2>1, <3>1
    <2>2. CASE e = g /\ va = x
      BY <1>2, <2>2
    <2>3. CASE va # USTACK /\ ~(e = g /\ va = x)
      <3>1. pt'[e][va] = pt[e][va] /\ word'[e][va] = word[e][va] /\ Present(pt[e][va])
        BY <1>2, <2>3
      <3>2. mem'[pt[e][va].page] = mem[pt[e][va].page]
        BY <1>2, <2>3, <3>1
      <3> QED  BY <1>1, <3>1, <3>2 DEF MemOf, Good
    <2> QED  BY <2>1, <2>2, <2>3
  <1>7. ASSUME child[e] # e PROVE MemOf(child[e])'
    <2> DEFINE c == child[e]
    <2>1. env_status'[c] = "NOT_RUNNABLE" /\ c \in Env /\ c # e /\ MemOf(c) /\ env_status[c] = "NOT_RUNNABLE"
      BY <1>1, <1>3, <1>7, NowGood DEF OthersStay, Good
    <2> HIDE DEF c
    <2> SUFFICES ASSUME NEW va \in VA \ {PFTEMP}, Present(pt'[c][va]), va # USTACK
                 PROVE  \/ pt'[c][va].share /\ mem'[pt'[c][va].page] = shared[va]
                        \/ ~pt'[c][va].share /\ mem'[pt'[c][va].page] = word'[c][va]
      BY <1>3, <2>1 DEF MemOf, c
    <2>2. CASE c = g /\ va = x
      BY <1>2, <2>2
    <2>3. CASE ~(c = g /\ va = x)
      <3>1. pt'[c][va] = pt[c][va] /\ word'[c][va] = word[c][va] /\ Present(pt[c][va])
        BY <1>2, <2>1, <2>3
      <3>2. mem'[pt[c][va].page] = mem[pt[c][va].page]
        BY <1>2, <2>1, <3>1
      <3> QED  BY <1>3, <2>1, <3>1, <3>2 DEF MemOf
    <2> QED  BY <2>2, <2>3
  <1>8. ShareInv' /\ OwnerInv'
    <2>1. Unexcused(e) /\ FreePages # {} /\ Changes(g, x, Fresh(page_alloc))
      BY <1>1 DEF Unexcused, PushesFresh
    <2> QED  BY <1>3, <2>1, FreshKeeps
  <1>9. Apart(e, child[e])
    <2>1. ASSUME NEW f \in Env \ {e, child[e]}, NEW va \in VA, Present(pt[f][va])
          PROVE  IF pt[f][va].share THEN mem'[pt[f][va].page] = shared'[va]
                 ELSE mem'[pt[f][va].page] = mem[pt[f][va].page]
      <3>1. mem'[pt[f][va].page] = mem[pt[f][va].page]
        BY <1>2, <2>1
      <3>2. pt[f][va].share => mem[pt[f][va].page] = shared[va]
        BY <2>1, SharedWords
      <3> QED  BY <1>3, <3>1, <3>2
    <2>2. \A f \in Env \ {e, child[e]} : pt'[f] = pt[f] /\ word'[f] = word[f]
      BY <1>2, <1>3
    <2> QED  BY <1>3, <2>1, <2>2 DEF Apart, OthersStay
  <1>10. Good(e)'
    BY <1>5, <1>6 DEF Good
  <1> QED  BY <1>1, <1>3, <1>4, <1>7, <1>8, <1>9, <1>10, StepKeeps

\* The program goes on, and nothing in memory changes.
JustMoves(e) ==
    /\ pt' = pt /\ mem' = mem /\ word' = word /\ shared' = shared /\ OthersStay(e)
    /\ env_status'[e] = "RUNNABLE" /\ child'[e] = child[e] /\ (pc[e] \in InFork <=> pc'[e] \in InFork)
    /\ utf'[e] = <<>> /\ handler[e] # "alloc" /\ handler'[e] # "alloc"
    /\ pc[e] \notin {"dup self", "memmove", "untemp"}

LEMMA JustMovesKeeps ==
    ASSUME IInv, TypeOK', NEW e \in Env, Runs(e, pc[e]), JustMoves(e), DupOf(e)', ReadyOf(e)'
    PROVE  IInv'
  <1>1. env_status[e] = "RUNNABLE" /\ utf[e] = <<>> /\ pt[e][PFTEMP] = Absent /\ TypeOK /\ Good(e)
    BY InProgram, NowGood DEF JustMoves, IInv
  <1>2. pt' = pt /\ mem' = mem /\ word' = word /\ shared' = shared /\ utf'[e] = <<>> /\ handler'[e] # "alloc"
        /\ OthersStay(e) /\ env_status'[e] = "RUNNABLE"
    BY DEF JustMoves
  <1>3. FrameOf(e)' /\ TempOf(e)' /\ CopyOf(e)'
    BY <1>1, <1>2 DEF FrameOf, TempOf, CopyOf
  <1>4. MemOf(e)'
    BY <1>1, <1>2 DEF MemOf, Good
  <1>5. ShareInv'
    <2>1. ShareInv /\ pt' = pt
      BY <1>2 DEF IInv
    <2> QED  BY <2>1 DEF ShareInv
  <1>6. OwnerInv'
    <2>1. ASSUME NEW f \in Env, NEW a \in VA, NEW b \in VA
          PROVE  ~Fixing(e, a, b) /\ ~Lending(e, a, f, b) /\ ~Splitting(e, a, f, b)
      BY <1>1 DEF JustMoves, Fixing, Lending, Splitting
    <2> QED  BY <1>1, <1>2, <2>1, OwnerSame DEF IInv
  <1>7. Good(e)'
    BY <1>3, <1>4 DEF Good
  <1> QED  BY <1>1, <1>2, <1>5, <1>6, <1>7, StepMine DEF JustMoves

LEMMA ForkKeeps ==
    ASSUME IInv, TypeOK', NEW e \in Env, fork(e)
    PROVE  IInv'
  <1>1. /\ Runs(e, pc[e]) /\ pc[e] = "run" /\ pt[e][USTACK].w /\ handler[e] # "alloc"
        /\ \/ Panics(e)
           \/ /\ \/ /\ FreePages # {} /\ pt' = [pt EXCEPT ![e][UXSTACK] = Fresh(page_alloc)]
                    /\ mem' = [Pushed(e) EXCEPT ![page_alloc] = Zero]
                    /\ word' = [WordPushed(e) EXCEPT ![e][UXSTACK] = Zero]
                 \/ mem' = Pushed(e) /\ word' = WordPushed(e) /\ UNCHANGED pt
              /\ handler' = [handler EXCEPT ![e] = "pgfault"] /\ pc' = [pc EXCEPT ![e] = "exofork"]
              /\ UNCHANGED <<env_status, utf, locals, shared, refused>>
    BY DEF fork, Runs, Moves
  <1>2. env_status[e] = "RUNNABLE" /\ utf[e] = <<>> /\ TypeOK /\ child[e] \in Env /\ UXSTACK \in VA
    BY <1>1, InProgram, Addresses DEF IInv
  <1>3. CASE Panics(e)
    BY <1>2, <1>3, PanicsKeeps
  <1>4. CASE ~Panics(e)
    <2>1. handler'[e] = "pgfault" /\ pc'[e] = "exofork" /\ UNCHANGED <<env_status, utf, child, addr, perm, shared>>
          /\ \A f \in Env : f # e => handler'[f] = handler[f] /\ pc'[f] = pc[f]
      BY <1>1, <1>2, <1>4 DEF locals, TypeOK
    <2>2. OthersStay(e) /\ DupOf(e)' /\ ReadyOf(e)' /\ "run" \notin InFork /\ "exofork" \notin InFork
      BY <2>1 DEF OthersStay, DupOf, ReadyOf, InFork, Stack
    <2>3. CASE mem' = Pushed(e) /\ word' = WordPushed(e) /\ pt' = pt
      <3>1. JustPushes(e)
        BY <1>1, <1>2, <2>1, <2>2, <2>3 DEF JustPushes
      <3> QED  BY <1>1, <2>2, <3>1, JustPushesKeeps
    <2>4. CASE /\ FreePages # {} /\ pt' = [pt EXCEPT ![e][UXSTACK] = Fresh(page_alloc)]
               /\ mem' = [Pushed(e) EXCEPT ![page_alloc] = Zero]
               /\ word' = [WordPushed(e) EXCEPT ![e][UXSTACK] = Zero]
      <3>1. PushesFresh(e, e, UXSTACK)
        BY <1>1, <1>2, <2>1, <2>2, <2>4 DEF PushesFresh, Changes
      <3> QED  BY <1>1, <1>2, <2>2, <3>1, PushesFreshKeeps
    <2> QED  BY <1>1, <1>4, <2>3, <2>4
  <1> QED  BY <1>3, <1>4

LEMMA ForkScanKeeps ==
    ASSUME IInv, TypeOK', NEW e \in Env, fork_scan(e)
    PROVE  IInv'
  <1> DEFINE a == addr[e]
  <1>1. Runs(e, pc[e]) /\ pc[e] = "scan"
    BY DEF fork_scan, Runs
  <1>2. /\ env_status[e] = "RUNNABLE" /\ utf[e] = <<>> /\ TypeOK /\ handler[e] # "alloc" /\ Present(pt[e][UTEXT])
        /\ DupOf(e) /\ "scan" \in InFork /\ a <= USTACK /\ a \in Int /\ USTACK \in Int
    <2>1. DupOf(e) /\ "scan" \in InFork
      BY NowGood DEF Good, InFork
    <2>2. a \in Int /\ USTACK \in Int
      BY Addresses DEF IInv, TypeOK
    <2>3. a <= USTACK
      BY <1>1, <2>1 DEF DupOf
    <2> QED  BY <1>1, <2>1, <2>2, <2>3, InProgram DEF IInv
  <1>3. CASE /\ a < UTEXT /\ Moves(e, "uxstack")
             /\ UNCHANGED <<env_status, pt, mem, upcall, handler, utf, locals, history>>
    <2>1. /\ pc'[e] = "uxstack" /\ UNCHANGED <<env_status, pt, mem, handler, utf, child, addr, perm, word, shared>>
          /\ \A f \in Env : f # e => pc'[f] = pc[f]
      BY <1>2, <1>3 DEF Moves, TypeOK, locals, history
    <2>2. DupOf(e)' /\ ReadyOf(e)'
      BY <1>2, <2>1 DEF DupOf, ReadyOf
    <2>3. OthersStay(e)
      BY <2>1 DEF OthersStay
    <2>4. JustMoves(e)
      BY <1>1, <1>2, <2>1, <2>3 DEF JustMoves, InFork
    <2> QED  BY <1>1, <2>2, <2>4, JustMovesKeeps
  <1>4. CASE /\ addr' = [addr EXCEPT ![e] = a - Skip(e, a)]
             /\ UNCHANGED <<env_status, pt, mem, upcall, handler, pc, utf, child, perm, history>>
    <2>1. /\ addr'[e] = a - Skip(e, a) /\ UNCHANGED <<env_status, pt, mem, handler, utf, pc, child, perm, word, shared>>
          /\ \A f \in Env : f # e => addr'[f] = addr[f]
      BY <1>2, <1>4 DEF TypeOK, history
    <2>2. addr'[e] <= USTACK
      <3>1. Skip(e, a) \in Nat
        BY ForkAssumption DEF Skip
      <3> HIDE DEF a
      <3> QED  BY <1>2, <2>1, <3>1
    <2>3. DupOf(e)' /\ ReadyOf(e)'
      BY <1>1, <1>2, <2>1, <2>2 DEF DupOf, ReadyOf
    <2>4. OthersStay(e)
      BY <2>1 DEF OthersStay
    <2>5. JustMoves(e)
      BY <1>1, <1>2, <2>1, <2>4 DEF JustMoves
    <2> QED  BY <1>1, <2>3, <2>5, JustMovesKeeps
  <1>5. CASE /\ a >= UTEXT /\ a \in VA /\ Present(pt[e][a]) /\ pt[e][USTACK].w
             /\ perm' = [perm EXCEPT ![e] = pt[e][a]] /\ mem' = Pushed(e) /\ word' = WordPushed(e)
             /\ Moves(e, "dup child")
             /\ UNCHANGED <<env_status, pt, upcall, handler, utf, child, addr, shared, refused, forks>>
    <2>1. /\ pc'[e] = "dup child" /\ perm'[e] = pt[e][a]
          /\ UNCHANGED <<env_status, pt, handler, utf, child, addr, shared>>
          /\ \A f \in Env : f # e => perm'[f] = perm[f] /\ pc'[f] = pc[f]
      BY <1>2, <1>5, ZenonT(60) DEF Moves, TypeOK
    <2>2. DupOf(e)'
      <3>1. UTEXT <= a
        BY <1>2, <1>5, Addresses
      <3> QED  BY <1>2, <1>5, <2>1, <3>1 DEF DupOf
    <2>3. ReadyOf(e)'
      BY <2>1 DEF ReadyOf
    <2>4. OthersStay(e)
      BY <2>1 DEF OthersStay
    <2>5. JustPushes(e)
      BY <1>1, <1>2, <1>5, <2>1, <2>4 DEF JustPushes, InFork
    <2> QED  BY <1>1, <1>5, <2>2, <2>3, <2>5, JustPushesKeeps
  <1> QED  BY <1>3, <1>4, <1>5 DEF fork_scan

LEMMA AllocForChildKeeps ==
    ASSUME IInv, TypeOK', NEW e \in Env, NEW place \in {"uxstack", "stack"}, NEW after \in {"stack", "temp"},
           NEW va \in {UXSTACK, USTACK}, AllocForChild(e, place, va, after)
    PROVE  IInv'
  <1>1. /\ Runs(e, pc[e]) /\ pc[e] = place /\ pt[e][USTACK].w
        /\ \/ /\ FreePages # {} /\ pt' = [pt EXCEPT ![child[e]][va] = Fresh(page_alloc)]
              /\ mem' = [Pushed(e) EXCEPT ![page_alloc] = Zero]
              /\ word' = [WordPushed(e) EXCEPT ![child[e]][va] = Zero]
           \/ mem' = Pushed(e) /\ word' = WordPushed(e) /\ pt' = pt
        /\ pc' = [pc EXCEPT ![e] = after]
        /\ UNCHANGED <<env_status, handler, utf, child, addr, perm, shared>>
    BY DEF AllocForChild, Calls, Runs, Moves, locals
  <1>2. /\ env_status[e] = "RUNNABLE" /\ utf[e] = <<>> /\ TypeOK /\ handler[e] # "alloc" /\ child[e] \in Env
        /\ child[e] # e /\ DupOf(e) /\ va \in VA /\ place \in InFork /\ after \in InFork
    <2>1. place \in InFork /\ after \in InFork
      BY DEF InFork, Stack
    <2>2. va \in VA
      BY Addresses
    <2>3. pc[e] # "run" /\ DupOf(e)
      BY <1>1, NowGood DEF Good
    <2> QED  BY <1>1, <2>1, <2>2, <2>3, InProgram DEF IInv
  <1>3. pc'[e] = after /\ \A f \in Env : f # e => pc'[f] = pc[f]
    BY <1>1, <1>2 DEF TypeOK
  <1>4. OthersStay(e)
    BY <1>1, <1>3 DEF OthersStay
  <1>5. DupOf(e)' /\ ReadyOf(e)'
    BY <1>1, <1>2, <1>3 DEF DupOf, ReadyOf
  <1>6. CASE mem' = Pushed(e) /\ word' = WordPushed(e) /\ pt' = pt
    <2>1. JustPushes(e)
      BY <1>1, <1>2, <1>3, <1>4, <1>6 DEF JustPushes
    <2> QED  BY <1>1, <1>5, <2>1, JustPushesKeeps
  <1>7. CASE /\ FreePages # {} /\ pt' = [pt EXCEPT ![child[e]][va] = Fresh(page_alloc)]
             /\ mem' = [Pushed(e) EXCEPT ![page_alloc] = Zero]
             /\ word' = [WordPushed(e) EXCEPT ![child[e]][va] = Zero]
    <2>1. PushesFresh(e, child[e], va)
      BY <1>1, <1>2, <1>3, <1>4, <1>7 DEF PushesFresh, Changes
    <2> QED  BY <1>1, <1>2, <1>5, <2>1, PushesFreshKeeps
  <1> QED  BY <1>1, <1>6, <1>7

LEMMA ForkUpcallKeeps ==
    ASSUME IInv, TypeOK', NEW e \in Env, fork_upcall(e)
    PROVE  IInv'
  <1>1. /\ Runs(e, pc[e]) /\ pc[e] = "set upcall" /\ pt[e][USTACK].w /\ mem' = Pushed(e) /\ word' = WordPushed(e)
        /\ pc' = [pc EXCEPT ![e] = "set status"]
        /\ UNCHANGED <<env_status, pt, handler, utf, child, addr, perm, shared>>
    BY DEF fork_upcall, Calls, Runs, Moves, locals
  <1>2. /\ env_status[e] = "RUNNABLE" /\ utf[e] = <<>> /\ TypeOK /\ handler[e] # "alloc" /\ child[e] \in Env
        /\ child[e] # e /\ Good(e) /\ {"set upcall", "set status"} \subseteq InFork /\ USTACK \in VA
    <2>1. {"set upcall", "set status"} \subseteq InFork /\ pc[e] # "run" /\ Good(e)
      BY <1>1, NowGood DEF InFork, Stack
    <2> QED  BY <1>1, <2>1, InProgram, Addresses, ZenonT(60) DEF IInv
  <1>3. pc'[e] = "set status" /\ \A f \in Env : f # e => pc'[f] = pc[f]
    BY <1>1, <1>2 DEF TypeOK
  <1>4. OthersStay(e)
    BY <1>1, <1>3 DEF OthersStay
  <1>5. DupOf(e)'
    BY <1>1, <1>2, <1>3 DEF Good, DupOf
  <1>6. ReadyOf(e)'
    <2> SUFFICES ASSUME Present(pt[child[e]][USTACK])
                 PROVE  mem'[pt[child[e]][USTACK].page] = word'[child[e]][USTACK]
      BY <1>1 DEF ReadyOf
    <2>1. mem[pt[child[e]][USTACK].page] = word[child[e]][USTACK]
      BY <1>1, <1>2 DEF Good, ReadyOf
    <2>2. WordPushed(e)[child[e]] = word[child[e]]
      BY <1>1, <1>2, StackIsOwn
    <2>3. \A f \in Env, va \in VA : Present(pt[f][va]) /\ (f # e \/ va # USTACK) =>
             Pushed(e)[pt[f][va].page] = mem[pt[f][va].page]
      BY <1>1, StackIsOwn
    <2>4. Pushed(e)[pt[child[e]][USTACK].page] = mem[pt[child[e]][USTACK].page]
      BY <1>2, <2>3
    <2> QED  BY <1>1, <2>1, <2>2, <2>4
  <1>7. JustPushes(e)
    BY <1>1, <1>2, <1>3, <1>4 DEF JustPushes
  <1> QED  BY <1>1, <1>5, <1>6, <1>7, JustPushesKeeps

\* What an instruction fetch, a read or a call finds missing.
LEMMA FetchAbsentKeeps ==
    ASSUME IInv, TypeOK', NEW e \in Env, FetchAbsent(e)
    PROVE  IInv'
  <1>1. env_status[e] = "RUNNABLE" /\ utf[e] = <<>> /\ pt[e][UTEXT] = Absent /\ page_fault_handler(e, UTEXT, FALSE)
    BY DEF FetchAbsent, Present
  <1>2. UTEXT \in VA /\ DupOf(e)
    BY NowGood, Addresses DEF Good
  <1>3. ~Present(pt[e][UTEXT]) /\ ~pt[e][UTEXT].share
    BY <1>1 DEF Present, Absent
  <1>4. pc[e] \notin {"dup child", "dup self", "memmove", "untemp"}
    BY <1>2, <1>3 DEF DupOf
  <1>5. MayFault(e, UTEXT)
    BY <1>1, <1>3, <1>4 DEF MayFault
  <1> QED  BY <1>1, <1>2, <1>5, FaultKeeps

LEMMA ReadAbsentKeeps ==
    ASSUME IInv, TypeOK', NEW e \in Env, NEW va \in VA, ReadAbsent(e, va)
    PROVE  IInv'
  <1>1. /\ env_status[e] = "RUNNABLE" /\ utf[e] = <<>> /\ pc[e] = "run" /\ pt[e][va] = Absent
        /\ page_fault_handler(e, va, FALSE)
    BY DEF ReadAbsent, Runs, Present
  <1>2. MayFault(e, va)
    BY <1>1 DEF MayFault, Absent
  <1> QED  BY <1>1, <1>2, FaultKeeps

LEMMA PushFaultsKeeps ==
    ASSUME IInv, TypeOK', NEW e \in Env, PushFaults(e)
    PROVE  IInv'
  <1>1. env_status[e] = "RUNNABLE" /\ utf[e] = <<>> /\ ~pt[e][USTACK].w /\ page_fault_handler(e, USTACK, TRUE)
    BY DEF PushFaults, Runs
  <1>2. USTACK \in VA /\ DupOf(e) /\ ~pt[e][USTACK].share
    BY NowGood, Addresses DEF Good, IInv, ShareInv
  <1>3. MayFault(e, USTACK)
    BY <1>1, <1>2 DEF DupOf, MayFault
  <1> QED  BY <1>1, <1>2, <1>3, FaultKeeps

LEMMA ExitKeeps ==
    ASSUME IInv, TypeOK', NEW e \in Env, Exit(e)
    PROVE  IInv'
  BY DiesKeeps DEF Exit, Runs

LEMMA SetAllocHandlerKeeps ==
    ASSUME IInv, TypeOK', NEW e \in Env, set_alloc_handler(e)
    PROVE  IInv'
  <1>1. env_status[e] = "RUNNABLE" /\ utf[e] = <<>> /\ pc[e] = "run" /\ UXSTACK \in VA /\ TypeOK /\ Good(e)
    BY Addresses, NowGood DEF set_alloc_handler, Runs, IInv
  <1>2. CASE Panics(e)
    BY <1>1, <1>2, PanicsKeeps
  <1>3. CASE ~Panics(e)
    <2>1. /\ FreePages # {} /\ Changes(e, UXSTACK, Fresh(page_alloc))
          /\ mem' = [mem EXCEPT ![page_alloc] = Zero] /\ word' = [word EXCEPT ![e][UXSTACK] = Zero]
          /\ handler' = [handler EXCEPT ![e] = "alloc"]
          /\ UNCHANGED <<env_status, pc, utf, child, addr, perm, shared>>
      BY <1>3 DEF set_alloc_handler, Changes, locals
    <2>2. handler'[e] = "alloc" /\ \A f \in Env : f # e => handler'[f] = handler[f]
      BY <1>1, <2>1 DEF TypeOK
    <2>3. OthersStay(e) /\ Unexcused(e)
      BY <1>1, <2>1, <2>2 DEF OthersStay, Unexcused
    <2>4. ShareInv' /\ OwnerInv'
      BY <1>1, <2>1, <2>3, FreshKeeps
    <2>5. /\ pt'[e][UXSTACK] = Fresh(page_alloc)
          /\ \A va \in VA : va # UXSTACK => pt'[e][va] = pt[e][va]
          /\ \A f \in Env : f # e => pt'[f] = pt[f]
      BY <1>1, <2>1, Changed
    <2>6. /\ mem'[page_alloc] = Zero /\ Fresh(page_alloc).page = page_alloc /\ ~Fresh(page_alloc).share
          /\ \A f \in Env, va \in VA : Present(pt[f][va]) => mem'[pt[f][va].page] = mem[pt[f][va].page]
      BY <1>1, <2>1, FreshPage
    <2>7. /\ word'[e][UXSTACK] = Zero /\ \A va \in VA : va # UXSTACK => word'[e][va] = word[e][va]
          /\ \A f \in Env : f # e => word'[f] = word[f]
      BY <1>1, <2>1 DEF TypeOK
    <2>8. pt'[e][PFTEMP] = pt[e][PFTEMP]
      BY <2>5, Addresses
    <2>9. FrameOf(e)'
      BY <1>1, <2>1 DEF FrameOf
    <2>10. TempOf(e)' /\ DupOf(e)' /\ CopyOf(e)' /\ ReadyOf(e)'
      BY <1>1, <2>1, <2>2, <2>8 DEF TempOf, DupOf, CopyOf, ReadyOf, Good, InFork, Stack
    <2>11. MemOf(e)'
      <3> SUFFICES ASSUME NEW va \in VA \ {PFTEMP}, Present(pt'[e][va])
                   PROVE  \/ pt'[e][va].share /\ mem'[pt'[e][va].page] = shared[va]
                          \/ ~pt'[e][va].share /\ mem'[pt'[e][va].page] = word'[e][va]
        BY <2>1 DEF MemOf
      <3>1. CASE va = UXSTACK
        BY <2>5, <2>6, <2>7, <3>1
      <3>2. CASE va # UXSTACK
        <4>1. pt'[e][va] = pt[e][va] /\ word'[e][va] = word[e][va] /\ Present(pt[e][va])
          BY <2>5, <2>7, <3>2
        <4>2. mem'[pt[e][va].page] = mem[pt[e][va].page]
          BY <2>6, <4>1
        <4> QED  BY <1>1, <4>1, <4>2 DEF MemOf, Good
      <3> QED  BY <3>1, <3>2
    <2>12. Good(e)'
      BY <2>9, <2>10, <2>11 DEF Good
    <2> QED  BY <1>1, <2>1, <2>3, <2>4, <2>5, <2>6, <2>7, <2>12, StepMine
  <1> QED  BY <1>2, <1>3

\* One entry of the program or its child changes, while something is pushed.
PushesMap(e, g, x, y) ==
    /\ Changes(g, x, y) /\ mem' = Pushed(e) /\ shared' = shared /\ OthersStay(e)
    /\ env_status'[e] = "RUNNABLE" /\ child'[e] = child[e] /\ (pc[e] \in InFork <=> pc'[e] \in InFork)
    /\ utf'[e] = <<>> /\ handler[e] # "alloc" /\ handler'[e] # "alloc"
    /\ g \in {e, child[e]} /\ (g # e => x # PFTEMP)
    /\ \A f \in Env : f # g => word'[f] = WordPushed(e)[f]
    /\ \A va \in VA : va # x => word'[g][va] = WordPushed(e)[g][va]
MapsWord(e, g, x, y) ==
    x # PFTEMP => \/ y.share /\ mem'[y.page] = shared[x]
                  \/ ~y.share /\ mem'[y.page] = word'[g][x]
                  \/ g # e /\ x = USTACK

LEMMA PushesMapKeeps ==
    ASSUME IInv, TypeOK', NEW e \in Env, Runs(e, pc[e]), pt[e][USTACK].w,
           NEW g \in Env, NEW x \in VA, NEW y, PushesMap(e, g, x, y), MapsWord(e, g, x, y),
           ShareInv', OwnerInv', TempOf(e)', DupOf(e)', ReadyOf(e)'
    PROVE  IInv'
  <1>1. /\ env_status[e] = "RUNNABLE" /\ utf[e] = <<>> /\ TypeOK /\ Good(e) /\ USTACK \in VA /\ PFTEMP \in VA
        /\ child[e] \in Env /\ (child[e] # e => env_status[child[e]] = "NOT_RUNNABLE")
    BY InProgram, NowGood, Addresses DEF IInv
  <1>2. /\ Changes(g, x, y) /\ mem' = Pushed(e) /\ shared' = shared /\ OthersStay(e)
        /\ env_status'[e] = "RUNNABLE" /\ child'[e] = child[e] /\ (pc[e] \in InFork <=> pc'[e] \in InFork)
        /\ utf'[e] = <<>> /\ handler[e] # "alloc" /\ handler'[e] # "alloc"
        /\ g \in {e, child[e]} /\ (g # e => x # PFTEMP)
    BY DEF PushesMap
  <1>3. /\ mem'[pt[e][USTACK].page] = pc[e] /\ WordPushed(e)[e][USTACK] = pc[e] /\ ~pt[e][USTACK].share
        /\ \A va \in VA : va # USTACK => WordPushed(e)[e][va] = word[e][va]
        /\ \A f \in Env : f # e => WordPushed(e)[f] = word[f]
    BY <1>2, StackPush
  <1>4. \A f \in Env, va \in VA : Present(pt[f][va]) /\ (f # e \/ va # USTACK) /\ (f # child[e] \/ va # USTACK) =>
           mem'[pt[f][va].page] = mem[pt[f][va].page]
    <2>1. \A f \in Env, va \in VA :
             /\ Present(pt[f][va]) /\ (f # e \/ va # USTACK)
             /\ pc[e] = "dup self" => f # child[e] \/ va # USTACK
             => Pushed(e)[pt[f][va].page] = mem[pt[f][va].page]
      BY StackPush
    <2> QED  BY <1>2, <2>1
  <1>5. /\ \A f \in Env : f # g => word'[f] = WordPushed(e)[f]
        /\ \A va \in VA : va # x => word'[g][va] = WordPushed(e)[g][va]
    BY DEF PushesMap
  <1>6. /\ pt'[g][x] = y
        /\ \A f \in Env, va \in VA : f # g \/ va # x => pt'[f][va] = pt[f][va]
        /\ \A f \in Env : f # g => pt'[f] = pt[f]
    BY <1>1, <1>2, Changed
  <1>7. FrameOf(e)' /\ CopyOf(e)'
    BY <1>2 DEF FrameOf, CopyOf
  <1>8. MemOf(e)'
    <2> SUFFICES ASSUME NEW va \in VA \ {PFTEMP}, Present(pt'[e][va])
                 PROVE  \/ pt'[e][va].share /\ mem'[pt'[e][va].page] = shared[va]
                        \/ ~pt'[e][va].share /\ mem'[pt'[e][va].page] = word'[e][va]
      BY <1>2 DEF MemOf
    <2>1. CASE e = g /\ va = x
      BY <1>6, <2>1 DEF MapsWord
    <2>2. CASE ~(e = g /\ va = x)
      <3>1. pt'[e][va] = pt[e][va] /\ word'[e][va] = WordPushed(e)[e][va] /\ Present(pt[e][va])
        BY <1>5, <1>6, <2>2
      <3>2. CASE va = USTACK
        BY <1>3, <3>1, <3>2
      <3>3. CASE va # USTACK
        <4>1. mem'[pt[e][va].page] = mem[pt[e][va].page] /\ word'[e][va] = word[e][va]
          BY <1>3, <1>4, <3>1, <3>3
        <4> QED  BY <1>1, <3>1, <4>1 DEF MemOf, Good
      <3> QED  BY <3>2, <3>3
    <2> QED  BY <2>1, <2>2
  <1>9. ASSUME child[e] # e PROVE pt'[child[e]][PFTEMP] = pt[child[e]][PFTEMP] /\ MemOf(child[e])'
    <2> DEFINE c == child[e]
    <2>1. env_status'[c] = "NOT_RUNNABLE" /\ c \in Env /\ c # e /\ MemOf(c) /\ env_status[c] = "NOT_RUNNABLE"
      BY <1>1, <1>2, <1>9, NowGood DEF OthersStay, Good
    <2>2. pt'[c][PFTEMP] = pt[c][PFTEMP]
      BY <1>1, <1>2, <1>6, <2>1
    <2>3. \A va \in VA : Present(pt[c][va]) /\ va # USTACK => mem'[pt[c][va].page] = mem[pt[c][va].page]
      BY <1>4, <2>1
    <2> HIDE DEF c
    <2>4. ASSUME NEW va \in VA \ {PFTEMP}, Present(pt'[c][va]), va # USTACK
          PROVE  \/ pt'[c][va].share /\ mem'[pt'[c][va].page] = shared[va]
                 \/ ~pt'[c][va].share /\ mem'[pt'[c][va].page] = word'[c][va]
      <3>1. CASE c = g /\ va = x
        BY <1>6, <2>4, <3>1 DEF MapsWord
      <3>2. CASE ~(c = g /\ va = x)
        <4>1. pt'[c][va] = pt[c][va] /\ word'[c][va] = WordPushed(e)[c][va] /\ Present(pt[c][va])
          BY <1>5, <1>6, <2>1, <2>4, <3>2
        <4>2. mem'[pt[c][va].page] = mem[pt[c][va].page] /\ word'[c][va] = word[c][va]
          BY <1>3, <2>1, <2>3, <2>4, <4>1
        <4> QED  BY <2>1, <2>4, <4>1, <4>2 DEF MemOf
      <3> QED  BY <3>1, <3>2
    <2>5. MemOf(c)'
      <3>1. shared' = shared /\ env_status'[c] = "NOT_RUNNABLE" /\ child'[e] = child[e]
        BY <1>2, <2>1
      <3> SUFFICES ASSUME NEW va \in VA \ {PFTEMP}, Present(pt'[c][va])
                   PROVE  \/ pt'[c][va].share /\ mem'[pt'[c][va].page] = shared[va]
                          \/ ~pt'[c][va].share /\ mem'[pt'[c][va].page] = word'[c][va]
                          \/ va = USTACK
        BY <3>1 DEF MemOf, c
      <3> QED  BY <2>4
    <2> QED  BY <2>2, <2>5 DEF c
  <1>10. Apart(e, child[e])
    <2>1. ASSUME NEW f \in Env \ {e, child[e]}, NEW va \in VA, Present(pt[f][va])
          PROVE  IF pt[f][va].share THEN mem'[pt[f][va].page] = shared'[va]
                 ELSE mem'[pt[f][va].page] = mem[pt[f][va].page]
      <3>1. mem'[pt[f][va].page] = mem[pt[f][va].page]
        BY <1>4, <2>1
      <3>2. pt[f][va].share => mem[pt[f][va].page] = shared[va]
        BY <2>1, SharedWords
      <3> QED  BY <1>2, <3>1, <3>2
    <2>2. \A f \in Env \ {e, child[e]} : pt'[f] = pt[f] /\ word'[f] = word[f]
      BY <1>2, <1>3, <1>5, <1>6
    <2> QED  BY <1>2, <2>1, <2>2 DEF Apart, OthersStay
  <1>11. Good(e)'
    BY <1>7, <1>8 DEF Good
  <1> QED  BY <1>1, <1>2, <1>9, <1>10, <1>11, StepKeeps

LEMMA ForkUntempKeeps ==
    ASSUME IInv, TypeOK', NEW e \in Env, fork_untemp(e)
    PROVE  IInv'
  <1>1. /\ Runs(e, pc[e]) /\ pc[e] = "untemp" /\ pt[e][USTACK].w /\ mem' = Pushed(e) /\ word' = WordPushed(e)
        /\ Changes(e, PFTEMP, Absent) /\ pc' = [pc EXCEPT ![e] = "set upcall"]
        /\ UNCHANGED <<env_status, handler, utf, child, addr, perm, shared>>
    BY DEF fork_untemp, Calls, Runs, Moves, locals, Changes
  <1>2. /\ env_status[e] = "RUNNABLE" /\ utf[e] = <<>> /\ TypeOK /\ handler[e] # "alloc" /\ child[e] \in Env
        /\ child[e] # e /\ Good(e) /\ {"untemp", "set upcall"} \subseteq InFork
    <2>1. {"untemp", "set upcall"} \subseteq InFork /\ pc[e] # "run" /\ Good(e)
      BY <1>1, NowGood DEF InFork, Stack
    <2> QED  BY <1>1, <2>1, InProgram, ZenonT(60) DEF IInv
  <1>3. pc'[e] = "set upcall" /\ \A f \in Env : f # e => pc'[f] = pc[f]
    BY <1>1, <1>2 DEF TypeOK
  <1>4. OthersStay(e) /\ USTACK \in VA /\ PFTEMP \in VA /\ USTACK # PFTEMP
    BY <1>1, <1>3, Addresses DEF OthersStay
  <1>5. /\ pt'[e][PFTEMP] = Absent
        /\ \A f \in Env, va \in VA : f # e \/ va # PFTEMP => pt'[f][va] = pt[f][va]
    <2>1. TypeOK /\ PFTEMP \in VA /\ Changes(e, PFTEMP, Absent)
      BY <1>1, <1>2, <1>4
    <2> QED  BY <2>1, Changed
  <1>6. ShareInv' /\ OwnerInv'
    <2>1. OnlyThere(e, e, PFTEMP)
      BY <1>1, <1>2 DEF OnlyThere, Fixing, Lending, Splitting
    <2> QED  BY <1>1, <1>4, <2>1, UnmapKeeps
  <1>7. TempOf(e)'
    BY <1>5 DEF TempOf
  <1>8. DupOf(e)'
    BY <1>1, <1>2, <1>3 DEF Good, DupOf
  <1>9. ReadyOf(e)'
    <2>1. pt'[child[e]][USTACK] = pt[child[e]][USTACK]
      BY <1>2, <1>4, <1>5
    <2> SUFFICES ASSUME Present(pt[child[e]][USTACK])
                 PROVE  mem'[pt[child[e]][USTACK].page] = word'[child[e]][USTACK]
      BY <1>1, <2>1 DEF ReadyOf
    <2>2. mem[pt[child[e]][USTACK].page] = word[child[e]][USTACK]
      BY <1>1, <1>2 DEF Good, ReadyOf
    <2>3. WordPushed(e)[child[e]] = word[child[e]]
      BY <1>1, <1>2, StackIsOwn
    <2>4. \A f \in Env, va \in VA : Present(pt[f][va]) /\ (f # e \/ va # USTACK) =>
             Pushed(e)[pt[f][va].page] = mem[pt[f][va].page]
      BY <1>1, StackIsOwn
    <2>5. Pushed(e)[pt[child[e]][USTACK].page] = mem[pt[child[e]][USTACK].page]
      BY <1>2, <1>4, <2>4
    <2> QED  BY <1>1, <2>2, <2>3, <2>5
  <1>10. PushesMap(e, e, PFTEMP, Absent) /\ MapsWord(e, e, PFTEMP, Absent)
    BY <1>1, <1>2, <1>3, <1>4 DEF PushesMap, MapsWord
  <1> QED  BY <1>1, <1>4, <1>6, <1>7, <1>8, <1>9, <1>10, PushesMapKeeps

\* The stack of a new child is mapped by nobody else.
LEMMA ChildStack ==
    ASSUME IInv, NEW e \in Env, Runs(e, pc[e]), pc[e] \in InFork, pc[e] # "dup self",
           Private(child[e], USTACK)
    PROVE  /\ pt[child[e]][USTACK].page \in Page
           /\ \A f \in Env, vb \in VA :
                 /\ f # child[e] \/ vb # USTACK
                 /\ pc[e] \in {"memmove", "untemp"} => f # e \/ vb # PFTEMP
                 => pt[f][vb].page # pt[child[e]][USTACK].page
  <1> DEFINE c == child[e]
  <1>1. /\ c \in Env /\ c # e /\ utf[c] = <<>> /\ pc[c] = "child" /\ FamilyInv /\ OwnerInv /\ TypeOK
        /\ utf[e] = <<>> /\ USTACK \in VA /\ PFTEMP \in VA
    BY InProgram, Addresses DEF IInv
  <1>2. pt[c][USTACK].page \in Page
    <2>1. pt \in [Env -> [VA -> Entries]]
      BY <1>1 DEF TypeOK
    <2>2. c \in Env /\ USTACK \in VA /\ pt[c][USTACK].w
      BY <1>1 DEF Private
    <2> HIDE DEF c
    <2>3. pt[c][USTACK] \in Entries
      BY <2>1, <2>2
    <2> QED  BY <2>2, <2>3, EntryPage
  <1>3. ASSUME NEW f \in Env, c = child[f], f # c PROVE f = e
    BY <1>1, <1>3 DEF FamilyInv
  <1>4. \A f \in Env : pc[f] \in InFork => child[f] # f
    BY <1>1 DEF FamilyInv
  <1> SUFFICES ASSUME NEW f \in Env, NEW vb \in VA, f # c \/ vb # USTACK,
                      pc[e] \in {"memmove", "untemp"} => f # e \/ vb # PFTEMP,
                      pt[f][vb].page = pt[c][USTACK].page
               PROVE  FALSE
    BY <1>2
  <1>5. Excused(c, USTACK, f, vb)
    <2> HIDE DEF c
    <2> QED  BY <1>1 DEF OwnerInv, c
  <1>6. ~Fixing(c, USTACK, vb) /\ ~Lending(c, USTACK, f, vb) /\ ~Splitting(c, USTACK, f, vb)
    BY <1>1 DEF Fixing, Lending, Splitting
  <1>7. Lending(f, vb, c, USTACK)
    BY <1>5, <1>6 DEF Excused
  <1>8. pc[f] \in {"memmove", "untemp"} /\ vb = PFTEMP /\ c = child[f]
    BY <1>7 DEF Lending
  <1>9. f # c
    BY <1>4, <1>8 DEF InFork, Stack
  <1>10. f = e
    BY <1>3, <1>8, <1>9
  <1> QED  BY <1>8, <1>10

LEMMA ForkTempKeeps ==
    ASSUME IInv, TypeOK', NEW e \in Env, fork_temp(e)
    PROVE  IInv'
  <1> DEFINE c == child[e]
             theirs == pt[c][USTACK]
             y == Fresh(theirs.page)
  <1>1. /\ Runs(e, pc[e]) /\ pc[e] = "temp" /\ pt[e][USTACK].w /\ mem' = Pushed(e) /\ word' = WordPushed(e)
        /\ pt' = IF MayMap(theirs, Fresh(0)) THEN [pt EXCEPT ![e][PFTEMP] = y] ELSE pt
        /\ pc' = [pc EXCEPT ![e] = "memmove"]
        /\ UNCHANGED <<env_status, handler, utf, child, addr, perm, shared>>
    BY DEF fork_temp, Calls, Runs, Moves, locals
  <1>2. /\ env_status[e] = "RUNNABLE" /\ utf[e] = <<>> /\ TypeOK /\ handler[e] # "alloc" /\ c \in Env
        /\ c # e /\ Good(e) /\ {"temp", "memmove"} \subseteq InFork /\ pt[e][PFTEMP] = Absent
        /\ Present(pt[e][UTEXT])
    <2>1. {"temp", "memmove"} \subseteq InFork /\ pc[e] # "run" /\ Good(e)
      BY <1>1, NowGood DEF InFork, Stack
    <2> QED  BY <1>1, <2>1, InProgram DEF IInv
  <1>3. pc'[e] = "memmove" /\ \A f \in Env : f # e => pc'[f] = pc[f]
    BY <1>1, <1>2 DEF TypeOK
  <1>4. OthersStay(e) /\ USTACK \in VA /\ PFTEMP \in VA /\ USTACK # PFTEMP /\ UTEXT \in VA /\ UTEXT # PFTEMP
    BY <1>1, <1>3, Addresses DEF OthersStay
  <1>5. ReadyOf(e)'
    BY <1>3 DEF ReadyOf
  <1>6. CASE pt' = pt
    <2>1. DupOf(e)'
      BY <1>1, <1>2, <1>3, <1>6 DEF Good, DupOf
    <2>2. JustPushes(e)
      BY <1>1, <1>2, <1>3, <1>4, <1>6 DEF JustPushes
    <2> QED  BY <1>1, <1>5, <2>1, <2>2, JustPushesKeeps
  <1>7. CASE MayMap(theirs, Fresh(0)) /\ Changes(e, PFTEMP, y)
    <2>1. /\ pt'[e][PFTEMP] = y
          /\ \A f \in Env, va \in VA : f # e \/ va # PFTEMP => pt'[f][va] = pt[f][va]
      BY <1>2, <1>4, <1>7, Changed
    <2>2. Private(c, USTACK)
      <3>1. theirs.w
        BY <1>7 DEF MayMap, Fresh
      <3>2. ~theirs.share
        BY <1>2 DEF IInv, ShareInv
      <3> QED  BY <3>1, <3>2 DEF Private
    <2>3. /\ theirs.page \in Page
          /\ \A f \in Env, vb \in VA : f # c \/ vb # USTACK => pt[f][vb].page # theirs.page
      BY <1>1, <1>2, <2>2, ChildStack
    <2> HIDE DEF c, theirs
    <2>4. y.w /\ ~y.share /\ y.page = theirs.page /\ y \in Entries
      BY <2>3 DEF Fresh, Entries
    <2> HIDE DEF y
    <2>5. ShareInv'
      <3>1. ASSUME NEW f \in Env, NEW va \in VA, pt[f][va].share PROVE pt[f][va].page # y.page
        <4>1. ~(f = c /\ va = USTACK)
          BY <2>2, <3>1 DEF Private
        <4> QED  BY <2>3, <2>4, <4>1
      <3>2. ShareInv /\ TypeOK
        BY DEF IInv
      <3> QED  BY <1>4, <1>7, <2>4, <3>1, <3>2, ShareKept
    <2>6. OwnerInv'
      <3>1. OnlyThere(e, e, PFTEMP)
        BY <1>1, <1>2 DEF OnlyThere, Fixing, Lending, Splitting
      <3>2. ExcusedThere(e, PFTEMP, y)
        <4> SUFFICES ASSUME NEW f \in Env, NEW vb \in VA, pt[f][vb].page = y.page
                     PROVE  Excused(e, PFTEMP, f, vb)' /\ Excused(f, vb, e, PFTEMP)'
          BY DEF ExcusedThere
        <4>1. f = c /\ vb = USTACK
          BY <2>3, <2>4
        <4>2. Lending(e, PFTEMP, f, vb)'
          BY <1>1, <1>2, <1>3, <4>1 DEF Lending, c
        <4> QED  BY <4>2 DEF Excused
      <3>3. OwnerInv
        BY DEF IInv
      <3> QED  BY <1>2, <1>4, <1>7, <2>4, <3>1, <3>2, <3>3, OwnerKept
    <2>7. TempOf(e)'
      <3>1. pt'[c][USTACK] = theirs
        BY <1>2, <1>4, <2>1 DEF theirs
      <3>2. pt'[e][PFTEMP].page = pt'[child'[e]][USTACK].page
        BY <1>1, <2>1, <2>4, <3>1 DEF c
      <3> QED  BY <1>3, <2>1, <2>4, <3>2 DEF TempOf
    <2>8. DupOf(e)'
      <3>1. Present(pt'[e][UTEXT]) /\ pt'[e][USTACK].w
        BY <1>1, <1>2, <1>4, <2>1
      <3>2. addr'[e] <= USTACK
        BY <1>1, <1>2 DEF Good, DupOf
      <3> QED  BY <1>3, <3>1, <3>2 DEF DupOf
    <2>9. PushesMap(e, e, PFTEMP, y) /\ MapsWord(e, e, PFTEMP, y)
      BY <1>1, <1>2, <1>3, <1>4, <1>7 DEF PushesMap, MapsWord
    <2> QED  BY <1>1, <1>4, <1>5, <2>5, <2>6, <2>7, <2>8, <2>9, PushesMapKeeps
  <1> QED  BY <1>1, <1>6, <1>7 DEF Changes

\* What duppage() maps for an entry.
LEMMA CowEntry ==
    ASSUME NEW p \in Entries, Present(p), NEW y, y = Cow(p, p.page)
    PROVE  /\ y \in Entries /\ y.page = p.page /\ p.page \in Page
           /\ (Splits(p) => ~y.w /\ ~y.share /\ ~p.share) /\ (~Splits(p) => y = p)
  <1>1. p \in [page : Page, w : BOOLEAN, cow : BOOLEAN, share : BOOLEAN]
    BY DEF Entries, Present
  <1>2. CASE Splits(p)
    <2>1. y = [page |-> p.page, w |-> FALSE, cow |-> TRUE, share |-> FALSE] /\ ~p.share
      BY <1>2 DEF Cow, Splits
    <2> QED  BY <1>1, <1>2, <2>1 DEF Entries
  <1>3. CASE ~Splits(p)
    <2>1. y = [page |-> p.page, w |-> p.w, cow |-> p.cow, share |-> p.share]
      BY <1>3 DEF Cow
    <2>2. y = p
      BY <1>1, <2>1
    <2> QED  BY <1>1, <1>3, <2>2 DEF Entries
  <1> QED  BY <1>2, <1>3

LEMMA Between ==
    ASSUME NEW k \in Nat, NEW l \in Nat, NEW m \in Nat, NEW n \in Nat, k < l, l <= m, m <= n
    PROVE  m # k /\ m \in Int /\ m - 1 <= n
  OBVIOUS

\* Where duppage() is.
LEMMA InDuppage ==
    ASSUME IInv, NEW e \in Env, Runs(e, pc[e]), pc[e] \in {"dup child", "dup self"}
    PROVE  /\ addr[e] \in VA /\ addr[e] # PFTEMP /\ Present(pt[e][addr[e]]) /\ pt[e][addr[e]] \in Entries
           /\ perm[e] = pt[e][addr[e]] /\ addr[e] <= USTACK /\ addr[e] \in Int /\ addr[e] - 1 <= USTACK
           /\ pc[e] = "dup self" => Splits(perm[e])
  <1>1. DupOf(e) /\ pc[e] \in InFork /\ TypeOK
    BY NowGood DEF Good, InFork, IInv
  <1>2. addr[e] \in VA /\ UTEXT <= addr[e] /\ Present(pt[e][addr[e]]) /\ perm[e] = pt[e][addr[e]] /\ addr[e] <= USTACK
        /\ (pc[e] = "dup self" => Splits(perm[e]))
    BY <1>1 DEF DupOf
  <1>3. pt[e][addr[e]] \in Entries
    BY <1>1, <1>2 DEF TypeOK
  <1>4. PFTEMP < UTEXT
    BY ForkAssumption
  <1>5. VA \subseteq Nat /\ PFTEMP \in VA /\ UTEXT \in VA /\ USTACK \in VA
    BY Addresses
  <1>6. addr[e] # PFTEMP /\ addr[e] \in Int /\ addr[e] - 1 <= USTACK
    <2>1. addr[e] \in Nat /\ PFTEMP \in Nat /\ UTEXT \in Nat /\ USTACK \in Nat
      BY <1>2, <1>5
    <2>2. UTEXT <= addr[e] /\ addr[e] <= USTACK
      BY <1>2
    <2> QED  BY <1>4, <2>1, <2>2, Between
  <1> QED  BY <1>2, <1>3, <1>6

LEMMA DuppageShare ==
    ASSUME IInv, NEW e \in Env, NEW g \in Env, NEW a \in VA, Present(pt[e][a]),
           NEW y, y = Cow(pt[e][a], pt[e][a].page), Changes(g, a, y)
    PROVE  ShareInv'
  <1>1. ShareInv /\ TypeOK /\ pt[e][a] \in Entries
    BY DEF IInv, TypeOK
  <1>2. /\ y \in Entries /\ y.page = pt[e][a].page
        /\ (Splits(pt[e][a]) => ~y.w /\ ~y.share /\ ~pt[e][a].share) /\ (~Splits(pt[e][a]) => y = pt[e][a])
    BY <1>1, CowEntry
  <1>3. y.share => y.w /\ pt[e][a].share
    BY <1>1, <1>2 DEF ShareInv
  <1>4. ~y.share => ~pt[e][a].share
    BY <1>2
  <1>5. ASSUME ~y.share, NEW f \in Env, NEW va \in VA, pt[f][va].share PROVE pt[f][va].page # y.page
    BY <1>1, <1>2, <1>4, <1>5 DEF ShareInv
  <1> QED  BY <1>1, <1>2, <1>3, <1>5, ShareKept

\* Nobody but the two of them writes to the page that duppage() is about.
LEMMA DuppageOwner ==
    ASSUME IInv, NEW e \in Env, Runs(e, pc[e]), pc[e] \in {"dup child", "dup self"},
           NEW f \in Env, NEW vb \in VA, Private(f, vb), pt[f][vb].page = pt[e][addr[e]].page
    PROVE  f = e /\ vb = addr[e]
  <1>1. /\ env_status[e] = "RUNNABLE" /\ utf[e] = <<>> /\ addr[e] \in VA /\ OwnerInv
    BY InProgram, InDuppage DEF IInv
  <1>2. \A h \in Env : pc[h] \in InFork => child[h] # e
    BY <1>1, Runner DEF IInv
  <1> SUFFICES ASSUME f # e \/ vb # addr[e] PROVE FALSE
    OBVIOUS
  <1>3. Excused(f, vb, e, addr[e])
    BY <1>1 DEF OwnerInv
  <1>4. ~Fixing(e, vb, addr[e]) /\ ~Lending(e, addr[e], f, vb)
    BY <1>1 DEF Fixing, Lending
  <1>5. ~Lending(f, vb, e, addr[e]) /\ ~Splitting(f, vb, e, addr[e])
    BY <1>2 DEF Lending, Splitting, InFork, Stack
  <1> QED  BY <1>3, <1>4, <1>5 DEF Excused

LEMMA DuppageSelfKeeps ==
    ASSUME IInv, TypeOK', NEW e \in Env, duppage_self(e)
    PROVE  IInv'
  <1> DEFINE a == addr[e]
             y == Cow(pt[e][a], pt[e][a].page)
  <1>1. Runs(e, pc[e]) /\ pc[e] = "dup self" /\ pt[e][USTACK].w
    BY DEF duppage_self, Calls, Runs
  <1>2. /\ a \in VA /\ a # PFTEMP /\ Present(pt[e][a]) /\ pt[e][a] \in Entries /\ perm[e] = pt[e][a]
        /\ a - 1 <= USTACK /\ Splits(pt[e][a])
    BY <1>1, InDuppage
  <1>3. /\ mem' = Pushed(e) /\ word' = WordPushed(e) /\ Changes(e, a, y) /\ addr' = [addr EXCEPT ![e] = a - 1]
        /\ pc' = [pc EXCEPT ![e] = "scan"] /\ UNCHANGED <<env_status, handler, utf, child, perm, shared>>
    BY <1>2 DEF duppage_self, Calls, Moves, Changes
  <1>4. /\ env_status[e] = "RUNNABLE" /\ utf[e] = <<>> /\ TypeOK /\ handler[e] # "alloc" /\ Good(e)
        /\ {"dup self", "scan"} \subseteq InFork /\ pt[e][PFTEMP] = Absent /\ PFTEMP \in VA /\ USTACK \in VA
    <2>1. {"dup self", "scan"} \subseteq InFork /\ pc[e] # "run" /\ Good(e)
      BY <1>1, NowGood DEF InFork
    <2> QED  BY <1>1, <2>1, InProgram, Addresses DEF IInv
  <1>5. y \in Entries /\ y.page = pt[e][a].page /\ ~y.w /\ ~y.share /\ ~pt[e][a].share
    BY <1>2, CowEntry
  <1>6. pc'[e] = "scan" /\ addr'[e] = a - 1 /\ \A f \in Env : f # e => pc'[f] = pc[f] /\ addr'[f] = addr[f]
    BY <1>3, <1>4, ZenonT(60) DEF TypeOK
  <1>7. OthersStay(e)
    BY <1>3, <1>6 DEF OthersStay
  <1>8. ShareInv'
    BY <1>2, <1>3, DuppageShare
  <1>9. OwnerInv'
    <2>1. OnlyThere(e, e, a)
      BY <1>1, <1>4 DEF OnlyThere, Fixing, Lending, Splitting
    <2>2. ASSUME NEW f \in Env, NEW vb \in VA, Private(f, vb), pt[f][vb].page = y.page PROVE f = e /\ vb = a
      BY <1>1, <1>5, <2>2, DuppageOwner, ZenonT(60)
    <2> HIDE DEF a, y
    <2>3. ExcusedThere(e, a, y)
      BY <1>5, <2>2 DEF ExcusedThere
    <2>4. OwnerInv
      BY DEF IInv
    <2> QED  BY <1>2, <1>3, <1>4, <1>5, <1>7, <2>1, <2>3, <2>4, OwnerKept
  <1>10. pt'[e][PFTEMP] = Absent
    <2>1. TypeOK /\ Changes(e, a, y) /\ a \in VA
      BY <1>2, <1>3, <1>4
    <2>2. \A f \in Env, va \in VA : f # e \/ va # a => pt'[f][va] = pt[f][va]
      <3> HIDE DEF a, y
      <3> QED  BY <2>1, Changed
    <2> QED  BY <1>2, <1>4, <2>2
  <1>11. TempOf(e)' /\ DupOf(e)' /\ ReadyOf(e)'
    BY <1>2, <1>6, <1>10 DEF TempOf, DupOf, ReadyOf
  <1>12. mem'[y.page] = word'[e][a]
    <2>1. CASE a = USTACK
      <3>1. Pushed(e)[pt[e][USTACK].page] = pc[e] /\ WordPushed(e)[e][USTACK] = pc[e]
        BY <1>1, StackPush
      <3> QED  BY <1>3, <1>5, <2>1, <3>1
    <2>2. CASE a # USTACK
      <3>1. \A va \in VA : va # USTACK => WordPushed(e)[e][va] = word[e][va]
        BY <1>1, StackPush
      <3>2. \A f \in Env, va \in VA :
                  /\ Present(pt[f][va]) /\ (f # e \/ va # USTACK)
                  /\ pc[e] = "dup self" => f # child[e] \/ va # USTACK
                  => Pushed(e)[pt[f][va].page] = mem[pt[f][va].page]
        BY <1>1, StackPush
      <3>3. mem[pt[e][a].page] = word[e][a]
        BY <1>2, <1>4, <1>5 DEF Good, MemOf
      <3> HIDE DEF a, y
      <3>4. WordPushed(e)[e][a] = word[e][a] /\ Pushed(e)[pt[e][a].page] = mem[pt[e][a].page]
        BY <1>2, <2>2, <3>1, <3>2
      <3> QED  BY <1>3, <1>5, <3>3, <3>4
    <2> QED  BY <2>1, <2>2
  <1>13. PushesMap(e, e, a, y) /\ MapsWord(e, e, a, y)
    <2> HIDE DEF a, y
    <2>1. MapsWord(e, e, a, y)
      BY <1>5, <1>12 DEF MapsWord
    <2>2. PushesMap(e, e, a, y)
      BY <1>1, <1>3, <1>4, <1>6, <1>7 DEF PushesMap
    <2> QED  BY <2>1, <2>2
  <1> HIDE DEF a, y
  <1> QED  BY <1>1, <1>2, <1>8, <1>9, <1>11, <1>13, PushesMapKeeps

\* The first sys_page_map() of duppage() succeeds.
Duppages(e, y) ==
    /\ pc[e] = "dup child" /\ y = Cow(pt[e][addr[e]], pt[e][addr[e]].page)
    /\ PushesMap(e, child[e], addr[e], y) /\ word'[child[e]][addr[e]] = WordPushed(e)[e][addr[e]]
    /\ Splits(pt[e][addr[e]]) => pc'[e] = "dup self" /\ addr'[e] = addr[e]

LEMMA DuppageMapKeeps ==
    ASSUME IInv, TypeOK', NEW e \in Env, Runs(e, pc[e]), pt[e][USTACK].w, NEW y, Duppages(e, y),
           TempOf(e)', DupOf(e)', ReadyOf(e)'
    PROVE  IInv'
  <1> DEFINE a == addr[e]
             c == child[e]
             p == pt[e][a]
  <1>0. pc[e] = "dup child" /\ y = Cow(p, p.page) /\ PushesMap(e, c, a, y)
    BY DEF Duppages
  <1>1. /\ a \in VA /\ a # PFTEMP /\ Present(p) /\ p \in Entries
    BY <1>0, InDuppage
  <1>2. /\ env_status[e] = "RUNNABLE" /\ utf[e] = <<>> /\ TypeOK /\ Good(e) /\ c \in Env /\ c # e
        /\ OwnerInv /\ USTACK \in VA
    <2>1. pc[e] \in InFork /\ Good(e)
      BY <1>0, NowGood DEF InFork
    <2> QED  BY <1>0, <2>1, InProgram, Addresses DEF IInv
  <1>3. Changes(c, a, y) /\ mem' = Pushed(e) /\ OthersStay(e) /\ child'[e] = c
    BY <1>0 DEF PushesMap
  <1>4. /\ y \in Entries /\ y.page = p.page /\ p.page \in Page
        /\ (Splits(p) => ~y.w /\ ~y.share /\ ~p.share) /\ (~Splits(p) => y = p)
    BY <1>0, <1>1, CowEntry
  <1>5. ShareInv'
    BY <1>0, <1>1, <1>2, <1>3, DuppageShare
  <1>6. p.w /\ ~p.share => Splits(p)
    BY DEF Splits
  <1>7. ASSUME NEW f \in Env, NEW vb \in VA, Private(f, vb), pt[f][vb].page = p.page PROVE f = e /\ vb = a
    BY <1>0, <1>7, DuppageOwner
  <1>8. /\ pt'[c][a] = y
        /\ \A f \in Env, va \in VA : f # c \/ va # a => pt'[f][va] = pt[f][va]
    <2> HIDE DEF a, c, p
    <2>1. TypeOK /\ c \in Env /\ a \in VA /\ Changes(c, a, y)
      BY <1>1, <1>2, <1>3
    <2> QED  BY <2>1, Changed
  <1>9. Splits(p) => pc'[e] = "dup self" /\ addr'[e] = a
    BY DEF Duppages
  <1>10. OnlyThere(e, c, a)
    BY <1>0, <1>2 DEF OnlyThere, Fixing, Lending, Splitting
  <1>11. ASSUME NEW va \in VA, Present(pt[e][va]), va # USTACK
         PROVE  mem'[pt[e][va].page] = mem[pt[e][va].page] /\ WordPushed(e)[e][va] = word[e][va]
    <2>1. \A b \in VA : b # USTACK => WordPushed(e)[e][b] = word[e][b]
      BY <1>0, StackIsOwn
    <2>2. \A f \in Env, b \in VA : Present(pt[f][b]) /\ (f # e \/ b # USTACK) =>
             Pushed(e)[pt[f][b].page] = mem[pt[f][b].page]
      BY <1>0, StackIsOwn
    <2> QED  BY <1>3, <1>11, <2>1, <2>2
  <1>12. OwnerInv'
    <2>1. ExcusedThere(c, a, y)
      <3> SUFFICES ASSUME NEW f \in Env, NEW vb \in VA, f # c \/ vb # a, pt[f][vb].page = y.page
                   PROVE  /\ y.w /\ ~y.share => Excused(c, a, f, vb)'
                          /\ Private(f, vb) => Excused(f, vb, c, a)'
        BY DEF ExcusedThere
      <3>1. ~(y.w /\ ~y.share)
        BY <1>4, <1>6
      <3>2. ASSUME Private(f, vb) PROVE Excused(f, vb, c, a)'
        <4>1. f = e /\ vb = a
          BY <1>4, <1>7, <3>2
        <4>2. Splits(p)
          BY <1>6, <3>2, <4>1 DEF Private
        <4>3. ~pt'[c][a].w
          BY <1>4, <1>8, <4>2
        <4>4. Splitting(f, vb, c, a)'
          BY <1>3, <1>9, <4>1, <4>2, <4>3 DEF Splitting
        <4> QED  BY <4>4 DEF Excused
      <3> QED  BY <3>1, <3>2
    <2> HIDE DEF a, c, p
    <2> QED  BY <1>1, <1>2, <1>3, <1>4, <1>10, <2>1, OwnerKept
  <1>13. MapsWord(e, c, a, y)
    <2>1. CASE a = USTACK
      BY <1>2, <2>1 DEF MapsWord
    <2>2. CASE a # USTACK
      <3>1. mem'[y.page] = mem[p.page] /\ word'[c][a] = word[e][a]
        BY <1>1, <1>4, <1>11, <2>2 DEF Duppages
      <3>2. p.share => mem[p.page] = shared[a]
        BY <1>1, SharedWords
      <3>3. ~p.share => mem[p.page] = word[e][a]
        BY <1>1, <1>2, <2>2 DEF Good, MemOf
      <3>4. CASE p.share
        BY <1>4, <3>1, <3>2, <3>4 DEF MapsWord
      <3>5. CASE ~p.share
        BY <1>4, <3>1, <3>3, <3>5 DEF MapsWord
      <3> QED  BY <3>4, <3>5
    <2> QED  BY <2>1, <2>2
  <1> QED  BY <1>0, <1>1, <1>2, <1>5, <1>12, <1>13, PushesMapKeeps

LEMMA DuppageChildKeeps ==
    ASSUME IInv, TypeOK', NEW e \in Env, duppage_child(e)
    PROVE  IInv'
  <1> DEFINE a == addr[e]
             c == child[e]
             p == pt[e][a]
             y == Cow(p, p.page)
             again == Splits(p)
  <1>1. Runs(e, pc[e]) /\ pc[e] = "dup child" /\ pt[e][USTACK].w
    BY DEF duppage_child, Calls, Runs
  <1>2. a \in VA /\ a # PFTEMP /\ Present(p) /\ p \in Entries /\ perm[e] = p /\ a - 1 <= USTACK /\ a <= USTACK
    BY <1>1, InDuppage
  <1>3. /\ mem' = Pushed(e) /\ pc' = [pc EXCEPT ![e] = IF again THEN "dup self" ELSE "scan"]
        /\ addr' = [addr EXCEPT ![e] = IF again THEN @ ELSE @ - 1]
        /\ UNCHANGED <<env_status, handler, utf, child, perm, shared>>
    BY <1>2 DEF duppage_child, Moves
  <1>4. \/ Changes(c, a, y) /\ word' = [WordPushed(e) EXCEPT ![c][a] = WordPushed(e)[e][a]]
        \/ word' = WordPushed(e) /\ pt' = pt
    BY <1>2 DEF duppage_child, Changes
  <1>5. /\ env_status[e] = "RUNNABLE" /\ utf[e] = <<>> /\ TypeOK /\ handler[e] # "alloc" /\ Good(e)
        /\ {"dup child", "dup self", "scan"} \subseteq InFork /\ c \in Env /\ c # e
        /\ pt[e][PFTEMP] = Absent /\ PFTEMP \in VA /\ Present(pt[e][UTEXT])
    <2>1. {"dup child", "dup self", "scan"} \subseteq InFork /\ pc[e] # "run" /\ Good(e)
      BY <1>1, NowGood DEF InFork
    <2> QED  BY <1>1, <2>1, InProgram, Addresses, ZenonT(60) DEF IInv
  <1>6. /\ pc'[e] = IF again THEN "dup self" ELSE "scan"
        /\ addr'[e] = IF again THEN a ELSE a - 1
        /\ \A f \in Env : f # e => pc'[f] = pc[f] /\ addr'[f] = addr[f]
    <2> HIDE DEF again
    <2> QED  BY <1>3, <1>5, ZenonT(60) DEF TypeOK
  <1>7. OthersStay(e)
    BY <1>3, <1>6 DEF OthersStay
  <1>8. ReadyOf(e)'
    BY <1>6 DEF ReadyOf
  <1>9. ASSUME pt'[e] = pt[e] PROVE DupOf(e)' /\ TempOf(e)'
    <2>1. pc'[e] \in {"dup self", "scan"} /\ pt'[e][PFTEMP] = Absent /\ addr'[e] <= USTACK
      BY <1>2, <1>5, <1>6, <1>9
    <2>2. pc'[e] = "dup self" => addr'[e] = a /\ again
      BY <1>6
    <2>3. TempOf(e)'
      BY <2>1 DEF TempOf
    <2>4. perm'[e] = p /\ utf'[e] = <<>> /\ Present(pt'[e][UTEXT]) /\ pt'[e][USTACK].w /\ UTEXT <= a
      <3>1. UTEXT <= a
        BY <1>1, <1>5 DEF Good, DupOf
      <3> QED  BY <1>1, <1>2, <1>3, <1>5, <1>9, <3>1
    <2>5. CASE pc'[e] = "scan"
      BY <2>1, <2>3, <2>5 DEF DupOf
    <2>6. CASE pc'[e] = "dup self"
      <3>1. addr'[e] = a /\ Splits(perm'[e]) /\ pt'[e][addr'[e]] = p
        BY <1>9, <2>2, <2>4, <2>6
      <3> HIDE DEF a, p
      <3> QED  BY <1>2, <2>1, <2>3, <2>4, <2>6, <3>1 DEF DupOf
    <2> QED  BY <2>1, <2>3, <2>5, <2>6
  <1>10. CASE word' = WordPushed(e) /\ pt' = pt
    <2>1. DupOf(e)'
      BY <1>9, <1>10
    <2>2. JustPushes(e)
      BY <1>1, <1>3, <1>5, <1>6, <1>7, <1>10 DEF JustPushes
    <2> QED  BY <1>1, <1>8, <2>1, <2>2, JustPushesKeeps
  <1>11. CASE Changes(c, a, y) /\ word' = [WordPushed(e) EXCEPT ![c][a] = WordPushed(e)[e][a]]
    <2>1. pt'[e] = pt[e]
      <3>1. TypeOK /\ Changes(c, a, y) /\ c # e /\ c \in Env /\ a \in VA
        BY <1>2, <1>5, <1>11
      <3> HIDE DEF a, c, y
      <3> QED  BY <3>1, Changed
    <2>2. /\ word'[c][a] = WordPushed(e)[e][a]
          /\ \A f \in Env : f # c => word'[f] = WordPushed(e)[f]
          /\ \A va \in VA : va # a => word'[c][va] = WordPushed(e)[c][va]
      <3>1. WordPushed(e) \in [Env -> [VA -> Words]]
        BY <1>5, Pages
      <3> HIDE DEF a, c
      <3> QED  BY <1>2, <1>5, <1>11, <3>1
    <2>3. PushesMap(e, c, a, y)
      <3>1. env_status'[e] = "RUNNABLE" /\ child'[e] = child[e] /\ (pc[e] \in InFork <=> pc'[e] \in InFork)
            /\ utf'[e] = <<>> /\ handler[e] # "alloc" /\ handler'[e] # "alloc" /\ mem' = Pushed(e) /\ shared' = shared
        BY <1>1, <1>3, <1>5, <1>6
      <3> HIDE DEF a, y, p, again
      <3> QED  BY <1>2, <1>7, <1>11, <2>2, <3>1 DEF PushesMap
    <2>4. Duppages(e, y)
      BY <1>1, <1>6, <2>2, <2>3 DEF Duppages
    <2>5. DupOf(e)' /\ TempOf(e)'
      BY <1>9, <2>1
    <2> HIDE DEF y
    <2> QED  BY <1>1, <1>8, <2>4, <2>5, DuppageMapKeeps
  <1> QED  BY <1>4, <1>10, <1>11

LEMMA ForkChildKeeps ==
    ASSUME IInv, TypeOK', NEW e \in Env, fork_child(e)
    PROVE  IInv'
  <1>1. Runs(e, pc[e]) /\ pc[e] = "child" /\ pt[e][USTACK].w
    BY DEF fork_child, Calls, Runs
  <1>2. /\ env_status[e] = "RUNNABLE" /\ utf[e] = <<>> /\ TypeOK /\ handler[e] # "alloc" /\ Good(e)
        /\ "child" \notin InFork /\ "run" \notin InFork /\ pt[e][PFTEMP] = Absent
        /\ DATA \in VA /\ USTACK \in VA /\ PFTEMP \in VA
    <2>1. "child" \notin InFork /\ "run" \notin InFork /\ pc[e] # "run" /\ Good(e)
      BY <1>1, NowGood DEF InFork, Stack
    <2> QED  BY <1>1, <2>1, InProgram, Addresses DEF IInv
  <1>3. ~pt[e][DATA].share /\ ~pt[e][USTACK].share
    BY DEF IInv, ShareInv
  <1>4. CASE ~pt[e][DATA].w
    <2>1. page_fault_handler(e, DATA, TRUE)
      BY <1>4 DEF fork_child
    <2>2. MayFault(e, DATA)
      BY <1>1, <1>2, <1>3 DEF MayFault
    <2> QED  BY <1>2, <2>1, <2>2, FaultKeeps
  <1>5. CASE pt[e][DATA].w
    <2>1. /\ mem' = [Pushed(e) EXCEPT ![pt[e][DATA].page] = "thisenv"]
          /\ word' = [WordPushed(e) EXCEPT ![e][DATA] = "thisenv"] /\ pc' = [pc EXCEPT ![e] = "run"]
          /\ UNCHANGED <<env_status, pt, handler, utf, child, addr, perm, shared>>
      BY <1>5 DEF fork_child, Moves, locals
    <2>2. pc'[e] = "run" /\ \A f \in Env : f # e => pc'[f] = pc[f]
      BY <1>2, <2>1 DEF TypeOK
    <2>3. OthersStay(e)
      BY <2>1, <2>2 DEF OthersStay
    <2>4. /\ pt[e][DATA].page \in Page
          /\ \A f \in Env, vb \in VA : e # f \/ DATA # vb => pt[f][vb].page # pt[e][DATA].page
      <3>1. Private(e, DATA) /\ pc[e] \notin {"memmove", "untemp", "dup self"}
        BY <1>1, <1>3, <1>5 DEF Private
      <3> QED  BY <1>2, <3>1, Sole
    <2>5. /\ mem'[pt[e][DATA].page] = "thisenv"
          /\ \A q \in Page : q # pt[e][DATA].page => mem'[q] = Pushed(e)[q]
      <3>1. Pushed(e) \in [Page -> Words]
        BY <1>2, Pages
      <3> QED  BY <2>1, <2>4, <3>1
    <2>6. /\ word'[e][DATA] = "thisenv" /\ \A va \in VA : va # DATA => word'[e][va] = WordPushed(e)[e][va]
          /\ \A f \in Env : f # e => word'[f] = WordPushed(e)[f]
      <3>1. WordPushed(e) \in [Env -> [VA -> Words]]
        BY <1>2, Pages
      <3> QED  BY <1>2, <2>1, <3>1
    <2>7. /\ Pushed(e)[pt[e][USTACK].page] = pc[e] /\ WordPushed(e)[e][USTACK] = pc[e]
          /\ \A va \in VA : va # USTACK => WordPushed(e)[e][va] = word[e][va]
          /\ \A f \in Env : f # e => WordPushed(e)[f] = word[f]
      BY <1>1, StackIsOwn
    <2>8. \A f \in Env, va \in VA : Present(pt[f][va]) /\ (f # e \/ va # USTACK) =>
             Pushed(e)[pt[f][va].page] = mem[pt[f][va].page]
      BY <1>1, StackIsOwn
    <2>9. ASSUME NEW f \in Env, NEW va \in VA, Present(pt[f][va]), f # e \/ va # DATA
          PROVE  mem'[pt[f][va].page] = Pushed(e)[pt[f][va].page]
      BY <1>2, <2>4, <2>5, <2>9, PageOf
    <2>10. ASSUME NEW f \in Env, f # e
           PROVE  /\ pt'[f] = pt[f] /\ word'[f] = word[f]
                  /\ \A va \in VA : Present(pt[f][va]) => mem'[pt[f][va].page] = mem[pt[f][va].page]
      BY <2>1, <2>6, <2>7, <2>8, <2>9, <2>10
    <2>11. MemOf(e)'
      <3> SUFFICES ASSUME NEW va \in VA \ {PFTEMP}, Present(pt[e][va])
                   PROVE  \/ pt[e][va].share /\ mem'[pt[e][va].page] = shared[va]
                          \/ ~pt[e][va].share /\ mem'[pt[e][va].page] = word'[e][va]
        BY <2>1 DEF MemOf
      <3>1. CASE va = DATA
        BY <1>3, <2>5, <2>6, <3>1
      <3>2. CASE va # DATA
        <4>1. mem'[pt[e][va].page] = Pushed(e)[pt[e][va].page] /\ word'[e][va] = WordPushed(e)[e][va]
          BY <2>6, <2>9, <3>2
        <4>2. CASE va = USTACK
          BY <1>3, <2>7, <4>1, <4>2
        <4>3. CASE va # USTACK
          <5>1. mem'[pt[e][va].page] = mem[pt[e][va].page] /\ word'[e][va] = word[e][va]
            BY <2>7, <2>8, <4>1, <4>3
          <5> QED  BY <1>2, <5>1 DEF Good, MemOf
        <4> QED  BY <4>2, <4>3
      <3> QED  BY <3>1, <3>2
    <2>12. FrameOf(e)' /\ TempOf(e)' /\ CopyOf(e)'
      BY <1>2, <2>1 DEF FrameOf, TempOf, CopyOf
    <2>13. DupOf(e)' /\ ReadyOf(e)'
      BY <1>2, <2>2 DEF DupOf, ReadyOf
    <2>14. ShareInv'
      <3>1. ShareInv /\ pt' = pt
        BY <2>1 DEF IInv
      <3> QED  BY <3>1 DEF ShareInv
    <2>15. OwnerInv'
      <3>1. ASSUME NEW f \in Env, NEW a \in VA, NEW b \in VA
            PROVE  ~Fixing(e, a, b) /\ ~Lending(e, a, f, b) /\ ~Splitting(e, a, f, b)
        BY <1>1, <1>2 DEF Fixing, Lending, Splitting
      <3> QED  BY <1>2, <2>1, <2>3, <3>1, OwnerSame DEF IInv
    <2>16. Good(e)'
      BY <2>11, <2>12, <2>13 DEF Good
    <2> QED  BY <1>1, <1>2, <2>1, <2>2, <2>3, <2>10, <2>14, <2>15, <2>16, StepMine
  <1> QED  BY <1>4, <1>5

\* The copy of the parent's stack arrives in the page that the child has for its own.
LEMMA ForkMemmoveKeeps ==
    ASSUME IInv, TypeOK', NEW e \in Env, fork_memmove(e)
    PROVE  IInv'
  <1> DEFINE c == child[e]
             q == pt[e][PFTEMP].page
             s == pt[e][USTACK].page
  <1>1. Runs(e, pc[e]) /\ pc[e] = "memmove"
    BY DEF fork_memmove, Runs
  <1>2. /\ env_status[e] = "RUNNABLE" /\ utf[e] = <<>> /\ TypeOK /\ handler[e] # "alloc" /\ Good(e)
        /\ {"memmove", "untemp"} \subseteq InFork /\ c \in Env /\ c # e /\ env_status[c] = "NOT_RUNNABLE"
        /\ USTACK \in VA /\ PFTEMP \in VA /\ USTACK # PFTEMP
    <2>1. {"memmove", "untemp"} \subseteq InFork /\ pc[e] # "run" /\ Good(e)
      BY <1>1, NowGood DEF InFork, Stack
    <2> QED  BY <1>1, <2>1, InProgram, Addresses DEF IInv
  <1>3. pt[e][USTACK].w /\ Present(pt[e][UTEXT]) /\ addr[e] <= USTACK
    BY <1>1, <1>2 DEF Good, DupOf
  <1>4. ~pt[e][USTACK].share /\ ~pt[e][PFTEMP].share /\ ~pt[c][USTACK].share
    BY <1>2 DEF IInv, ShareInv
  <1>5. CASE ~pt[e][PFTEMP].w
    <2>1. page_fault_handler(e, PFTEMP, TRUE)
      BY <1>3, <1>5 DEF fork_memmove
    <2>2. ~Present(pt[e][PFTEMP])
      BY <1>2, <1>5 DEF Good, TempOf, Present
    <2>3. MayFault(e, PFTEMP)
      BY <1>1, <1>2, <1>4, <2>2 DEF MayFault
    <2> QED  BY <1>2, <2>1, <2>3, FaultKeeps
  <1>6. CASE pt[e][PFTEMP].w
    <2>1. /\ mem' = [Pushed(e) EXCEPT ![q] = "memmove"]
          /\ word' = [word EXCEPT ![e][USTACK] = "memmove", ![c][USTACK] = "memmove"]
          /\ pc' = [pc EXCEPT ![e] = "untemp"]
          /\ UNCHANGED <<env_status, pt, handler, utf, child, addr, perm, shared>>
      BY <1>3, <1>6 DEF fork_memmove, Moves, locals
    <2>2. pc'[e] = "untemp" /\ \A f \in Env : f # e => pc'[f] = pc[f]
      BY <1>2, <2>1 DEF TypeOK
    <2>3. OthersStay(e)
      BY <2>1, <2>2 DEF OthersStay
    <2>4. pt[e][PFTEMP] \in Entries /\ Private(e, PFTEMP) /\ pt[e][PFTEMP] # Absent
      <3>1. pt[e][PFTEMP] \in Entries
        BY <1>2 DEF TypeOK
      <3> QED  BY <1>4, <1>6, <3>1, EntryPage DEF Private
    <2>5. q \in Page /\ q = pt[c][USTACK].page
      <3>1. q \in Page
        BY <2>4, EntryPage
      <3> QED  BY <1>2, <2>4, <3>1 DEF Good, TempOf
    <2>6. ASSUME NEW f \in Env, NEW vb \in VA, f # e \/ vb # PFTEMP, f # c \/ vb # USTACK
          PROVE  pt[f][vb].page # q
      <3> SUFFICES ASSUME pt[f][vb].page = q PROVE FALSE
        OBVIOUS
      <3>1. \A h \in Env : pc[h] \in InFork => child[h] # e
        BY <1>2, Runner DEF IInv
      <3>2. OwnerInv
        BY DEF IInv
      <3>3. Excused(e, PFTEMP, f, vb)
        BY <1>2, <2>4, <2>6, <3>2 DEF OwnerInv
      <3>4. ~Lending(f, vb, e, PFTEMP)
        BY <3>1 DEF Lending, InFork, Stack
      <3> QED  BY <1>1, <1>2, <2>6, <3>3, <3>4 DEF Excused, Fixing, Lending, Splitting
    <2>7. Pushed(e)[s] = "memmove" /\ s \in Page /\ \A f \in Env, va \in VA : f # e \/ va # USTACK => pt[f][va].page # s
      BY <1>1, <1>3, StackIsOwn
    <2>8. \A f \in Env, va \in VA : Present(pt[f][va]) /\ (f # e \/ va # USTACK) =>
             Pushed(e)[pt[f][va].page] = mem[pt[f][va].page]
      BY <1>1, <1>3, StackIsOwn
    <2>9. mem'[q] = "memmove" /\ mem'[s] = "memmove" /\ \A p \in Page : p # q => mem'[p] = Pushed(e)[p]
      <3>1. Pushed(e) \in [Page -> Words]
        BY <1>2, Pages
      <3> HIDE DEF q, s
      <3> QED  BY <2>1, <2>5, <2>7, <3>1
    <2>10. /\ word'[e][USTACK] = "memmove" /\ word'[c][USTACK] = "memmove"
           /\ \A f \in Env, va \in VA : va # USTACK => word'[f][va] = word[f][va]
           /\ \A f \in Env : f # e /\ f # c => word'[f] = word[f]
      <3>1. word \in [Env -> [VA -> Words]]
        BY <1>2 DEF TypeOK
      <3> HIDE DEF c
      <3> QED  BY <1>2, <2>1, <3>1
    <2>11. ASSUME NEW f \in Env, NEW va \in VA, Present(pt[f][va]), va # PFTEMP \/ f # e, va # USTACK \/ (f # e /\ f # c)
           PROVE  mem'[pt[f][va].page] = mem[pt[f][va].page]
      <3>1. pt[f][va].page \in Page /\ pt[f][va].page # q
        BY <1>2, <2>6, <2>11, PageOf
      <3> QED  BY <2>8, <2>9, <2>11, <3>1
    <2>12. MemOf(e)'
      <3> SUFFICES ASSUME NEW va \in VA \ {PFTEMP}, Present(pt[e][va])
                   PROVE  \/ pt[e][va].share /\ mem'[pt[e][va].page] = shared[va]
                          \/ ~pt[e][va].share /\ mem'[pt[e][va].page] = word'[e][va]
        BY <2>1 DEF MemOf
      <3>1. CASE va = USTACK
        BY <1>4, <2>9, <2>10, <3>1
      <3>2. CASE va # USTACK
        <4>1. mem'[pt[e][va].page] = mem[pt[e][va].page] /\ word'[e][va] = word[e][va]
          BY <2>10, <2>11, <3>2
        <4> QED  BY <1>2, <4>1 DEF Good, MemOf
      <3> QED  BY <3>1, <3>2
    <2>13. MemOf(c)'
      <3>1. MemOf(c) /\ c \in Env /\ c # e /\ env_status[c] = "NOT_RUNNABLE"
        BY <1>2, NowGood DEF Good
      <3>2. pt' = pt /\ shared' = shared /\ env_status' = env_status /\ child' = child
        BY <2>1
      <3> HIDE DEF c
      <3> SUFFICES ASSUME NEW va \in VA \ {PFTEMP}, Present(pt[c][va]), va # USTACK
                   PROVE  \/ pt[c][va].share /\ mem'[pt[c][va].page] = shared[va]
                          \/ ~pt[c][va].share /\ mem'[pt[c][va].page] = word'[c][va]
        BY <3>1, <3>2 DEF MemOf, c
      <3>3. mem'[pt[c][va].page] = mem[pt[c][va].page] /\ word'[c][va] = word[c][va]
        BY <2>10, <2>11, <3>1
      <3> QED  BY <3>1, <3>3 DEF MemOf
    <2>14. Apart(e, c)
      <3>1. ASSUME NEW f \in Env \ {e, c}, NEW va \in VA, Present(pt[f][va])
            PROVE  IF pt[f][va].share THEN mem'[pt[f][va].page] = shared'[va]
                   ELSE mem'[pt[f][va].page] = mem[pt[f][va].page]
        <4>1. mem'[pt[f][va].page] = mem[pt[f][va].page]
          BY <2>11, <3>1
        <4>2. pt[f][va].share => mem[pt[f][va].page] = shared[va]
          BY <3>1, SharedWords
        <4> QED  BY <2>1, <4>1, <4>2
      <3>2. \A f \in Env \ {e, c} : pt'[f] = pt[f] /\ word'[f] = word[f]
        BY <2>1, <2>10
      <3> HIDE DEF c
      <3> QED  BY <2>3, <3>1, <3>2 DEF Apart, OthersStay
    <2>15. FrameOf(e)' /\ TempOf(e)' /\ CopyOf(e)'
      BY <1>1, <1>2, <2>1, <2>2 DEF FrameOf, TempOf, CopyOf, Good
    <2>16. DupOf(e)'
      BY <1>3, <2>1, <2>2 DEF DupOf
    <2>17. ReadyOf(e)'
      BY <2>1, <2>5, <2>9, <2>10 DEF ReadyOf
    <2>18. ShareInv'
      <3>1. ShareInv /\ pt' = pt
        BY <2>1 DEF IInv
      <3> QED  BY <3>1 DEF ShareInv
    <2>19. OwnerInv'
      <3>1. ASSUME NEW f \in Env, NEW a \in VA, NEW b \in VA
            PROVE  /\ ~Fixing(e, a, b)
                   /\ Splitting(e, a, f, b) => Splitting(e, a, f, b)'
                   /\ Lending(e, a, f, b) /\ Present(pt[e][a]) => Lending(e, a, f, b)'
        BY <1>1, <1>2, <2>1, <2>2 DEF Fixing, Lending, Splitting
      <3> QED  BY <1>2, <2>1, <2>3, <3>1, OwnerSame DEF IInv
    <2>20. Good(e)'
      BY <2>12, <2>15, <2>16, <2>17 DEF Good
    <2>21. env_status'[e] = "RUNNABLE" /\ child'[e] = child[e] /\ (pc[e] \in InFork <=> pc'[e] \in InFork)
           /\ pt'[c][PFTEMP] = pt[c][PFTEMP]
      BY <1>1, <1>2, <2>1, <2>2
    <2> QED  BY <1>2, <2>3, <2>13, <2>14, <2>18, <2>19, <2>20, <2>21, StepKeeps
  <1> QED  BY <1>5, <1>6

\* A program writes: into a shared page, into a page of its own, or where it faults.
LEMMA WriteKeeps ==
    ASSUME IInv, TypeOK', NEW e \in Env, NEW va \in VA, NEW w \in Word, Write(e, va, w)
    PROVE  IInv'
  <1> DEFINE p == pt[e][va].page
  <1>1. /\ env_status[e] = "RUNNABLE" /\ utf[e] = <<>> /\ pc[e] = "run" /\ TypeOK /\ Good(e) /\ "run" \notin InFork
        /\ child[e] = e /\ ShareInv
    <2>1. Runs(e, pc[e]) /\ pc[e] = "run" /\ "run" \notin InFork
      BY DEF Write, Runs, InFork, Stack
    <2> QED  BY <2>1, InProgram, NowGood DEF IInv
  <1>2. CASE ~pt[e][va].w
    <2>1. page_fault_handler(e, va, TRUE)
      BY <1>2 DEF Write
    <2>2. MayFault(e, va)
      BY <1>1, <1>2 DEF MayFault, ShareInv
    <2> QED  BY <1>1, <2>1, <2>2, FaultKeeps
  <1>3. CASE pt[e][va].w
    <2>1. /\ mem' = [mem EXCEPT ![p] = w]
          /\ \/ pt[e][va].share /\ shared' = [shared EXCEPT ![va] = w] /\ word' = word
             \/ ~pt[e][va].share /\ word' = [word EXCEPT ![e][va] = w] /\ shared' = shared
          /\ UNCHANGED <<env_status, pt, handler, pc, utf, child, addr, perm>>
      BY <1>3 DEF Write, locals
    <2>2. OthersStay(e)
      BY <2>1 DEF OthersStay
    <2>3. p \in Page
      <3>1. pt[e][va] \in Entries
        BY <1>1 DEF TypeOK
      <3> QED  BY <1>3, <3>1, EntryPage
    <2>4. mem'[p] = w /\ \A k \in Page : k # p => mem'[k] = mem[k]
      BY <1>1, <2>1, <2>3 DEF TypeOK
    <2>5. FrameOf(e)' /\ TempOf(e)' /\ CopyOf(e)' /\ DupOf(e)' /\ ReadyOf(e)'
      BY <1>1, <2>1 DEF FrameOf, TempOf, CopyOf, DupOf, ReadyOf, Good
    <2>6. ShareInv'
      <3>1. ShareInv /\ pt' = pt
        BY <1>1, <2>1
      <3> QED  BY <3>1 DEF ShareInv
    <2>7. OwnerInv'
      <3>1. ASSUME NEW f \in Env, NEW a \in VA, NEW b \in VA
            PROVE  ~Fixing(e, a, b) /\ ~Lending(e, a, f, b) /\ ~Splitting(e, a, f, b)
        BY <1>1 DEF Fixing, Lending, Splitting
      <3> QED  BY <1>1, <2>1, <2>2, <3>1, OwnerSame DEF IInv
    <2>8. CASE pt[e][va].share
      <3>1. shared'[va] = w /\ (\A b \in VA : b # va => shared'[b] = shared[b]) /\ word' = word
        BY <1>1, <2>1, <2>8 DEF TypeOK
      <3>2. ASSUME NEW f \in Env, NEW b \in VA, Present(pt[f][b])
            PROVE  IF pt[f][b].share THEN mem'[pt[f][b].page] = shared'[b]
                   ELSE mem'[pt[f][b].page] = mem[pt[f][b].page]
        <4>1. pt[f][b].page \in Page
          BY <1>1, <3>2, PageOf
        <4>2. pt[f][b].page = p => b = va /\ pt[f][b].share
          BY <1>1, <2>8 DEF ShareInv
        <4>3. b = va /\ pt[f][b].share => pt[f][b].page = p
          BY <1>1, <2>8 DEF ShareInv
        <4>4. pt[f][b].share => mem[pt[f][b].page] = shared[b]
          BY <3>2, SharedWords
        <4>5. CASE pt[f][b].page = p
          BY <2>4, <3>1, <4>2, <4>5
        <4>6. CASE pt[f][b].page # p
          <5>1. mem'[pt[f][b].page] = mem[pt[f][b].page]
            BY <2>4, <4>1, <4>6
          <5>2. pt[f][b].share => shared'[b] = shared[b]
            BY <3>1, <4>3, <4>6
          <5> QED  BY <4>4, <5>1, <5>2
        <4> QED  BY <4>5, <4>6
      <3>3. Apart(e, child[e])
        BY <1>1, <2>1, <2>2, <3>1, <3>2 DEF Apart, OthersStay
      <3>4. MemOf(e)'
        <4> SUFFICES ASSUME NEW b \in VA \ {PFTEMP}, Present(pt[e][b])
                     PROVE  \/ pt[e][b].share /\ mem'[pt[e][b].page] = shared'[b]
                            \/ ~pt[e][b].share /\ mem'[pt[e][b].page] = word[e][b]
          BY <2>1, <3>1 DEF MemOf
        <4>1. ~pt[e][b].share => mem[pt[e][b].page] = word[e][b]
          BY <1>1 DEF Good, MemOf
        <4> QED  BY <3>2, <4>1
      <3>5. Good(e)'
        BY <2>5, <3>4 DEF Good
      <3> QED  BY <1>1, <2>1, <2>2, <2>6, <2>7, <3>3, <3>5, StepKeeps
    <2>9. CASE ~pt[e][va].share
      <3>1. /\ word'[e][va] = w /\ (\A b \in VA : b # va => word'[e][b] = word[e][b]) /\ shared' = shared
            /\ \A f \in Env : f # e => word'[f] = word[f]
        BY <1>1, <2>1, <2>9 DEF TypeOK
      <3>2. \A f \in Env, b \in VA : e # f \/ va # b => pt[f][b].page # p
        <4>1. Private(e, va)
          BY <1>3, <2>9 DEF Private
        <4> QED  BY <1>1, <4>1, Sole
      <3>3. ASSUME NEW f \in Env, NEW b \in VA, Present(pt[f][b]), e # f \/ va # b
            PROVE  mem'[pt[f][b].page] = mem[pt[f][b].page]
        BY <1>1, <2>4, <3>2, <3>3, PageOf
      <3>4. MemOf(e)'
        <4> SUFFICES ASSUME NEW b \in VA \ {PFTEMP}, Present(pt[e][b])
                     PROVE  \/ pt[e][b].share /\ mem'[pt[e][b].page] = shared[b]
                            \/ ~pt[e][b].share /\ mem'[pt[e][b].page] = word'[e][b]
          BY <2>1, <3>1 DEF MemOf
        <4>1. CASE b = va
          BY <2>4, <2>9, <3>1, <4>1
        <4>2. CASE b # va
          <5>1. mem'[pt[e][b].page] = mem[pt[e][b].page] /\ word'[e][b] = word[e][b]
            BY <3>1, <3>3, <4>2
          <5> QED  BY <1>1, <5>1 DEF Good, MemOf
        <4> QED  BY <4>1, <4>2
      <3>5. Good(e)'
        BY <2>5, <3>4 DEF Good
      <3>6. ASSUME NEW f \in Env \ {e}
            PROVE  /\ pt'[f] = pt[f] /\ word'[f] = word[f]
                   /\ \A b \in VA : Present(pt[f][b]) => mem'[pt[f][b].page] = mem[pt[f][b].page]
        BY <2>1, <3>1, <3>3
      <3> QED  BY <1>1, <2>1, <2>2, <2>6, <2>7, <3>1, <3>5, <3>6, StepMine
    <2> QED  BY <2>8, <2>9
  <1> QED  BY <1>2, <1>3

\* Two environments change, and none of them has a page twice.
LEMMA OwnerStill ==
    ASSUME TypeOK, OwnerInv, NEW e \in Env, NEW c \in Env, pt' = pt,
           \A f \in Env \ {e, c} : pc'[f] = pc[f] /\ utf'[f] = utf[f] /\ child'[f] = child[f] /\ addr'[f] = addr[f],
           utf[e] = <<>>, pc[e] \notin {"memmove", "untemp", "dup self"},
           utf[c] = <<>>, pc[c] \notin {"memmove", "untemp", "dup self"}
    PROVE  OwnerInv'
  <1>1. ASSUME NEW f \in Env, NEW g \in Env, NEW a \in VA, NEW b \in VA
        PROVE  /\ Fixing(f, a, b) => Fixing(f, a, b)'
               /\ Lending(f, a, g, b) => Lending(f, a, g, b)'
               /\ Splitting(f, a, g, b) => Splitting(f, a, g, b)'
    <2>1. CASE f \in {e, c}
      BY <2>1 DEF Fixing, Lending, Splitting
    <2>2. CASE f \notin {e, c}
      BY <2>2 DEF Fixing, Lending, Splitting, Top
    <2> QED  BY <2>1, <2>2
  <1> SUFFICES ASSUME NEW a \in Env, NEW b \in Env, NEW va \in VA, NEW vb \in VA,
                      Private(a, va), pt[b][vb].page = pt[a][va].page, a # b \/ va # vb
               PROVE  Excused(a, va, b, vb)'
    BY DEF OwnerInv, Private
  <1>2. Excused(a, va, b, vb)
    BY DEF OwnerInv
  <1> QED  BY <1>1, <1>2 DEF Excused

\* A free slot becomes the child.
ForksInto(e, f) ==
    /\ env_status[f] = "FREE" /\ env_status' = [env_status EXCEPT ![f] = "NOT_RUNNABLE"]
    /\ pc' = [pc EXCEPT ![f] = "child", ![e] = "scan"] /\ child' = [child EXCEPT ![e] = f]
    /\ addr' = [addr EXCEPT ![e] = USTACK] /\ UNCHANGED <<pt, mem, handler, utf, perm, word, shared>>

LEMMA ForksIntoKeeps ==
    ASSUME IInv, TypeOK', NEW e \in Env, Runs(e, pc[e]), pc[e] = "exofork", NEW f \in Env, ForksInto(e, f)
    PROVE  IInv'
  <1>1. /\ env_status[e] = "RUNNABLE" /\ utf[e] = <<>> /\ TypeOK /\ FamilyInv /\ handler[e] # "alloc" /\ Good(e)
        /\ {"exofork", "child"} \cap InFork = {} /\ "scan" \in InFork /\ child[e] = e /\ pt[e][PFTEMP] = Absent
    <2>1. {"exofork", "child"} \cap InFork = {} /\ "scan" \in InFork /\ pc[e] # "run" /\ Good(e)
      BY NowGood DEF InFork, Stack
    <2> QED  BY <2>1, InProgram DEF IInv
  <1>2. /\ env_status[f] = "FREE" /\ f # e /\ pt[f] = NoPages /\ utf[f] = <<>> /\ child[f] = f /\ pc[f] = "run"
        /\ handler[f] = None
    BY <1>1 DEF ForksInto, FamilyInv
  <1>3. UNCHANGED <<pt, mem, handler, utf, perm, word, shared>>
    BY DEF ForksInto
  <1>4. /\ env_status'[f] = "NOT_RUNNABLE" /\ \A g \in Env : g # f => env_status'[g] = env_status[g]
        /\ pc'[f] = "child" /\ pc'[e] = "scan" /\ \A g \in Env : g # e /\ g # f => pc'[g] = pc[g]
        /\ child'[e] = f /\ \A g \in Env : g # e => child'[g] = child[g]
        /\ addr'[e] = USTACK /\ \A g \in Env : g # e => addr'[g] = addr[g]
    BY <1>1, <1>2 DEF ForksInto, TypeOK
  <1>5. FamilyInv'
    <2>1. ASSUME NEW g \in Env
          PROVE  /\ env_status'[g] = "FREE" =>
                       pt'[g] = NoPages /\ utf'[g] = <<>> /\ child'[g] = g /\ pc'[g] = "run" /\ handler'[g] = None
                 /\ env_status'[g] = "NOT_RUNNABLE" =>
                       utf'[g] = <<>> /\ child'[g] = g /\ pc'[g] = "child" /\ handler'[g] = None
                 /\ child'[g] # g <=> pc'[g] \in InFork
      <3>1. CASE g = e
        BY <1>1, <1>2, <1>4, <3>1
      <3>2. CASE g = f
        BY <1>1, <1>2, <1>3, <1>4, <3>2
      <3>3. CASE g # e /\ g # f
        BY <1>1, <1>3, <1>4, <3>3 DEF FamilyInv
      <3> QED  BY <3>1, <3>2, <3>3
    <2>2. ASSUME NEW g \in Env, g # e, child[g] # g PROVE child[g] \in Env /\ child[g] # f /\ env_status'[child[g]] = "NOT_RUNNABLE"
      <3>1. child[g] \in Env /\ env_status[child[g]] = "NOT_RUNNABLE"
        BY <1>1, <2>2 DEF FamilyInv, TypeOK
      <3> QED  BY <1>2, <1>4, <3>1
    <2>3. ASSUME NEW g \in Env, child'[g] # g PROVE env_status'[child'[g]] = "NOT_RUNNABLE"
      BY <1>4, <2>2, <2>3
    <2>4. ASSUME NEW g \in Env, NEW h \in Env, child'[g] # g, child'[h] # h, child'[g] = child'[h] PROVE g = h
      BY <1>1, <1>4, <2>2, <2>4 DEF FamilyInv
    <2> QED  BY <2>1, <2>3, <2>4 DEF FamilyInv
  <1>6. Apart(e, f)
    <2>1. ASSUME NEW g \in Env \ {e, f}, NEW va \in VA, Present(pt[g][va]), pt[g][va].share
          PROVE  mem[pt[g][va].page] = shared[va]
      BY <2>1, SharedWords
    <2> QED  BY <1>3, <1>4, <2>1 DEF Apart
  <1>7. ASSUME NEW g \in Env, g \notin {e, f} PROVE Good(g)'
    <2>1. child[g] \notin {e, f}
      <3>1. CASE child[g] = g
        BY <1>7, <3>1
      <3>2. CASE child[g] # g
        BY <1>1, <1>2, <3>2 DEF FamilyInv
      <3> QED  BY <3>1, <3>2
    <2> QED  BY <1>6, <1>7, <2>1, ApartKeep
  <1>8. Good(e)'
    <2>1. FrameOf(e)' /\ TempOf(e)' /\ CopyOf(e)' /\ ReadyOf(e)'
      BY <1>1, <1>3, <1>4 DEF FrameOf, TempOf, CopyOf, ReadyOf
    <2>2. DupOf(e)'
      <3>1. USTACK <= USTACK
        <4>1. USTACK \in Nat
          BY Addresses
        <4> QED  BY <4>1
      <3> QED  BY <1>4, <3>1 DEF DupOf
    <2>3. MemOf(e)'
      BY <1>1, <1>2, <1>3, <1>4 DEF MemOf, Good
    <2> QED  BY <2>1, <2>2, <2>3 DEF Good
  <1>9. Good(f)'
    <2>1. \A va \in VA : ~Present(pt[f][va]) /\ pt[f][va] = Absent
      BY <1>2 DEF NoPages, Present
    <2>2. FrameOf(f)' /\ TempOf(f)' /\ CopyOf(f)' /\ ReadyOf(f)'
      <3>1. pt[f][PFTEMP] = Absent
        BY <2>1, Addresses
      <3> QED  BY <1>2, <1>3, <1>4, <3>1 DEF FrameOf, TempOf, CopyOf, ReadyOf, None
    <2>3. DupOf(f)' /\ MemOf(f)'
      BY <1>1, <1>3, <1>4, <2>1 DEF DupOf, MemOf
    <2> QED  BY <2>2, <2>3 DEF Good
  <1>10. ShareInv'
    <2>1. ShareInv /\ pt' = pt
      BY <1>3 DEF IInv
    <2> QED  BY <2>1 DEF ShareInv
  <1>11. OwnerInv'
    <2>1. OwnerInv
      BY DEF IInv
    <2> QED  BY <1>1, <1>2, <1>3, <1>4, <2>1, OwnerStill
  <1>12. \A g \in Env : Good(g)'
    BY <1>7, <1>8, <1>9
  <1> QED  BY <1>5, <1>10, <1>11, <1>12, AllGood

LEMMA ExoforkKeeps ==
    ASSUME IInv, TypeOK', NEW e \in Env, sys_exofork(e)
    PROVE  IInv'
  <1>1. Runs(e, pc[e]) /\ pc[e] = "exofork" /\ env_status[e] = "RUNNABLE"
    BY DEF sys_exofork, Runs
  <1>2. CASE Panics(e)
    BY <1>1, <1>2, PanicsKeeps
  <1>3. CASE \E f \in Env : ForksInto(e, f)
    BY <1>1, <1>3, ForksIntoKeeps
  <1> QED  BY <1>2, <1>3 DEF sys_exofork, ForksInto

LEMMA ForkStatusKeeps ==
    ASSUME IInv, TypeOK', NEW e \in Env, fork_status(e)
    PROVE  IInv'
  <1> DEFINE c == child[e]
  <1>1. Runs(e, pc[e]) /\ pc[e] = "set status" /\ pt[e][USTACK].w
    BY DEF fork_status, Calls, Runs
  <1>2. /\ mem' = Pushed(e) /\ word' = WordPushed(e) /\ env_status' = [env_status EXCEPT ![c] = "RUNNABLE"]
        /\ handler' = [handler EXCEPT ![c] = handler[e]] /\ pc' = [pc EXCEPT ![e] = "run"]
        /\ child' = [child EXCEPT ![e] = e] /\ addr' = [addr EXCEPT ![e] = 0] /\ perm' = [perm EXCEPT ![e] = Absent]
        /\ UNCHANGED <<pt, utf, shared>>
    BY DEF fork_status, Moves
  <1>3. /\ env_status[e] = "RUNNABLE" /\ utf[e] = <<>> /\ TypeOK /\ FamilyInv /\ handler[e] # "alloc" /\ Good(e)
        /\ {"run", "child"} \cap InFork = {} /\ pt[e][PFTEMP] = Absent /\ c \in Env /\ c # e
        /\ env_status[c] = "NOT_RUNNABLE" /\ utf[c] = <<>> /\ child[c] = c /\ pc[c] = "child"
        /\ pt[c][PFTEMP] = Absent /\ Good(c) /\ USTACK \in VA /\ pc[e] \in InFork
    <2>1. {"run", "child"} \cap InFork = {} /\ pc[e] # "run" /\ Good(e) /\ pc[e] \in InFork
      BY <1>1, NowGood DEF InFork, Stack
    <2>2. c \in Env
      BY <1>1, InProgram
    <2> QED  BY <1>1, <2>1, <2>2, InProgram, NowGood, Addresses DEF IInv
  <1>4. ~pt[e][USTACK].share /\ ~pt[c][USTACK].share
    BY <1>3 DEF IInv, ShareInv
  <1>5. Present(pt[c][USTACK]) => mem[pt[c][USTACK].page] = word[c][USTACK]
    BY <1>1, <1>3 DEF Good, ReadyOf
  <1>6. /\ Pushed(e)[pt[e][USTACK].page] = pc[e] /\ WordPushed(e)[e][USTACK] = pc[e]
        /\ \A va \in VA : va # USTACK => WordPushed(e)[e][va] = word[e][va]
        /\ \A f \in Env : f # e => WordPushed(e)[f] = word[f]
    BY <1>1, StackIsOwn
  <1>7. \A f \in Env, va \in VA : Present(pt[f][va]) /\ (f # e \/ va # USTACK) =>
             Pushed(e)[pt[f][va].page] = mem[pt[f][va].page]
    BY <1>1, StackIsOwn
  <1> HIDE DEF c
  <1>8. /\ env_status'[c] = "RUNNABLE" /\ \A g \in Env : g # c => env_status'[g] = env_status[g]
        /\ handler'[c] # "alloc" /\ \A g \in Env : g # c => handler'[g] = handler[g]
        /\ pc'[e] = "run" /\ \A g \in Env : g # e => pc'[g] = pc[g]
        /\ child'[e] = e /\ \A g \in Env : g # e => child'[g] = child[g]
        /\ \A g \in Env : g # e => addr'[g] = addr[g] /\ perm'[g] = perm[g]
    BY <1>2, <1>3 DEF TypeOK
  <1>9. FamilyInv'
    <2>1. ASSUME NEW g \in Env
          PROVE  /\ env_status'[g] = "FREE" =>
                       pt'[g] = NoPages /\ utf'[g] = <<>> /\ child'[g] = g /\ pc'[g] = "run" /\ handler'[g] = None
                 /\ env_status'[g] = "NOT_RUNNABLE" =>
                       utf'[g] = <<>> /\ child'[g] = g /\ pc'[g] = "child" /\ handler'[g] = None
                 /\ child'[g] # g <=> pc'[g] \in InFork
      <3>1. CASE g = e
        BY <1>3, <1>8, <3>1
      <3>2. CASE g = c
        BY <1>3, <1>8, <3>2
      <3>3. CASE g # e /\ g # c
        BY <1>2, <1>3, <1>8, <3>3 DEF FamilyInv
      <3> QED  BY <3>1, <3>2, <3>3
    <2>2. ASSUME NEW g \in Env, g # e, child[g] # g PROVE child[g] \in Env /\ child[g] # c /\ env_status'[child[g]] = "NOT_RUNNABLE"
      <3>1. child[g] \in Env /\ env_status[child[g]] = "NOT_RUNNABLE"
        BY <1>3, <2>2 DEF FamilyInv, TypeOK
      <3>2. child[g] # c
        BY <1>3, <2>2 DEF FamilyInv, c
      <3> QED  BY <1>8, <3>1, <3>2
    <2>3. ASSUME NEW g \in Env, child'[g] # g PROVE env_status'[child'[g]] = "NOT_RUNNABLE"
      BY <1>8, <2>2, <2>3
    <2>4. ASSUME NEW g \in Env, NEW h \in Env, child'[g] # g, child'[h] # h, child'[g] = child'[h] PROVE g = h
      BY <1>3, <1>8, <2>4 DEF FamilyInv
    <2> QED  BY <2>1, <2>3, <2>4 DEF FamilyInv
  <1>10. Apart(e, c)
    <2>1. ASSUME NEW g \in Env \ {e, c}, NEW va \in VA, Present(pt[g][va])
          PROVE  IF pt[g][va].share THEN mem'[pt[g][va].page] = shared'[va]
                 ELSE mem'[pt[g][va].page] = mem[pt[g][va].page]
      <3>1. mem'[pt[g][va].page] = mem[pt[g][va].page]
        BY <1>2, <1>7, <2>1
      <3>2. pt[g][va].share => mem[pt[g][va].page] = shared[va]
        BY <2>1, SharedWords
      <3> QED  BY <1>2, <3>1, <3>2
    <2>2. \A g \in Env \ {e, c} : pt'[g] = pt[g] /\ word'[g] = word[g] /\ utf'[g] = utf[g]
      BY <1>2, <1>6
    <2> QED  BY <1>8, <2>1, <2>2 DEF Apart
  <1>11. ASSUME NEW g \in Env, g \notin {e, c} PROVE Good(g)'
    <2>1. child[g] \notin {e, c}
      <3>1. CASE child[g] = g
        BY <1>11, <3>1
      <3>2. CASE child[g] # g
        <4>1. child[g] # e
          BY <1>3, <3>2 DEF FamilyInv
        <4>2. child[g] # c
          BY <1>3, <1>11, <3>2 DEF FamilyInv, c
        <4> QED  BY <4>1, <4>2
      <3> QED  BY <3>1, <3>2
    <2> QED  BY <1>3, <1>10, <1>11, <2>1, ApartKeep
  <1>12. Good(e)'
    <2>1. pt' = pt /\ utf'[e] = <<>> /\ shared' = shared /\ handler'[e] # "alloc" /\ env_status'[e] = "RUNNABLE"
      BY <1>2, <1>3, <1>8
    <2>2. FrameOf(e)' /\ TempOf(e)' /\ CopyOf(e)'
      BY <1>3, <2>1 DEF FrameOf, TempOf, CopyOf
    <2>3. DupOf(e)' /\ ReadyOf(e)'
      BY <1>3, <1>8 DEF DupOf, ReadyOf
    <2>4. MemOf(e)'
      <3> SUFFICES ASSUME NEW va \in VA \ {PFTEMP}, Present(pt[e][va])
                   PROVE  \/ pt[e][va].share /\ mem'[pt[e][va].page] = shared[va]
                          \/ ~pt[e][va].share /\ mem'[pt[e][va].page] = word'[e][va]
        BY <2>1 DEF MemOf
      <3>1. CASE va = USTACK
        BY <1>2, <1>4, <1>6, <3>1
      <3>2. CASE va # USTACK
        <4>1. mem'[pt[e][va].page] = mem[pt[e][va].page] /\ word'[e][va] = word[e][va]
          BY <1>2, <1>6, <1>7, <3>2
        <4> QED  BY <1>3, <4>1 DEF Good, MemOf
      <3> QED  BY <3>1, <3>2
    <2> QED  BY <2>2, <2>3, <2>4 DEF Good
  <1>13. ASSUME NEW f \in Env, f = c PROVE Good(f)'
    <2>1. /\ pt' = pt /\ utf'[f] = <<>> /\ shared' = shared /\ handler'[f] # "alloc" /\ env_status'[f] = "RUNNABLE"
          /\ word'[f] = word[f] /\ pc'[f] = "child" /\ f # e /\ pt[f][PFTEMP] = Absent /\ MemOf(f)
          /\ env_status[f] # "FREE"
      BY <1>2, <1>3, <1>6, <1>8, <1>13 DEF Good
    <2>2. FrameOf(f)' /\ TempOf(f)' /\ CopyOf(f)'
      BY <2>1 DEF FrameOf, TempOf, CopyOf
    <2>3. DupOf(f)' /\ ReadyOf(f)'
      BY <1>3, <2>1 DEF DupOf, ReadyOf
    <2>4. MemOf(f)'
      <3> SUFFICES ASSUME NEW va \in VA \ {PFTEMP}, Present(pt[f][va])
                   PROVE  \/ pt[f][va].share /\ mem'[pt[f][va].page] = shared[va]
                          \/ ~pt[f][va].share /\ mem'[pt[f][va].page] = word'[f][va]
        BY <2>1 DEF MemOf
      <3>1. mem'[pt[f][va].page] = mem[pt[f][va].page]
        BY <1>2, <1>7, <2>1
      <3>2. CASE va = USTACK
        BY <1>4, <1>5, <1>13, <2>1, <3>1, <3>2
      <3>3. CASE va # USTACK
        BY <2>1, <3>1, <3>3 DEF MemOf
      <3> QED  BY <3>2, <3>3
    <2> QED  BY <2>2, <2>3, <2>4 DEF Good
  <1>14. ShareInv'
    <2>1. ShareInv /\ pt' = pt
      BY <1>2 DEF IInv
    <2> QED  BY <2>1 DEF ShareInv
  <1>15. OwnerInv'
    <2>1. OwnerInv
      BY DEF IInv
    <2>2. \A f \in Env \ {e, c} : pc'[f] = pc[f] /\ utf'[f] = utf[f] /\ child'[f] = child[f] /\ addr'[f] = addr[f]
      BY <1>2, <1>8
    <2> QED  BY <1>1, <1>2, <1>3, <2>1, <2>2, OwnerStill
  <1>16. \A g \in Env : Good(g)'
    BY <1>3, <1>11, <1>12, <1>13
  <1> QED  BY <1>9, <1>14, <1>15, <1>16, AllGood

-------------------------------------------------------------------------------
(*****************************************************************************)
(* The theorems.                                                             *)
(*****************************************************************************)
\* Every page that is mapped at the start has a number of its own.
LEMMA CountBelow ==
    ASSUME NEW D \in SUBSET Nat, IsFiniteSet(D), NEW a \in D, NEW b \in D, a < b
    PROVE  Cardinality({x \in D : x < a}) # Cardinality({x \in D : x < b})
  <1> DEFINE A == {x \in D : x < a}
             B == {x \in D : x < b}
  <1>1. A \subseteq B /\ B \subseteq D /\ a \in B /\ a \notin A
    <2>1. a \in Nat /\ b \in Nat /\ ~(a < a)
      OBVIOUS
    <2>2. ASSUME NEW x \in D, x < a PROVE x < b
      <3>1. x \in Nat
        OBVIOUS
      <3> QED  BY <2>1, <2>2, <3>1
    <2> QED  BY <2>1, <2>2
  <1>2. IsFiniteSet(B)
    BY <1>1, FS_Subset
  <1> HIDE DEF A, B
  <1>3. Cardinality(A) = Cardinality(B) => A = B
    BY <1>1, <1>2, FS_Subset
  <1>4. Cardinality(A) # Cardinality(B)
    BY <1>1, <1>3
  <1> QED  BY <1>4 DEF A, B

LEMMA InitPages ==
    ASSUME Init
    PROVE  /\ \A e \in Env, va \in VA : Present(pt[e][va]) => e = First
           /\ \A va, vb \in VA : Present(pt[First][va]) /\ pt[First][va].page = pt[First][vb].page => va = vb
           /\ \A va \in VA : pt[First][va].share => pt[First][va].w
           /\ \A va \in {0, USTACK, DATA, PFTEMP} : ~pt[First][va].share
           /\ pt[First][PFTEMP] = Absent
  <1>1. PICK l \in Layouts : pt = [e \in Env |-> [va \in VA |->
                 IF e = First /\ va \in DOMAIN l \cup {USTACK} THEN InitEntry(l, va) ELSE Absent]]
    BY DEF Init
  <1> DEFINE D == DOMAIN l \cup {USTACK}
             n(va) == Cardinality({b \in D : b < va})
  <1>2. /\ IsFiniteSet(DOMAIN l) /\ DOMAIN l \subseteq VA /\ \A va \in DOMAIN l : UTEXT <= va /\ va < USTACK
        /\ l[DATA] # "share" /\ \A va \in DOMAIN l : l[va] \in {"ro", "rw", "share"}
    BY ForkAssumption, Zenon
  <1>3. VA \subseteq Nat /\ PFTEMP < UTEXT /\ UTEXT < USTACK
    BY ForkAssumption
  <1>4. 0 \in VA /\ PFTEMP \in VA /\ UTEXT \in VA /\ USTACK \in VA /\ DATA \in VA /\ First \in Env
    BY ForkAssumption
  <1>5. D \subseteq Nat /\ IsFiniteSet(D) /\ D \subseteq VA
    <2>1. IsFiniteSet(D)
      BY <1>2, FS_AddElement
    <2>2. D \subseteq VA
      BY <1>2, <1>4
    <2> QED  BY <1>3, <2>1, <2>2
  <1>6. PFTEMP \notin D /\ 0 \notin D
    <2>1. PFTEMP \in Nat /\ UTEXT \in Nat /\ USTACK \in Nat
      BY <1>3, <1>4
    <2>2. \A k \in Nat : k < UTEXT => k \notin D
      BY <1>2, <1>3, <2>1
    <2> HIDE DEF D
    <2> QED  BY <1>3, <2>1, <2>2
  <1>7. ASSUME NEW e \in Env, NEW va \in VA PROVE pt[e][va] = IF e = First /\ va \in D THEN InitEntry(l, va) ELSE Absent
    BY <1>1
  <1>8. ASSUME NEW va \in D
        PROVE  /\ InitEntry(l, va).page = 1 + n(va)
               /\ InitEntry(l, va).w = (va = USTACK \/ l[va] # "ro")
               /\ InitEntry(l, va).share = (va # USTACK /\ l[va] = "share")
    BY DEF InitEntry
  <1>9. \A va \in D : n(va) \in Nat
    <2> TAKE va \in D
    <2>1. IsFiniteSet({b \in D : b < va})
      BY <1>5, FS_Subset
    <2> QED  BY <2>1, FS_CardinalityType
  <1>10. ASSUME NEW va \in D, NEW vb \in D, va # vb PROVE n(va) # n(vb)
    <2>1. va \in Nat /\ vb \in Nat
      BY <1>5
    <2> HIDE DEF D
    <2>2. CASE va < vb
      BY <1>5, <2>2, CountBelow
    <2>3. CASE vb < va
      <3>1. n(vb) # n(va)
        BY <1>5, <2>3, CountBelow
      <3> QED  BY <3>1
    <2> QED  BY <1>10, <2>1, <2>2, <2>3
  <1> HIDE DEF D, n
  <1>11. \A e \in Env, va \in VA : Present(pt[e][va]) => e = First /\ va \in D
    BY <1>7 DEF Present
  <1>12. ASSUME NEW va \in VA, NEW vb \in VA, Present(pt[First][va]), pt[First][va].page = pt[First][vb].page
         PROVE  va = vb
    <2>1. va \in D /\ pt[First][va].page = 1 + n(va) /\ n(va) \in Nat
      BY <1>4, <1>7, <1>8, <1>9, <1>11, <1>12
    <2>2. vb \in D
      <3>1. vb \notin D => pt[First][vb].page = 0
        BY <1>4, <1>7 DEF Absent
      <3> QED  BY <1>12, <2>1, <3>1
    <2>3. pt[First][vb].page = 1 + n(vb) /\ n(vb) \in Nat
      BY <1>4, <1>7, <1>8, <1>9, <2>2
    <2>4. n(va) = n(vb)
      <3>1. 1 + n(va) = 1 + n(vb)
        BY <1>12, <2>1, <2>3
      <3>2. \A j, k \in Nat : 1 + j = 1 + k => j = k
        OBVIOUS
      <3> QED  BY <2>1, <2>3, <3>1, <3>2
    <2> QED  BY <1>10, <2>1, <2>2, <2>4
  <1>13. ASSUME NEW va \in VA, pt[First][va].share
         PROVE  va \in D /\ va # USTACK /\ l[va] = "share" /\ pt[First][va].w
    <2>1. va \in D
      BY <1>4, <1>7, <1>13 DEF Absent
    <2>2. pt[First][va] = InitEntry(l, va)
      BY <1>4, <1>7, <2>1
    <2> QED  BY <1>8, <1>13, <2>1, <2>2
  <1>14. pt[First][PFTEMP] = Absent
    BY <1>4, <1>6, <1>7
  <1>15. \A va \in {0, USTACK, DATA, PFTEMP} : ~pt[First][va].share
    BY <1>2, <1>4, <1>6, <1>13
  <1> QED  BY <1>11, <1>12, <1>13, <1>14, <1>15

LEMMA InitKeeps ==
    ASSUME Init
    PROVE  IInv
  <1>1. /\ \A e \in Env, va \in VA : Present(pt[e][va]) => e = First
        /\ \A va, vb \in VA : Present(pt[First][va]) /\ pt[First][va].page = pt[First][vb].page => va = vb
        /\ \A va \in VA : pt[First][va].share => pt[First][va].w
        /\ \A va \in {0, USTACK, DATA, PFTEMP} : ~pt[First][va].share
        /\ pt[First][PFTEMP] = Absent
    BY InitPages
  <1>2. TypeOK /\ First \in Env
    BY TypeInit, ForkAssumption
  <1>3. \A e \in Env : env_status[e] = (IF e = First THEN "RUNNABLE" ELSE "FREE") /\ utf[e] = <<>> /\ child[e] = e
                       /\ pc[e] = "run" /\ handler[e] = None
    BY DEF Init
  <1>4. (\A e \in Env, va \in VA : word[e][va] = Zero) /\ (\A p \in Page : mem[p] = Zero) /\ \A va \in VA : shared[va] = Zero
    BY DEF Init
  <1>5. \A e \in Env : e # First => pt[e] = NoPages
    BY DEF Init, NoPages
  <1>6. "run" \notin InFork
    BY DEF InFork, Stack
  <1>7. FamilyInv
    BY <1>3, <1>5, <1>6 DEF FamilyInv
  <1>8. ASSUME NEW e \in Env, NEW va \in VA
        PROVE  /\ pt[e][va].share \/ pt[e][va].w => Present(pt[e][va])
               /\ Present(pt[e][va]) => pt[e][va].page \in Page /\ e = First
    BY <1>1, <1>2, PageOf DEF Present, Absent
  <1>9. ASSUME NEW e \in Env, NEW f \in Env, NEW va \in VA, NEW vb \in VA,
               Present(pt[e][va]), pt[f][vb].page = pt[e][va].page
        PROVE  e = f /\ va = vb
    <2>1. Present(pt[f][vb])
      <3>1. pt[e][va].page \in Page /\ 0 \notin Page
        BY <1>8, <1>9, ForkAssumption
      <3> QED  BY <1>9, <3>1 DEF Present, Absent
    <2>2. e = First /\ f = First
      BY <1>8, <1>9, <2>1
    <2> QED  BY <1>1, <1>9, <2>2
  <1>10. FrameInv /\ TempInv /\ DupInv
    <2> SUFFICES ASSUME NEW e \in Env PROVE FrameOf(e) /\ TempOf(e) /\ DupOf(e)
      BY DEF FrameInv, TempInv, DupInv
    <2>1. pt[e][PFTEMP] = Absent
      BY <1>1, <1>5, Addresses DEF NoPages
    <2>2. utf[e] = <<>> /\ pc[e] = "run" /\ handler[e] = None
      BY <1>3
    <2>3. FrameOf(e) /\ TempOf(e)
      BY <2>1, <2>2 DEF FrameOf, TempOf, None
    <2>4. DupOf(e)
      BY <1>6, <2>2 DEF DupOf
    <2> QED  BY <2>3, <2>4
  <1>11. CopyInv /\ ReadyInv
    BY <1>3 DEF CopyInv, CopyOf, ReadyInv, ReadyOf
  <1>12. MemoryIsPrivate
    <2> SUFFICES ASSUME NEW e \in Env, NEW va \in VA \ {PFTEMP}, Present(pt[e][va])
                 PROVE  \/ pt[e][va].share /\ mem[pt[e][va].page] = shared[va]
                        \/ ~pt[e][va].share /\ mem[pt[e][va].page] = word[e][va]
      BY DEF MemoryIsPrivate
    <2> QED  BY <1>4, <1>8
  <1>13. ShareInv
    <2>1. \A e \in Env, va \in VA : pt[e][va].share => e = First /\ Present(pt[e][va])
      BY <1>8
    <2>2. {0, USTACK, DATA, PFTEMP} \subseteq VA
      BY ForkAssumption
    <2>3. \A e \in Env, va \in VA : pt[e][va].share => pt[e][va].w
      BY <1>1, <2>1
    <2>4. \A e \in Env, va \in {0, USTACK, DATA, PFTEMP} : ~pt[e][va].share
      BY <1>1, <2>1, <2>2
    <2> QED  BY <1>9, <2>1, <2>3, <2>4 DEF ShareInv
  <1>14. OwnerInv
    BY <1>8, <1>9 DEF OwnerInv, Private
  <1> QED  BY <1>2, <1>7, <1>10, <1>11, <1>12, <1>13, <1>14 DEF IInv

LEMMA StutterKeeps ==
    ASSUME IInv, UNCHANGED vars
    PROVE  IInv'
  <1>1. UNCHANGED <<env_status, pt, mem, upcall, handler, pc, utf, child, addr, perm, word, shared, refused, forks>>
    BY DEF vars
  <1>2. TypeOK' /\ FamilyInv'
    BY <1>1 DEF IInv, TypeOK, FamilyInv
  <1>3. FrameInv' /\ TempInv' /\ DupInv'
    BY <1>1 DEF IInv, FrameInv, FrameOf, TempInv, TempOf, DupInv, DupOf
  <1>4. ShareInv'
    BY <1>1 DEF IInv, ShareInv
  <1>5. OwnerInv'
    <2>1. OwnerInv /\ pt' = pt
      BY <1>1 DEF IInv
    <2>2. ASSUME NEW e \in Env, NEW f \in Env, NEW va \in VA, NEW vb \in VA, Excused(e, va, f, vb)
          PROVE  Excused(e, va, f, vb)'
      BY <1>1, <2>2 DEF Excused, Fixing, Lending, Splitting, Top
    <2> SUFFICES ASSUME NEW a \in Env, NEW b \in Env, NEW va \in VA, NEW vb \in VA,
                        Private(a, va), pt[b][vb].page = pt[a][va].page, a # b \/ va # vb
                 PROVE  Excused(a, va, b, vb)'
      BY <2>1 DEF OwnerInv, Private
    <2> QED  BY <2>1, <2>2 DEF OwnerInv
  <1>6. CopyInv' /\ ReadyInv' /\ MemoryIsPrivate'
    BY <1>1 DEF IInv, CopyInv, CopyOf, ReadyInv, ReadyOf, MemoryIsPrivate, Top
  <1> QED  BY <1>2, <1>3, <1>4, <1>5, <1>6 DEF IInv

LEMMA ForkingKeeps ==
    ASSUME IInv, TypeOK', NEW e \in Env, Forking(e)
    PROVE  IInv'
  <1>1. CASE PushFaults(e)
    BY <1>1, PushFaultsKeeps
  <1>2. CASE FetchAbsent(e)
    BY <1>2, FetchAbsentKeeps
  <1>3. CASE sys_exofork(e)
    BY <1>3, ExoforkKeeps
  <1>4. CASE fork_scan(e)
    BY <1>4, ForkScanKeeps
  <1>5. CASE duppage_child(e)
    BY <1>5, DuppageChildKeeps
  <1>6. CASE duppage_self(e)
    BY <1>6, DuppageSelfKeeps
  <1>7. CASE fork_uxstack(e)
    BY <1>7, AllocForChildKeeps DEF fork_uxstack
  <1>8. CASE fork_stack(e)
    BY <1>8, AllocForChildKeeps DEF fork_stack
  <1>9. CASE fork_temp(e)
    BY <1>9, ForkTempKeeps
  <1>10. CASE fork_memmove(e)
    BY <1>10, ForkMemmoveKeeps
  <1>11. CASE fork_untemp(e)
    BY <1>11, ForkUntempKeeps
  <1>12. CASE fork_upcall(e)
    BY <1>12, ForkUpcallKeeps
  <1>13. CASE fork_status(e)
    BY <1>13, ForkStatusKeeps
  <1>14. CASE fork_child(e)
    BY <1>14, ForkChildKeeps
  <1> QED  BY <1>1, <1>2, <1>3, <1>4, <1>5, <1>6, <1>7, <1>8, <1>9, <1>10, <1>11, <1>12, <1>13, <1>14 DEF Forking

LEMMA ProgramKeeps ==
    ASSUME IInv, TypeOK', NEW e \in Env, Program(e)
    PROVE  IInv'
  <1>1. CASE fork(e)
    BY <1>1, ForkKeeps
  <1>2. CASE Exit(e)
    BY <1>2, ExitKeeps
  <1>3. CASE set_alloc_handler(e)
    BY <1>3, SetAllocHandlerKeeps
  <1>4. ASSUME NEW va \in Touched \cup Holes, ReadAbsent(e, va) \/ \E w \in Word : Write(e, va, w)
        PROVE  IInv'
    <2>1. va \in VA
      BY ForkAssumption
    <2> QED  BY <1>4, <2>1, ReadAbsentKeeps, WriteKeeps
  <1>5. CASE \E va \in Touched \cup (IF handler[e] = "alloc" THEN Holes ELSE {}) :
                    ReadAbsent(e, va) \/ \E w \in Word : Write(e, va, w)
    BY <1>4, <1>5
  <1> QED  BY <1>1, <1>2, <1>3, <1>5 DEF Program

\* The strengthened invariant holds in every state of fork(), page faults and programs.
THEOREM ForkInvariant == Spec => []IInv
  <1>1. Init => IInv
    BY InitKeeps
  <1>2. IInv /\ [Next]_vars => IInv'
    <2> SUFFICES ASSUME IInv, [Next]_vars PROVE IInv'
      OBVIOUS
    <2>1. TypeOK'
      BY TypeStep DEF IInv
    <2>2. CASE UNCHANGED vars
      BY <2>2, StutterKeeps
    <2>3. CASE Next
      <3>1. PICK e \in Env : Faulting(e) \/ Forking(e) \/ Program(e)
        BY <2>3 DEF Next
      <3> QED  BY <2>1, <3>1, FaultingKeeps, ForkingKeeps, ProgramKeeps
    <2> QED  BY <2>2, <2>3
  <1> QED  BY <1>1, <1>2, PTL DEF Spec

\* (lib/fork.c duppage(), pgfault(), fork(); kern/trap.c page_fault_handler())
\* A program finds in its memory what it wrote or inherited, and nobody else's writes.
THEOREM MemoryPrivate == Spec => []MemoryIsPrivate
  <1>1. IInv => MemoryIsPrivate
    BY DEF IInv
  <1> QED  BY <1>1, ForkInvariant, PTL

-------------------------------------------------------------------------------
(*****************************************************************************)
(* Which pages the loop of fork() steps over.  P is the set of the pages that *)
(* its program has mapped; it does not change while the loop runs.            *)
(*****************************************************************************)
Void(P, n, q) == \A b \in P : b \div n # q
Gaps(P, t) == {k \in (t + 1)..Table(USTACK) : Void(P, NPDENTRIES, k)}
Lost(P, va) ==
    \E n \in {NPDENTRIES, NPDENTRIES * NPDENTRIES} :
        Void(P, n, (va \div n) + 1) /\ n - 1 - (va % n) < Cardinality(Gaps(P, Table(va)))

\* Where nothing is mapped the loop is no further from the end of the table, or
\* of the directory, than there are missing tables above it.
TableHole(P, a) ==
    Void(P, NPDENTRIES, Table(a)) /\ ~Void(P, NPDENTRIES * NPDENTRIES, Directory(a)) =>
        NPDENTRIES - 1 - (a % NPDENTRIES) <= Cardinality(Gaps(P, Table(a)))
DirectoryHole(P, a) ==
    Void(P, NPDENTRIES * NPDENTRIES, Directory(a)) =>
        NPDENTRIES * NPDENTRIES - 1 - (a % (NPDENTRIES * NPDENTRIES))
            <= Cardinality(Gaps(P, NPDENTRIES * Directory(a) + NPDENTRIES - 1))
Hole(P, a) == TableHole(P, a) /\ DirectoryHole(P, a)

\* Division.
LEMMA Quotient ==
    ASSUME NEW a \in Nat, NEW n \in Nat \ {0}
    PROVE  /\ a \div n \in Nat /\ a % n \in Nat /\ a % n < n
           /\ a = n * (a \div n) + (a % n)
  BY Z3T(60)
LEMMA QuotientIs ==
    ASSUME NEW n \in Nat \ {0}, NEW q \in Nat, NEW r \in Nat, r < n
    PROVE  (n * q + r) \div n = q /\ (n * q + r) % n = r
  BY Z3T(60)
LEMMA Below ==
    ASSUME NEW n \in Nat \ {0}, NEW q \in Nat, NEW k \in Nat, q < k
    PROVE  n * q + n <= n * k
  BY Z3T(60)
LEMMA BelowQ ==
    ASSUME NEW n \in Nat \ {0}, NEW q \in Nat, NEW k \in Nat, NEW r \in Nat, NEW s \in Nat, r < n, s < n,
       n * q + r <= n * k + s
    PROVE  q <= k
  BY Z3T(60)
LEMMA QuotientOf ==
    ASSUME NEW n \in Nat \ {0}, NEW a \in Nat, NEW q \in Nat, NEW r \in Nat, r < n, a = n * q + r
    PROVE  a \div n = q /\ a % n = r
  BY QuotientIs, SMT
LEMMA Nested ==
    ASSUME NEW n \in Nat \ {0}, NEW a \in Nat
    PROVE  /\ n * n \in Nat \ {0}
           /\ a \div (n * n) = (a \div n) \div n
           /\ a % (n * n) = n * ((a \div n) % n) + (a % n)
  <1>1. PICK t \in Nat, o \in Nat : a = n * t + o /\ o < n /\ t = a \div n /\ o = a % n
    BY Quotient
  <1>2. PICK d \in Nat, s \in Nat : t = n * d + s /\ s < n /\ d = t \div n /\ s = t % n
    BY Quotient
  <1>3. a = n * n * d + (n * s + o)
    <2>1. n * (n * d + s) = n * n * d + n * s
      BY Z3T(60)
    <2> QED  BY <1>1, <1>2, <2>1, Z3T(60)
  <1>4. n * n \in Nat \ {0} /\ n * s + o \in Nat
    BY Z3T(60)
  <1>5. n * s + o < n * n
    <2>1. n * s + n <= n * n
      BY <1>2, Below
    <2> QED  BY <1>1, <2>1, <1>4, Z3T(60)
  <1> DEFINE m == n * n
             r == n * s + o
  <1>6. m \in Nat \ {0} /\ r \in Nat /\ r < m /\ a = m * d + r
    BY <1>3, <1>4, <1>5
  <1>7. a \div m = d /\ a % m = r
    <2> HIDE DEF m, r
    <2> QED  BY <1>6, QuotientOf
  <1> QED  BY <1>1, <1>2, <1>4, <1>7
\* An address is a directory d, a table s of it and an entry o of that.
Place(a, d, s, o) ==
    /\ d \in Nat /\ s \in Nat /\ o \in Nat /\ s < NPDENTRIES /\ o < NPDENTRIES
    /\ a = NPDENTRIES * (NPDENTRIES * d + s) + o
    /\ Table(a) = NPDENTRIES * d + s /\ a % NPDENTRIES = o
    /\ Directory(a) = d /\ a % (NPDENTRIES * NPDENTRIES) = NPDENTRIES * s + o

LEMMA EntriesPositive == NPDENTRIES \in Nat \ {0} /\ NPDENTRIES * NPDENTRIES \in Nat \ {0}
  <1>1. NPDENTRIES \in Nat \ {0}
    BY ForkAssumption
  <1> QED  BY <1>1, Nested

LEMMA PlaceIs ==
    ASSUME NEW d \in Nat, NEW s \in Nat, NEW o \in Nat, s < NPDENTRIES, o < NPDENTRIES,
           NEW a, a = NPDENTRIES * (NPDENTRIES * d + s) + o
    PROVE  a \in Nat /\ Place(a, d, s, o)
  <1> DEFINE n == NPDENTRIES
             t == n * d + s
  <1>1. n \in Nat \ {0} /\ n * n \in Nat \ {0}
    BY EntriesPositive
  <1>2. t \in Nat /\ t \div n = d /\ t % n = s
    <2>1. t \in Nat
      <3> HIDE DEF n
      <3> QED  BY <1>1, Z3T(30)
    <2> HIDE DEF n
    <2>2. s < n
      BY DEF n
    <2>3. t = n * d + s
      OBVIOUS
    <2> HIDE DEF t
    <2> QED  BY <1>1, <2>1, <2>2, <2>3, QuotientOf
  <1>3. a \in Nat /\ a \div n = t /\ a % n = o
    <2>1. a = n * t + o /\ o < n
      OBVIOUS
    <2> HIDE DEF t, n
    <2>2. a \in Nat
      BY <1>1, <1>2, <2>1, Z3T(30)
    <2> QED  BY <1>1, <1>2, <2>1, <2>2, QuotientOf
  <1>4. a \div (n * n) = d /\ a % (n * n) = n * s + o
    <2> HIDE DEF t, n
    <2>1. a \div (n * n) = (a \div n) \div n /\ a % (n * n) = n * ((a \div n) % n) + (a % n)
      BY <1>1, <1>3, Nested
    <2> QED  BY <1>2, <1>3, <2>1
  <1> QED  BY <1>3, <1>4 DEF Place, Table, Directory

LEMMA PlaceOf ==
    ASSUME NEW a \in Nat
    PROVE  \E d, s, o \in Nat : Place(a, d, s, o)
  <1>1. NPDENTRIES \in Nat \ {0}
    BY EntriesPositive
  <1>2. PICK t \in Nat, o \in Nat : a = NPDENTRIES * t + o /\ o < NPDENTRIES
    BY <1>1, Quotient
  <1>3. PICK d \in Nat, s \in Nat : t = NPDENTRIES * d + s /\ s < NPDENTRIES
    BY <1>1, Quotient
  <1>4. a = NPDENTRIES * (NPDENTRIES * d + s) + o
    BY <1>2, <1>3
  <1>5. Place(a, d, s, o)
    BY <1>2, <1>3, <1>4, PlaceIs
  <1> QED  BY <1>5

\* Counting the missing tables.
LEMMA GapsCounted ==
    ASSUME NEW P, NEW t \in Int
    PROVE  IsFiniteSet(Gaps(P, t)) /\ Cardinality(Gaps(P, t)) \in Nat /\ Table(USTACK) \in Nat
  <1>1. Table(USTACK) \in Nat
    BY Addresses, EntriesPositive, Quotient DEF Table
  <1>2. IsFiniteSet((t + 1)..Table(USTACK))
    BY <1>1, FS_Interval
  <1>3. IsFiniteSet(Gaps(P, t))
    BY <1>2, FS_Subset DEF Gaps
  <1> QED  BY <1>1, <1>3, FS_CardinalityType

LEMMA GapsMonotone ==
    ASSUME NEW P, NEW t \in Int, NEW u \in Int, u <= t
    PROVE  Cardinality(Gaps(P, t)) <= Cardinality(Gaps(P, u))
  <1>1. Table(USTACK) \in Nat
    BY GapsCounted
  <1>2. Gaps(P, t) \subseteq Gaps(P, u)
    BY <1>1 DEF Gaps
  <1> QED  BY <1>2, GapsCounted, FS_Subset

LEMMA OneGapMore ==
    ASSUME NEW P, NEW t \in Nat, t <= Table(USTACK), Void(P, NPDENTRIES, t), NEW u \in Int, u < t
    PROVE  Cardinality(Gaps(P, t)) + 1 <= Cardinality(Gaps(P, u))
  <1>1. Table(USTACK) \in Nat
    BY GapsCounted
  <1>2. Gaps(P, t) \cup {t} \subseteq Gaps(P, u) /\ t \notin Gaps(P, t)
    BY <1>1 DEF Gaps
  <1>3. Cardinality(Gaps(P, t) \cup {t}) = Cardinality(Gaps(P, t)) + 1
    <2>1. IsFiniteSet(Gaps(P, t))
      BY GapsCounted
    <2>2. \A S, x : IsFiniteSet(S) =>
             Cardinality(S \cup {x}) = IF x \in S THEN Cardinality(S) ELSE Cardinality(S) + 1
      BY FS_AddElement
    <2> QED  BY <1>2, <2>1, <2>2
  <1>4. Cardinality(Gaps(P, t) \cup {t}) <= Cardinality(Gaps(P, u))
    BY <1>2, GapsCounted, FS_Subset
  <1> QED  BY <1>3, <1>4

LEMMA DirectoryOfGaps ==
    ASSUME NEW P \in SUBSET Nat, NEW d \in Nat, Void(P, NPDENTRIES * NPDENTRIES, d),
           NEW k \in Nat, NPDENTRIES * d <= k, k < NPDENTRIES * d + NPDENTRIES
    PROVE  Void(P, NPDENTRIES, k)
  <1> SUFFICES ASSUME NEW b \in P, b \div NPDENTRIES = k PROVE FALSE
    BY DEF Void
  <1>1. NPDENTRIES \in Nat \ {0} /\ NPDENTRIES * d \in Nat
    BY EntriesPositive, Z3T(30)
  <1>2. b \div (NPDENTRIES * NPDENTRIES) = k \div NPDENTRIES
    BY <1>1, Nested
  <1>3. PICK s \in Nat : s < NPDENTRIES /\ k = NPDENTRIES * d + s
    <2> DEFINE s == k - NPDENTRIES * d
    <2>1. s \in Nat /\ s < NPDENTRIES /\ k = NPDENTRIES * d + s
      BY <1>1
    <2> QED  BY <2>1
  <1>4. k \div NPDENTRIES = d
    BY <1>1, <1>3, QuotientOf
  <1> QED  BY <1>2, <1>4 DEF Void

LEMMA WholeDirectoryMore ==
    ASSUME NEW P \in SUBSET Nat, NEW d \in Nat, Void(P, NPDENTRIES * NPDENTRIES, d), d < Directory(USTACK)
    PROVE  /\ NPDENTRIES * d \in Nat
           /\ Cardinality(Gaps(P, NPDENTRIES * d + NPDENTRIES - 1)) + NPDENTRIES
                 <= Cardinality(Gaps(P, NPDENTRIES * d - 1))
  <1> DEFINE n == NPDENTRIES
             lo == n * d
             hi == n * d + n - 1
             A == Gaps(P, hi)
             B == lo..hi
             C == Gaps(P, lo - 1)
  <1>1. n \in Nat \ {0} /\ lo \in Nat /\ hi \in Nat /\ lo <= hi /\ hi - lo + 1 = n
    <2>1. n \in Nat \ {0}
      BY EntriesPositive
    <2>2. lo \in Nat
      <3> HIDE DEF n
      <3> QED  BY <2>1, Z3T(30)
    <2>3. hi = lo + n - 1
      OBVIOUS
    <2> HIDE DEF n, lo, hi
    <2> QED  BY <2>1, <2>2, <2>3
  <1>2. hi < Table(USTACK)
    <2>1. USTACK \in Nat
      BY Addresses
    <2>2. PICK dd \in Nat, ss \in Nat, oo \in Nat : Place(USTACK, dd, ss, oo)
      BY <2>1, PlaceOf
    <2>3. dd = Directory(USTACK) /\ Table(USTACK) = n * dd + ss
      BY <2>2 DEF Place
    <2>4. d < dd
      BY <2>3
    <2>5. n * d + n <= n * dd
      BY <1>1, <2>4, Below
    <2>6. n * dd \in Nat
      <3> HIDE DEF n
      <3> QED  BY <1>1, Z3T(30)
    <2>7. hi = lo + n - 1 /\ lo + n <= n * dd
      BY <2>5
    <2> HIDE DEF n, lo, hi
    <2> QED  BY <1>1, <2>3, <2>6, <2>7
  <1>3. Table(USTACK) \in Nat /\ IsFiniteSet(A) /\ IsFiniteSet(C) /\ Cardinality(A) \in Nat /\ Cardinality(C) \in Nat
    <2> HIDE DEF n, lo, hi
    <2>1. lo - 1 \in Int /\ hi \in Int
      BY <1>1
    <2> QED  BY <2>1, GapsCounted
  <1>4. IsFiniteSet(B) /\ Cardinality(B) = n
    <2> HIDE DEF n, lo, hi
    <2>1. IsFiniteSet(B) /\ Cardinality(B) = IF lo > hi THEN 0 ELSE hi - lo + 1
      BY <1>1, FS_Interval
    <2>2. ~(lo > hi)
      BY <1>1
    <2> QED  BY <1>1, <2>1, <2>2
  <1>5. A \cap B = {} /\ A \cup B \subseteq C
    <2>1. \A k \in B : Void(P, n, k)
      <3> TAKE k \in B
      <3>1. k \in Nat /\ n * d <= k /\ k < n * d + n
        <4>1. hi = lo + n - 1
          OBVIOUS
        <4>2. k \in lo..hi
          OBVIOUS
        <4>3. k \in Nat /\ lo <= k /\ k < lo + n
          <5> HIDE DEF n, lo, hi
          <5> QED  BY <1>1, <4>1, <4>2
        <4> QED  BY <4>3
      <3> QED  BY <3>1, DirectoryOfGaps
    <2> HIDE DEF lo, hi
    <2>2. A \cap B = {}
      BY <1>1, <1>3 DEF Gaps
    <2>3. B \subseteq C
      BY <1>1, <1>2, <1>3, <2>1 DEF Gaps
    <2>4. A \subseteq C
      BY <1>1, <1>2, <1>3 DEF Gaps
    <2> QED  BY <2>2, <2>3, <2>4
  <1> HIDE DEF A, B, C, lo, hi
  <1>6. Cardinality(A \cup B) = Cardinality(A) + Cardinality(B)
    <2>1. Cardinality(A \cup B) = Cardinality(A) + Cardinality(B) - Cardinality(A \cap B)
      BY <1>3, <1>4, FS_Union
    <2>2. Cardinality(A \cap B) = 0
      BY <1>5, FS_EmptySet
    <2> QED  BY <1>1, <1>3, <1>4, <2>1, <2>2
  <1>7. Cardinality(A \cup B) <= Cardinality(C)
    BY <1>3, <1>5, FS_Subset
  <1> QED  BY <1>1, <1>4, <1>6, <1>7 DEF A, C, lo, hi

LEMMA QuotientMonotone ==
    ASSUME NEW n \in Nat \ {0}, NEW a \in Nat, NEW b \in Nat, a <= b
    PROVE  a \div n <= b \div n
  <1>1. a \div n \in Nat /\ a % n \in Nat /\ a % n < n /\ a = n * (a \div n) + (a % n)
    BY Quotient
  <1>2. b \div n \in Nat /\ b % n \in Nat /\ b % n < n /\ b = n * (b \div n) + (b % n)
    BY Quotient
  <1> QED  BY <1>1, <1>2, BelowQ

LEMMA SameDirectory ==
    ASSUME NEW a \in Nat, NEW b \in Nat, b \div NPDENTRIES = Table(a)
    PROVE  b \div (NPDENTRIES * NPDENTRIES) = Directory(a)
  <1> DEFINE n == NPDENTRIES
  <1>1. n \in Nat \ {0}
    BY EntriesPositive
  <1>2. b \div (n * n) = (b \div n) \div n
    <2> HIDE DEF n
    <2> QED  BY <1>1, Nested
  <1>3. a \div (n * n) = (a \div n) \div n
    <2> HIDE DEF n
    <2> QED  BY <1>1, Nested
  <1> QED  BY <1>2, <1>3 DEF Table, Directory

\* An empty table, or directory, is below that of the stack.
LEMMA VoidIsBelow ==
    ASSUME NEW P \in SUBSET Nat, USTACK \in P, NEW a \in Nat, a <= USTACK
    PROVE  /\ Table(a) \in Nat /\ Directory(a) \in Nat
           /\ Void(P, NPDENTRIES, Table(a)) => Table(a) < Table(USTACK)
           /\ Void(P, NPDENTRIES * NPDENTRIES, Directory(a)) => Directory(a) < Directory(USTACK)
           /\ Void(P, NPDENTRIES * NPDENTRIES, Directory(a)) => Void(P, NPDENTRIES, Table(a))
  <1>1. USTACK \in Nat /\ NPDENTRIES \in Nat \ {0} /\ NPDENTRIES * NPDENTRIES \in Nat \ {0}
    BY Addresses, EntriesPositive
  <1>2. Table(a) \in Nat /\ Table(USTACK) \in Nat /\ Directory(a) \in Nat /\ Directory(USTACK) \in Nat
    BY <1>1, Quotient DEF Table, Directory
  <1>3. Table(a) <= Table(USTACK) /\ Directory(a) <= Directory(USTACK)
    BY <1>1, QuotientMonotone DEF Table, Directory
  <1>4. Void(P, NPDENTRIES, Table(a)) => Table(USTACK) # Table(a)
    BY DEF Void, Table
  <1>5. Void(P, NPDENTRIES * NPDENTRIES, Directory(a)) => Directory(USTACK) # Directory(a)
    BY DEF Void, Directory
  <1>6. ASSUME Void(P, NPDENTRIES * NPDENTRIES, Directory(a)) PROVE Void(P, NPDENTRIES, Table(a))
    <2> SUFFICES ASSUME NEW b \in P, b \div NPDENTRIES = Table(a) PROVE FALSE
      BY DEF Void
    <2>1. b \div (NPDENTRIES * NPDENTRIES) = Directory(a)
      BY SameDirectory
    <2> QED  BY <1>6, <2>1 DEF Void
  <1> QED  BY <1>2, <1>3, <1>4, <1>5, <1>6

\* At the last entry of a table there is nothing to count.
LEMMA AtTheEnd ==
    ASSUME NEW P, NEW a, NEW d \in Nat, NEW s \in Nat, Place(a, d, s, NPDENTRIES - 1)
    PROVE  TableHole(P, a) /\ (s = NPDENTRIES - 1 => DirectoryHole(P, a))
  <1> DEFINE n == NPDENTRIES
             g == Cardinality(Gaps(P, Table(a)))
             h == Cardinality(Gaps(P, n * Directory(a) + n - 1))
  <1>1. n \in Nat \ {0} /\ n * n \in Nat /\ n * d \in Nat
    BY EntriesPositive, Z3T(30)
  <1>2. Table(a) = n * d + s /\ a % n = n - 1 /\ Directory(a) = d /\ a % (n * n) = n * s + (n - 1)
    BY DEF Place
  <1>3. Table(a) \in Int /\ n * Directory(a) + n - 1 \in Int
    BY <1>1, <1>2
  <1>4. g \in Nat /\ h \in Nat
    BY <1>3, GapsCounted
  <1>5. n - 1 - (a % n) <= g
    BY <1>1, <1>2, <1>4
  <1>6. ASSUME s = n - 1 PROVE n * n - 1 - (a % (n * n)) <= h
    <2>1. n * s = n * n - n
      <3>1. n * (n - 1) = n * n - n
        <4> HIDE DEF n
        <4> QED  BY <1>1, Z3T(30)
      <3> QED  BY <1>6, <3>1
    <2> HIDE DEF n, h
    <2> QED  BY <1>1, <1>2, <1>4, <2>1
  <1> QED  BY <1>5, <1>6 DEF TableHole, DirectoryHole

\* One page further down, after a page that is mapped or in a table that has an entry.
LEMMA StepOne ==
    ASSUME NEW P \in SUBSET Nat, NEW a \in Nat, a - 1 \in Nat, ~Void(P, NPDENTRIES, Table(a))
    PROVE  Hole(P, a - 1)
  <1> DEFINE n == NPDENTRIES
  <1>1. n \in Nat \ {0} /\ n * n \in Nat \ {0}
    BY EntriesPositive
  <1>2. PICK d \in Nat, s \in Nat, o \in Nat : Place(a, d, s, o)
    BY PlaceOf
  <1>3. s < n /\ o < n /\ a = n * (n * d + s) + o /\ Table(a) = n * d + s /\ Directory(a) = d
    BY <1>2 DEF Place
  <1>4. ~Void(P, n * n, Directory(a))
    <2>1. PICK b \in P : b \div n = Table(a)
      BY DEF Void
    <2>2. b \div (n * n) = Directory(a)
      BY <2>1, SameDirectory
    <2> QED  BY <2>2 DEF Void
  <1>5. CASE o # 0
    <2>1. o - 1 \in Nat /\ o - 1 < n
      BY <1>1, <1>3, <1>5
    <2>2. a - 1 = n * (n * d + s) + (o - 1)
      <3> DEFINE m == n * (n * d + s)
      <3>1. m \in Int
        <4> HIDE DEF n
        <4> QED  BY <1>1, Z3T(30)
      <3>2. a = m + o
        BY <1>3
      <3> HIDE DEF m
      <3>3. a - 1 = m + (o - 1)
        BY <3>1, <3>2
      <3> QED  BY <3>3 DEF m
    <2>3. Place(a - 1, d, s, o - 1)
      BY <1>3, <2>1, <2>2, PlaceIs
    <2>4. Table(a - 1) = Table(a) /\ Directory(a - 1) = Directory(a)
      BY <1>3, <2>3 DEF Place
    <2> QED  BY <1>4, <2>4 DEF Hole, TableHole, DirectoryHole
  <1>6. CASE o = 0 /\ s # 0
    <2>1. s - 1 \in Nat /\ s - 1 < n /\ n - 1 \in Nat /\ n - 1 < n
      BY <1>1, <1>3, <1>6
    <2>2. a - 1 = n * (n * d + (s - 1)) + (n - 1)
      <3>1. n * (n * d + (s - 1)) = n * (n * d + s) - n
        <4> HIDE DEF n
        <4> QED  BY <1>1, Z3T(30)
      <3>2. n * (n * d + s) \in Int
        <4> HIDE DEF n
        <4> QED  BY <1>1, Z3T(30)
      <3>3. a = n * (n * d + s)
        BY <1>3, <1>6, <3>2
      <3> DEFINE u == n * (n * d + (s - 1))
      <3>4. u = a - n
        BY <3>1, <3>3
      <3> HIDE DEF u, n
      <3>5. a - 1 = u + (n - 1)
        BY <1>1, <3>4
      <3> QED  BY <3>5 DEF u
    <2>3. Place(a - 1, d, s - 1, n - 1)
      BY <2>1, <2>2, PlaceIs
    <2>4. Directory(a - 1) = Directory(a)
      BY <1>3, <2>3 DEF Place
    <2>5. TableHole(P, a - 1)
      BY <2>1, <2>3, AtTheEnd
    <2> QED  BY <1>4, <2>4, <2>5 DEF Hole, DirectoryHole
  <1>7. CASE o = 0 /\ s = 0
    <2>1. a = n * (n * d)
      <3>1. n * (n * d) \in Int
        <4> HIDE DEF n
        <4> QED  BY <1>1, Z3T(30)
      <3>2. n * d \in Int
        <4> HIDE DEF n
        <4> QED  BY <1>1, Z3T(30)
      <3>3. n * d + s = n * d
        BY <1>7, <3>2
      <3> QED  BY <1>3, <1>7, <3>1, <3>3
    <2>2. d # 0
      <3>1. n * (n * 0) = 0
        <4> HIDE DEF n
        <4> QED  BY <1>1
      <3> QED  BY <2>1, <3>1
    <2>3. d - 1 \in Nat /\ n - 1 \in Nat /\ n - 1 < n
      BY <1>1, <2>2
    <2>4. a - 1 = n * (n * (d - 1) + (n - 1)) + (n - 1)
      <3>1. n * (n * (d - 1) + (n - 1)) = n * (n * d) - n
        <4> HIDE DEF n
        <4>1. n * (d - 1) = n * d - n
          BY <1>1, Z3T(30)
        <4>2. n * (n * d - n + (n - 1)) = n * (n * d) - n
          BY <1>1, Z3T(30)
        <4> QED  BY <4>1, <4>2
      <3> DEFINE u == n * (n * (d - 1) + (n - 1))
      <3>2. u = a - n
        BY <2>1, <3>1
      <3> HIDE DEF u, n
      <3>3. a - 1 = u + (n - 1)
        BY <1>1, <3>2
      <3> QED  BY <3>3 DEF u
    <2>5. Place(a - 1, d - 1, n - 1, n - 1)
      BY <2>3, <2>4, PlaceIs
    <2>6. TableHole(P, a - 1) /\ DirectoryHole(P, a - 1)
      BY <2>3, <2>5, AtTheEnd
    <2> QED  BY <2>6 DEF Hole
  <1> QED  BY <1>5, <1>6, <1>7

\* One table further down.
LEMMA StepTable ==
    ASSUME NEW P \in SUBSET Nat, USTACK \in P, NEW a \in Nat, a <= USTACK, a - NPDENTRIES - 1 \in Nat,
           Void(P, NPDENTRIES, Table(a)), ~Void(P, NPDENTRIES * NPDENTRIES, Directory(a)), TableHole(P, a)
    PROVE  Hole(P, a - NPDENTRIES - 1)
  <1> DEFINE n == NPDENTRIES
             c == a - n - 1
             G == Cardinality(Gaps(P, Table(a)))
             H == Cardinality(Gaps(P, Table(a) - 1))
  <1>1. n \in Nat \ {0} /\ n * n \in Nat \ {0}
    BY EntriesPositive
  <1>2. PICK d \in Nat, s \in Nat, o \in Nat : Place(a, d, s, o)
    BY PlaceOf
  <1>3. s < n /\ o < n /\ a = n * (n * d + s) + o /\ Table(a) = n * d + s /\ Directory(a) = d /\ a % n = o
    BY <1>2 DEF Place
  <1>4. Table(a) \in Nat /\ Table(a) < Table(USTACK) /\ Table(USTACK) \in Nat
    BY VoidIsBelow, GapsCounted
  <1>5. G \in Nat /\ H \in Nat
    <2>1. Table(a) \in Int /\ Table(a) - 1 \in Int
      BY <1>4
    <2> QED  BY <2>1, GapsCounted
  <1>6. n - 1 - o <= G
    BY <1>3 DEF TableHole
  <1>7. G + 1 <= H
    <2>1. Table(a) - 1 \in Int /\ Table(a) - 1 < Table(a) /\ Table(a) <= Table(USTACK)
      BY <1>4
    <2> QED  BY <1>4, <2>1, OneGapMore
  <1>8. n - o <= H
    <2> HIDE DEF n, G, H
    <2> QED  BY <1>1, <1>5, <1>6, <1>7
  <1>9. n * (n * d + s) \in Int /\ n * d \in Nat /\ n * (n * d) \in Nat /\ n * s \in Nat
    <2> HIDE DEF n
    <2> QED  BY <1>1, Z3T(30)
  <1>10. /\ n * (n * d + s - 1) = n * (n * d + s) - n
         /\ n * (n * d + s - 2) = n * (n * d + s) - 2 * n
         /\ n * (d - 1) = n * d - n
         /\ n * (n - 1) = n * n - n
         /\ n * (n - 2) = n * n - 2 * n
    <2> HIDE DEF n
    <2>1. n * (n * d + s - 1) = n * (n * d + s) - n
      BY <1>1, <1>9, Z3T(30)
    <2>2. n * (n * d + s - 2) = n * (n * d + s) - 2 * n
      BY <1>1, <1>9, Z3T(30)
    <2>3. n * (d - 1) = n * d - n /\ n * (n - 1) = n * n - n /\ n * (n - 2) = n * n - 2 * n
      BY <1>1, Z3T(30)
    <2> QED  BY <2>1, <2>2, <2>3
  <1>11. n * d + s # 0
    <2>1. n * 0 = 0
      BY <1>1
    <2>2. ASSUME n * d + s = 0 PROVE FALSE
      <3>1. a = o
        BY <1>1, <1>3, <2>1, <2>2
      <3> HIDE DEF n
      <3>2. a - n - 1 \in Nat
        BY DEF n
      <3> QED  BY <1>1, <1>3, <3>1, <3>2
    <2> QED  BY <2>2
  <1>12. ASSUME o # 0 PROVE c = n * (n * d + s - 1) + (o - 1)
    <2> DEFINE m == n * (n * d + s)
               p == n * (n * d + s - 1)
    <2>1. a = m + o /\ c = a - n - 1 /\ p = m - n
      <3>1. p = m - n
        BY <1>10
      <3> QED  BY <1>3, <3>1
    <2>2. m \in Int
      BY <1>9
    <2> HIDE DEF m, p, c, n
    <2>3. c = p + (o - 1)
      BY <1>1, <2>1, <2>2
    <2> QED  BY <2>3 DEF p
  <1>13. CASE o # 0 /\ s # 0
    <2>1. c = n * (n * d + (s - 1)) + (o - 1)
      <3>1. n * d + s - 1 = n * d + (s - 1)
        BY <1>9
      <3> QED  BY <1>12, <1>13, <3>1
    <2>2. s - 1 \in Nat /\ o - 1 \in Nat /\ s - 1 < n /\ o - 1 < n
      BY <1>1, <1>3, <1>13
    <2>3. Place(c, d, s - 1, o - 1)
      BY <2>1, <2>2, PlaceIs
    <2>4. Directory(c) = Directory(a) /\ Table(c) = Table(a) - 1 /\ c % n = o - 1
      BY <1>3, <1>9, <2>3 DEF Place
    <2>5. n - 1 - (o - 1) <= H
      <3> HIDE DEF n, H
      <3> QED  BY <1>1, <1>5, <1>8
    <2>6. TableHole(P, c)
      BY <2>4, <2>5 DEF TableHole
    <2> QED  BY <2>4, <2>6 DEF Hole, DirectoryHole
  <1>14. CASE o # 0 /\ s = 0
    <2>1. d - 1 \in Nat /\ o - 1 \in Nat /\ n - 1 \in Nat /\ n - 1 < n /\ o - 1 < n
      <3>1. d # 0
        BY <1>1, <1>11, <1>14
      <3> QED  BY <1>1, <1>3, <1>14, <3>1
    <2>2. n * (d - 1) + (n - 1) = n * d + s - 1
      <3> HIDE DEF n
      <3> QED  BY <1>1, <1>9, <1>10, <1>14
    <2>3. c = n * (n * (d - 1) + (n - 1)) + (o - 1)
      BY <1>14, <1>12, <2>2
    <2>4. Place(c, d - 1, n - 1, o - 1)
      BY <2>1, <2>3, PlaceIs
    <2>5. Directory(c) = d - 1 /\ Table(c) = Table(a) - 1 /\ c % n = o - 1 /\ c % (n * n) = n * (n - 1) + (o - 1)
      <3>1. /\ Directory(c) = d - 1 /\ Table(c) = n * (d - 1) + (n - 1) /\ c % n = o - 1
            /\ c % (n * n) = n * (n - 1) + (o - 1)
        BY <2>4 DEF Place
      <3>2. Table(c) = Table(a) - 1
        <4>1. Table(c) = n * d + s - 1
          BY <2>2, <3>1
        <4>2. Table(a) = n * d + s
          BY <1>3
        <4> QED  BY <1>1, <1>9, <4>1, <4>2
      <3> QED  BY <3>1, <3>2
    <2>6. n - 1 - (o - 1) <= H
      <3> HIDE DEF n, H
      <3> QED  BY <1>1, <1>5, <1>8
    <2>7. TableHole(P, c)
      BY <2>5, <2>6 DEF TableHole
    <2>8. n * Directory(c) + n - 1 = Table(a) - 1
      <3>1. n * (d - 1) + n - 1 = n * d - 1 /\ Table(a) = n * d
        <4>1. Table(a) = n * d + 0
          BY <1>3, <1>14
        <4> HIDE DEF n
        <4> QED  BY <1>1, <1>9, <1>10, <4>1
      <3> QED  BY <2>5, <3>1
    <2>9. n * n - 1 - (c % (n * n)) <= H
      <3>1. c % (n * n) = n * n - n + (o - 1)
        BY <1>10, <2>5
      <3> HIDE DEF n, H, c
      <3> QED  BY <1>1, <1>5, <1>8, <3>1
    <2>10. DirectoryHole(P, c)
      BY <2>8, <2>9 DEF DirectoryHole
    <2> QED  BY <2>7, <2>10 DEF Hole
  <1>15. ASSUME o = 0 PROVE c = n * (n * d + s - 2) + (n - 1)
    <2> DEFINE m == n * (n * d + s)
               p == n * (n * d + s - 2)
    <2>1. a = m + o /\ c = a - n - 1 /\ p = m - 2 * n
      <3>1. p = m - 2 * n
        BY <1>10
      <3> QED  BY <1>3, <3>1
    <2>2. m \in Int
      BY <1>9
    <2> HIDE DEF m, p, c, n
    <2>3. c = p + (n - 1)
      BY <1>1, <1>15, <2>1, <2>2
    <2> QED  BY <2>3 DEF p
  <1>16. n - 1 \in Nat /\ n - 1 < n
    BY <1>1
  <1>17. CASE o = 0 /\ s # 0 /\ s # 1
    <2>1. n * d + s - 2 = n * d + (s - 2) /\ s - 2 \in Nat /\ s - 2 < n
      <3> HIDE DEF n
      <3> QED  BY <1>1, <1>3, <1>9, <1>17
    <2>2. Place(c, d, s - 2, n - 1)
      <3>1. c = n * (n * d + (s - 2)) + (n - 1)
        BY <1>15, <1>17, <2>1
      <3> QED  BY <1>16, <2>1, <3>1, PlaceIs
    <2>3. Directory(c) = Directory(a) /\ TableHole(P, c)
      BY <1>3, <2>1, <2>2, AtTheEnd DEF Place
    <2> QED  BY <2>3 DEF Hole, DirectoryHole
  <1>18. CASE o = 0 /\ s = 1
    <2>1. d # 0
      <3>1. ASSUME d = 0 PROVE FALSE
        <4>1. n * d = 0
          BY <1>1, <3>1
        <4>2. a = n * (0 + 1) + 0
          BY <1>3, <1>18, <4>1
        <4>3. a = n
          BY <1>1, <4>2
        <4> QED  BY <1>1, <4>3
      <3> QED  BY <3>1
    <2>2. d - 1 \in Nat
      BY <2>1
    <2>3. n * d + s - 2 = n * (d - 1) + (n - 1)
      <3> HIDE DEF n
      <3> QED  BY <1>1, <1>9, <1>10, <1>18
    <2>4. Place(c, d - 1, n - 1, n - 1)
      <3>1. c = n * (n * (d - 1) + (n - 1)) + (n - 1)
        BY <1>15, <1>18, <2>3
      <3> QED  BY <1>16, <2>2, <3>1, PlaceIs
    <2> QED  BY <1>16, <2>2, <2>4, AtTheEnd DEF Hole
  <1>19. CASE o = 0 /\ s = 0
    <2>1. d # 0
      BY <1>1, <1>11, <1>19
    <2>2. n # 1
      <3>1. ASSUME n = 1 PROVE FALSE
        <4>1. n * n = n
          BY <3>1
        <4>2. Table(a) = Directory(a)
          BY <4>1 DEF Table, Directory
        <4> QED  BY <4>1, <4>2
      <3> QED  BY <3>1
    <2>3. d - 1 \in Nat /\ n - 2 \in Nat /\ n - 2 < n
      BY <1>1, <2>1, <2>2
    <2>4. n * d + s - 2 = n * (d - 1) + (n - 2)
      <3> HIDE DEF n
      <3> QED  BY <1>1, <1>9, <1>10, <1>19
    <2>5. Place(c, d - 1, n - 2, n - 1)
      <3>1. c = n * (n * (d - 1) + (n - 2)) + (n - 1)
        BY <1>15, <1>19, <2>4
      <3> QED  BY <1>16, <2>3, <3>1, PlaceIs
    <2>6. Directory(c) = d - 1 /\ c % (n * n) = n * (n - 2) + (n - 1)
      BY <2>5 DEF Place
    <2>7. n * Directory(c) + n - 1 = Table(a) - 1
      <3>1. n * (d - 1) + n - 1 = n * d - 1 /\ Table(a) = n * d
        <4>1. Table(a) = n * d + 0
          BY <1>3, <1>19
        <4> HIDE DEF n
        <4> QED  BY <1>1, <1>9, <1>10, <4>1
      <3> QED  BY <2>6, <3>1
    <2>8. n * n - 1 - (c % (n * n)) <= H
      <3>1. c % (n * n) = n * n - 2 * n + (n - 1)
        BY <1>10, <2>6
      <3> HIDE DEF n, H, c
      <3> QED  BY <1>1, <1>5, <1>8, <1>19, <3>1
    <2>9. DirectoryHole(P, c)
      BY <2>7, <2>8 DEF DirectoryHole
    <2>10. TableHole(P, c)
      BY <2>3, <2>5, AtTheEnd
    <2> QED  BY <2>9, <2>10 DEF Hole
  <1> QED  BY <1>13, <1>14, <1>17, <1>18, <1>19

\* One directory further down.
LEMMA StepDirectory ==
    ASSUME NEW P \in SUBSET Nat, USTACK \in P, NEW a \in Nat, a <= USTACK, a - NPDENTRIES * NPDENTRIES - 1 \in Nat,
           Void(P, NPDENTRIES * NPDENTRIES, Directory(a)), DirectoryHole(P, a)
    PROVE  Hole(P, a - NPDENTRIES * NPDENTRIES - 1)
  <1> DEFINE n == NPDENTRIES
             q == n * n
             c == a - q - 1
  <1>1. n \in Nat \ {0} /\ q \in Nat \ {0} /\ c \in Nat
    BY EntriesPositive
  <1>2. PICK d \in Nat, s \in Nat, o \in Nat : Place(a, d, s, o)
    BY PlaceOf
  <1>3. s < n /\ o < n /\ a = n * (n * d + s) + o /\ Directory(a) = d /\ a % q = n * s + o
    BY <1>2 DEF Place
  <1> DEFINE G == Cardinality(Gaps(P, n * d + n - 1))
             H == Cardinality(Gaps(P, n * d - 1))
  <1>4. n * d \in Nat /\ n * s \in Nat /\ n * (n * d) \in Nat /\ n * (n * d + s) \in Nat
    <2> HIDE DEF n
    <2> QED  BY <1>1, Z3T(30)
  <1>5. G + n <= H /\ G \in Nat /\ H \in Nat
    <2>1. d < Directory(USTACK)
      BY <1>3, VoidIsBelow
    <2>2. G + n <= H
      BY <1>3, <2>1, WholeDirectoryMore
    <2>3. n * d + n - 1 \in Int /\ n * d - 1 \in Int
      BY <1>1, <1>4
    <2>4. G \in Nat /\ H \in Nat
      BY <2>3, GapsCounted
    <2> QED  BY <2>2, <2>4
  <1>6. q - 1 - (n * s + o) <= G
    <2>1. q - 1 - (a % q) <= Cardinality(Gaps(P, n * Directory(a) + n - 1))
      BY DEF DirectoryHole
    <2> QED  BY <1>3, <2>1
  <1>7. /\ n * (d - 1) = n * d - n
        /\ n * (n * (d - 1) + s) = n * (n * d + s) - q
        /\ n * (n * (d - 1) + (s - 1)) = n * (n * d + s) - q - n
        /\ n * (s - 1) = n * s - n
    <2>1. n * (d - 1) = n * d - n /\ n * (s - 1) = n * s - n
      <3> HIDE DEF n
      <3> QED  BY <1>1, Z3T(30)
    <2>2. n * (n * d - n + s) = n * (n * d + s) - q
      <3>1. n * (n * d - n + s) = n * (n * d + s) - n * n
        <4> HIDE DEF n
        <4> QED  BY <1>1, Z3T(30)
      <3> QED  BY <3>1
    <2>3. n * (n * d - n + (s - 1)) = n * (n * d + s) - q - n
      <3>1. n * (n * d - n + (s - 1)) = n * (n * d + s) - n * n - n
        <4> HIDE DEF n
        <4> QED  BY <1>1, Z3T(30)
      <3> QED  BY <3>1
    <2> QED  BY <2>1, <2>2, <2>3
  <1>8. d - 1 \in Nat
    <2>1. ASSUME d = 0 PROVE FALSE
      <3>1. n * d = 0
        BY <1>1, <2>1
      <3>2. a = n * s + o
        BY <1>3, <1>4, <3>1
      <3>3. a < q
        <4>1. n * s + n <= n * n
          <5> HIDE DEF n
          <5>1. s < n
            BY <1>3 DEF n
          <5> QED  BY <1>1, <5>1, Below
        <4>2. q \in Nat /\ n * s \in Nat /\ n * s + n <= q
          BY <1>1, <1>4, <4>1
        <4> DEFINE u == n * s
        <4>3. u \in Nat /\ u + n <= q /\ a = u + o
          BY <3>2, <4>2
        <4> HIDE DEF u, q, n
        <4> QED  BY <1>1, <1>3, <4>2, <4>3
      <3>4. a - q - 1 \in Nat
        OBVIOUS
      <3> HIDE DEF q
      <3> QED  BY <1>1, <3>3, <3>4
    <2> QED  BY <2>1
  <1>9. n * (d - 1) + n - 1 = n * d - 1 /\ n * (d - 1) \in Nat
    <2>1. n * (d - 1) + n - 1 = n * d - 1
      <3> DEFINE u == n * d
                 v == n * (d - 1)
      <3>1. v = u - n /\ u \in Nat
        BY <1>4, <1>7
      <3> HIDE DEF u, v, n
      <3>2. v + n - 1 = u - 1
        BY <1>1, <3>1
      <3> QED  BY <3>2 DEF u, v
    <2>2. n * (d - 1) \in Nat
      <3> HIDE DEF n
      <3> QED  BY <1>1, <1>8, Z3T(30)
    <2> QED  BY <2>1, <2>2
  <1>10. CASE o # 0
    <2>1. o - 1 \in Nat /\ o - 1 < n
      BY <1>1, <1>3, <1>10
    <2>2. c = n * (n * (d - 1) + s) + (o - 1)
      <3> DEFINE m == n * (n * d + s)
                 p == n * (n * (d - 1) + s)
      <3>1. a = m + o /\ c = a - q - 1 /\ p = m - q /\ m \in Int
        <4>1. p = m - q
          BY <1>7
        <4>2. m \in Int
          BY <1>4
        <4> QED  BY <1>3, <4>1, <4>2
      <3> HIDE DEF m, p, c, q, n
      <3>2. c = p + (o - 1)
        BY <1>1, <3>1
      <3> QED  BY <3>2 DEF p
    <2>3. Place(c, d - 1, s, o - 1)
      BY <1>3, <1>8, <2>1, <2>2, PlaceIs
    <2>4. Table(c) = n * (d - 1) + s /\ c % n = o - 1 /\ Directory(c) = d - 1 /\ c % q = n * s + (o - 1)
      BY <2>3 DEF Place
    <2>5. H <= Cardinality(Gaps(P, Table(c))) /\ Cardinality(Gaps(P, Table(c))) \in Nat
      <3>1. Table(c) <= n * d - 1 /\ Table(c) \in Int /\ n * d - 1 \in Int
        <4> DEFINE u == n * d
                   v == n * (d - 1)
        <4>1. v + n - 1 = u - 1 /\ v \in Nat /\ u \in Nat /\ Table(c) = v + s
          BY <1>4, <1>9, <2>4
        <4> HIDE DEF u, v, n
        <4>2. Table(c) <= u - 1 /\ Table(c) \in Int /\ u - 1 \in Int
          BY <1>1, <1>3, <4>1
        <4> QED  BY <4>2 DEF u
      <3> QED  BY <3>1, GapsMonotone, GapsCounted
    <2>6. TableHole(P, c)
      <3> DEFINE K == Cardinality(Gaps(P, Table(c)))
      <3>1. n - 1 - (c % n) <= K
        <4>1. H <= K /\ K \in Nat
          BY <2>5
        <4> HIDE DEF n, G, H, K, c
        <4> QED  BY <1>1, <1>5, <2>4, <4>1
      <3> QED  BY <3>1 DEF TableHole
    <2>7. DirectoryHole(P, c)
      <3>1. q - 1 - (c % q) <= H
        <4> DEFINE u == n * s
        <4>1. u \in Nat /\ q - 1 - (u + o) <= G /\ c % q = u + (o - 1)
          BY <1>4, <1>6, <2>4
        <4> HIDE DEF n, q, G, H, u, c
        <4> QED  BY <1>1, <1>5, <4>1
      <3>2. Cardinality(Gaps(P, n * Directory(c) + n - 1)) = H
        BY <1>9, <2>4
      <3> QED  BY <3>1, <3>2 DEF DirectoryHole
    <2> QED  BY <2>6, <2>7 DEF Hole
  <1>11. ASSUME o = 0 PROVE c = n * (n * (d - 1) + (s - 1)) + (n - 1)
    <2> DEFINE m == n * (n * d + s)
               p == n * (n * (d - 1) + (s - 1))
    <2>1. a = m + o /\ c = a - q - 1 /\ p = m - q - n /\ m \in Int
      <3>1. p = m - q - n
        BY <1>7
      <3>2. m \in Int
        BY <1>4
      <3> QED  BY <1>3, <3>1, <3>2
    <2> HIDE DEF m, p, c, q, n
    <2>2. c = p + (n - 1)
      BY <1>1, <1>11, <2>1
    <2> QED  BY <2>2 DEF p
  <1>12. n - 1 \in Nat /\ n - 1 < n
    BY <1>1
  <1>13. CASE o = 0 /\ s # 0
    <2>1. s - 1 \in Nat /\ s - 1 < n
      BY <1>1, <1>3, <1>13
    <2>2. Place(c, d - 1, s - 1, n - 1)
      BY <1>8, <1>11, <1>12, <1>13, <2>1, PlaceIs
    <2>3. Directory(c) = d - 1 /\ c % q = n * (s - 1) + (n - 1)
      BY <2>2 DEF Place
    <2>4. TableHole(P, c)
      BY <1>8, <2>1, <2>2, AtTheEnd
    <2>5. DirectoryHole(P, c)
      <3>1. q - 1 - (c % q) <= H
        <4> DEFINE u == n * s
                   v == n * (s - 1)
        <4>1. u \in Nat /\ q - 1 - (u + o) <= G /\ v = u - n /\ c % q = v + (n - 1)
          BY <1>4, <1>6, <1>7, <2>3
        <4> HIDE DEF n, q, G, H, u, v, c
        <4> QED  BY <1>1, <1>5, <1>13, <4>1
      <3>2. Cardinality(Gaps(P, n * Directory(c) + n - 1)) = H
        BY <1>9, <2>3
      <3> QED  BY <3>1, <3>2 DEF DirectoryHole
    <2> QED  BY <2>4, <2>5 DEF Hole
  <1>14. CASE o = 0 /\ s = 0
    <2>1. d - 2 \in Nat
      <3>1. ASSUME d = 1 PROVE FALSE
        <4>1. n * d = n /\ n * (n * d + s) = q
          <5>1. n * 1 = n
            BY <1>1
          <5>2. n + 0 = n
            BY <1>1
          <5> QED  BY <1>14, <3>1, <5>1, <5>2
        <4>2. a = q + 0 /\ a - q - 1 \in Nat
          BY <1>3, <1>14, <4>1
        <4> HIDE DEF q
        <4> QED  BY <1>1, <4>2
      <3> QED  BY <1>8, <3>1
    <2>2. n * (d - 1) + (s - 1) = n * (d - 2) + (n - 1)
      <3>1. n * (d - 1) = n * d - n /\ n * (d - 2) = n * d - 2 * n
        <4> HIDE DEF n
        <4> QED  BY <1>1, Z3T(30)
      <3> DEFINE u == n * d
                 v == n * (d - 1)
                 w == n * (d - 2)
      <3>2. u \in Nat /\ v = u - n /\ w = u - 2 * n
        BY <1>4, <3>1
      <3> HIDE DEF n, u, v, w
      <3>3. v + (0 - 1) = w + (n - 1)
        BY <1>1, <3>2
      <3> QED  BY <1>14, <3>3 DEF v, w
    <2>3. c = n * (n * (d - 2) + (n - 1)) + (n - 1)
      BY <1>11, <1>14, <2>2
    <2>4. Place(c, d - 2, n - 1, n - 1)
      BY <1>12, <2>1, <2>3, PlaceIs
    <2> QED  BY <1>12, <2>1, <2>4, AtTheEnd DEF Hole
  <1> QED  BY <1>10, <1>13, <1>14

\* What is stepped over is lost.
LEMMA SkippedByTable ==
    ASSUME NEW P \in SUBSET Nat, USTACK \in P, NEW a \in Nat, a <= USTACK, TableHole(P, a),
           Void(P, NPDENTRIES, Table(a)), ~Void(P, NPDENTRIES * NPDENTRIES, Directory(a)),
           NEW va \in P, a - NPDENTRIES - 1 < va, va < a
    PROVE  Lost(P, va)
  <1> DEFINE n == NPDENTRIES
             t == Table(a)
             o == a % n
             G == Cardinality(Gaps(P, t))
             r == va - n * (t - 1)
  <1>1. n \in Nat \ {0} /\ n * t \in Nat /\ t \in Nat /\ o \in Nat /\ o < n /\ a = n * t + o /\ va \in Nat
    <2>1. n \in Nat \ {0}
      BY EntriesPositive
    <2>2. a \div n \in Nat /\ o \in Nat /\ o < n /\ a = n * (a \div n) + o
      <3> HIDE DEF n
      <3> QED  BY <2>1, Quotient
    <2>3. t = a \div n
      BY DEF Table
    <2>4. n * t \in Nat
      <3> HIDE DEF n, t
      <3> QED  BY <2>1, <2>2, <2>3, Z3T(30)
    <2> QED  BY <2>1, <2>2, <2>3, <2>4
  <1>2. va \div n # t
    BY DEF Void
  <1>3. va < n * t
    <2>1. ASSUME n * t <= va PROVE FALSE
      <3>1. va - n * t \in Nat /\ va - n * t < n /\ va = n * t + (va - n * t)
        <4> DEFINE m == n * t
        <4>1. m \in Nat /\ m <= va /\ a = m + o
          BY <1>1, <2>1
        <4> HIDE DEF m, n, o
        <4>2. va - m \in Nat /\ va - m < n /\ va = m + (va - m)
          BY <1>1, <4>1
        <4> QED  BY <4>2 DEF m
      <3>2. va \div n = t
        <4> HIDE DEF n, t
        <4> QED  BY <1>1, <3>1, QuotientOf
      <3> QED  BY <1>2, <3>2
    <2> HIDE DEF n, t
    <2> QED  BY <1>1, <2>1
  <1>4. n * (t - 1) = n * t - n
    <2> HIDE DEF n, t
    <2> QED  BY <1>1, Z3T(30)
  <1>5. r \in Nat /\ o <= r /\ r < n /\ va = n * (t - 1) + r
    <2> DEFINE m == n * t
               p == n * (t - 1)
    <2>1. m \in Nat /\ p = m - n /\ va < m /\ a = m + o /\ r = va - p /\ a - n - 1 < va
      BY <1>1, <1>3, <1>4
    <2> HIDE DEF m, p, n, o, r
    <2>2. r \in Nat /\ o <= r /\ r < n /\ va = p + r
      BY <1>1, <2>1
    <2> QED  BY <2>2 DEF p
  <1>6. t - 1 \in Nat
    <2>1. ASSUME t = 0 PROVE FALSE
      <3>1. n * t = 0
        BY <1>1, <2>1
      <3> QED  BY <1>1, <1>3, <3>1
    <2> HIDE DEF t
    <2> QED  BY <1>1, <2>1
  <1>7. va \div n = t - 1 /\ va % n = r
    <2> HIDE DEF n, t, r
    <2> QED  BY <1>1, <1>5, <1>6, QuotientOf
  <1>8. Table(va) = t - 1 /\ (va \div n) + 1 = t
    <2>1. t - 1 + 1 = t
      <3> HIDE DEF t
      <3> QED  BY <1>1
    <2> QED  BY <1>7, <2>1 DEF Table
  <1>9. G + 1 <= Cardinality(Gaps(P, t - 1)) /\ G \in Nat /\ Cardinality(Gaps(P, t - 1)) \in Nat
    <2>1. t < Table(USTACK) /\ Table(USTACK) \in Nat
      BY VoidIsBelow, GapsCounted
    <2>2. t \in Nat /\ t <= Table(USTACK) /\ t - 1 \in Int /\ t - 1 < t /\ Void(P, NPDENTRIES, t)
      <3>1. Void(P, NPDENTRIES, t)
        OBVIOUS
      <3> HIDE DEF t
      <3> QED  BY <1>1, <2>1, <3>1
    <2> HIDE DEF t
    <2> QED  BY <2>2, OneGapMore, GapsCounted
  <1>10. n - 1 - o <= G
    BY DEF TableHole
  <1>11. n - 1 - (va % n) < Cardinality(Gaps(P, Table(va)))
    <2> DEFINE K == Cardinality(Gaps(P, t - 1))
    <2>1. G + 1 <= K /\ G \in Nat /\ K \in Nat
      BY <1>9
    <2>2. n - 1 - r < K
      <3> HIDE DEF n, o, r, t, G, K
      <3> QED  BY <1>1, <1>5, <1>10, <2>1
    <2> QED  BY <1>7, <1>8, <2>2
  <1>12. Void(P, n, (va \div n) + 1)
    BY <1>8
  <1> QED  BY <1>11, <1>12 DEF Lost

LEMMA SkippedByDirectory ==
    ASSUME NEW P \in SUBSET Nat, USTACK \in P, NEW a \in Nat, a <= USTACK, DirectoryHole(P, a),
           Void(P, NPDENTRIES * NPDENTRIES, Directory(a)),
           NEW va \in P, a - NPDENTRIES * NPDENTRIES - 1 < va, va < a
    PROVE  Lost(P, va)
  <1> DEFINE n == NPDENTRIES
             q == n * n
             d == Directory(a)
             o == a % q
             G == Cardinality(Gaps(P, n * d + n - 1))
             H == Cardinality(Gaps(P, n * d - 1))
             r == va - q * (d - 1)
  <1>1. n \in Nat \ {0} /\ q \in Nat \ {0} /\ q * d \in Nat /\ d \in Nat /\ o \in Nat /\ o < q /\ a = q * d + o /\ va \in Nat
    <2>1. n \in Nat \ {0} /\ q \in Nat \ {0}
      BY EntriesPositive
    <2>2. a \div q \in Nat /\ o \in Nat /\ o < q /\ a = q * (a \div q) + o
      <3> HIDE DEF q
      <3> QED  BY <2>1, Quotient
    <2>3. d = a \div q
      BY DEF Directory
    <2>4. q * d \in Nat
      <3> HIDE DEF q, d
      <3> QED  BY <2>1, <2>2, <2>3, Z3T(30)
    <2> QED  BY <2>1, <2>2, <2>3, <2>4
  <1>2. va \div q # d
    BY DEF Void
  <1>3. va < q * d
    <2>1. ASSUME q * d <= va PROVE FALSE
      <3>1. va - q * d \in Nat /\ va - q * d < q /\ va = q * d + (va - q * d)
        <4> DEFINE m == q * d
        <4>1. m \in Nat /\ m <= va /\ a = m + o
          BY <1>1, <2>1
        <4> HIDE DEF m, q, o
        <4>2. va - m \in Nat /\ va - m < q /\ va = m + (va - m)
          BY <1>1, <4>1
        <4> QED  BY <4>2 DEF m
      <3>2. va \div q = d
        <4> HIDE DEF q, d
        <4> QED  BY <1>1, <3>1, QuotientOf
      <3> QED  BY <1>2, <3>2
    <2> HIDE DEF q, d
    <2> QED  BY <1>1, <2>1
  <1>4. q * (d - 1) = q * d - q
    <2> HIDE DEF q, d
    <2> QED  BY <1>1, Z3T(30)
  <1>5. r \in Nat /\ o <= r /\ r < q /\ va = q * (d - 1) + r
    <2> DEFINE m == q * d
               p == q * (d - 1)
    <2>1. m \in Nat /\ p = m - q /\ va < m /\ a = m + o /\ r = va - p /\ a - q - 1 < va
      BY <1>1, <1>3, <1>4
    <2> HIDE DEF m, p, q, o, r
    <2>2. r \in Nat /\ o <= r /\ r < q /\ va = p + r
      BY <1>1, <2>1
    <2> QED  BY <2>2 DEF p
  <1>6. d - 1 \in Nat
    <2>1. ASSUME d = 0 PROVE FALSE
      <3>1. q * d = 0
        <4> HIDE DEF q, d
        <4> QED  BY <1>1, <2>1
      <3> QED  BY <1>1, <1>3, <3>1
    <2> HIDE DEF d
    <2> QED  BY <1>1, <2>1
  <1>7. va \div q = d - 1 /\ va % q = r
    <2> HIDE DEF q, d, r
    <2> QED  BY <1>1, <1>5, <1>6, QuotientOf
  <1>8. (va \div q) + 1 = d
    <2> HIDE DEF d, q
    <2> QED  BY <1>1, <1>7
  <1>9. G + n <= H /\ n * d \in Nat /\ G \in Nat /\ H \in Nat
    <2>1. d < Directory(USTACK)
      BY VoidIsBelow
    <2>2. Void(P, NPDENTRIES * NPDENTRIES, d)
      OBVIOUS
    <2>3. G + n <= H /\ n * d \in Nat
      <3> HIDE DEF d
      <3> QED  BY <1>1, <2>1, <2>2, WholeDirectoryMore
    <2>4. n * d + n - 1 \in Int /\ n * d - 1 \in Int
      BY <1>1, <2>3
    <2> QED  BY <2>3, <2>4, GapsCounted
  <1>10. q - 1 - o <= G
    BY DEF DirectoryHole
  <1>11. H <= Cardinality(Gaps(P, Table(va))) /\ Cardinality(Gaps(P, Table(va))) \in Nat
    <2>1. PICK dd \in Nat, ss \in Nat, oo \in Nat : Place(va, dd, ss, oo)
      BY <1>1, PlaceOf
    <2>2. dd = d - 1 /\ Table(va) = n * dd + ss /\ ss < n
      BY <1>7, <2>1 DEF Place, Directory
    <2>3. n * (d - 1) = n * d - n
      <3> HIDE DEF n, d
      <3> QED  BY <1>1, Z3T(30)
    <2>4. Table(va) <= n * d - 1 /\ Table(va) \in Int /\ n * d - 1 \in Int
      <3> DEFINE u == n * d
                 v == n * (d - 1)
      <3>1. u \in Nat /\ v = u - n /\ Table(va) = v + ss /\ ss < n
        BY <1>9, <2>2, <2>3
      <3> HIDE DEF u, v, n
      <3>2. Table(va) <= u - 1 /\ Table(va) \in Int /\ u - 1 \in Int
        BY <1>1, <3>1
      <3> QED  BY <3>2 DEF u
    <2> QED  BY <2>4, GapsMonotone, GapsCounted
  <1>12. q - 1 - (va % q) < Cardinality(Gaps(P, Table(va)))
    <2> DEFINE K == Cardinality(Gaps(P, Table(va)))
    <2>1. H <= K /\ K \in Nat
      BY <1>11
    <2>2. q - 1 - r < K
      <3> HIDE DEF n, q, o, r, d, G, H, K
      <3> QED  BY <1>1, <1>5, <1>9, <1>10, <2>1
    <2> QED  BY <1>7, <2>2
  <1>13. Void(P, q, (va \div q) + 1)
    BY <1>8
  <1> QED  BY <1>12, <1>13 DEF Lost

-------------------------------------------------------------------------------
(*****************************************************************************)
(* What a new child has of its parent's pages.                                *)
(*****************************************************************************)
\* PFTEMP comes and goes; the other pages of a program stay while it forks.
Filled(e) == {va \in VA \ {PFTEMP} : Present(pt[e][va])}

Covers(P, Q, R, a) ==
    \A va \in P : UTEXT <= va /\ a < va /\ va <= USTACK => va \in Q \/ va \in R \/ Lost(P, va)
Scanned(e, a) == Covers(Filled(e), Filled(child[e]), refused[child[e]], a)

CoverOf(e) ==
    /\ pc[e] \in {"exofork"} \cup InFork => USTACK \in Filled(e)
    /\ pc[e] \in {"scan", "dup child", "dup self"} /\ UTEXT <= addr[e] => Hole(Filled(e), addr[e])
    /\ pc[e] \in {"scan", "dup child"} => Scanned(e, addr[e])
    /\ pc[e] = "dup self" => Scanned(e, addr[e] - 1)
    /\ pc[e] \in {"uxstack"} \cup Stack => Scanned(e, UTEXT - 1)
MapOf(e) == utf[e] # <<>> /\ Top(e).at = "map" => Present(pt[e][Top(e).va])
CoverInv == \A e \in Env : CoverOf(e) /\ MapOf(e)

LEMMA FilledPages ==
    \A e \in Env : Filled(e) \in SUBSET Nat
  BY Addresses DEF Filled

LEMMA CoversMore ==
    ASSUME NEW P, NEW Q, NEW R, NEW S, NEW T, NEW a, Covers(P, Q, R, a), Q \subseteq S, R \subseteq T
    PROVE  Covers(P, S, T, a)
  BY DEF Covers

\* The program does not go on in fork(), and keeps its pages.
LEMMA StandsStill ==
    ASSUME NEW e \in Env, CoverOf(e), pc'[e] = pc[e], addr'[e] = addr[e],
           NEW c, c = child[e], c = child'[e],
           Filled(e)' = Filled(e), Filled(c) \subseteq Filled(c)', refused[c] \subseteq refused'[c]
    PROVE  CoverOf(e)'
  <1>1. ASSUME NEW a, Scanned(e, a)
        PROVE  Scanned(e, a)'
    <2>1. Covers(Filled(e), Filled(c)', refused'[c], a)
      BY <1>1, CoversMore DEF Scanned
    <2>2. Scanned(e, a)' <=> Covers(Filled(e)', Filled(c)', refused'[c], a)
      BY DEF Scanned
    <2> QED  BY <2>1, <2>2
  <1>2. (USTACK \in Filled(e))' <=> USTACK \in Filled(e)
    OBVIOUS
  <1>3. pc[e] \in {"scan", "dup child"} => Scanned(e, addr[e])'
    BY <1>1 DEF CoverOf
  <1>4. pc[e] = "dup self" => Scanned(e, addr[e] - 1)'
    BY <1>1 DEF CoverOf
  <1>5. pc[e] \in {"uxstack"} \cup Stack => Scanned(e, UTEXT - 1)'
    BY <1>1 DEF CoverOf
  <1>6. pc[e] \in {"scan", "dup child", "dup self"} /\ UTEXT <= addr[e] => Hole(Filled(e), addr[e])'
    BY DEF CoverOf
  <1> QED  BY <1>2, <1>3, <1>4, <1>5, <1>6 DEF CoverOf

LEMMA FilledStays ==
    ASSUME NEW f, pt'[f] = pt[f]
    PROVE  Filled(f)' = Filled(f)
  BY DEF Filled

\* One entry changes: that of PFTEMP, or one that stays present.
LEMMA FilledSame ==
    ASSUME TypeOK, NEW g \in Env, NEW x \in VA, NEW y, Changes(g, x, y), x = PFTEMP \/ (Present(pt[g][x]) /\ Present(y))
    PROVE  \A f \in Env : Filled(f)' = Filled(f)
  <1>1. /\ pt'[g][x] = y
        /\ \A f \in Env, va \in VA : f # g \/ va # x => pt'[f][va] = pt[f][va]
    BY Changed
  <1> SUFFICES ASSUME NEW f \in Env, NEW va \in VA \ {PFTEMP} PROVE Present(pt'[f][va]) <=> Present(pt[f][va])
    BY DEF Filled
  <1>2. CASE f = g /\ va = x
    BY <1>1, <1>2
  <1>3. CASE ~(f = g /\ va = x)
    BY <1>1, <1>3
  <1> QED  BY <1>2, <1>3

\* A new entry for environment g.
LEMMA FilledGrows ==
    ASSUME TypeOK, NEW g \in Env, NEW x \in VA, NEW y, Changes(g, x, y), Present(y)
    PROVE  /\ \A f \in Env : f # g => Filled(f)' = Filled(f)
           /\ Filled(g) \subseteq Filled(g)' /\ (x # PFTEMP => x \in Filled(g)')
  <1>1. /\ pt'[g][x] = y
        /\ \A f \in Env, va \in VA : f # g \/ va # x => pt'[f][va] = pt[f][va]
    BY Changed
  <1>2. ASSUME NEW f \in Env, f # g PROVE Filled(f)' = Filled(f)
    BY <1>1, <1>2 DEF Filled
  <1>3. ASSUME NEW va \in Filled(g) PROVE va \in Filled(g)'
    BY <1>1, <1>3 DEF Filled
  <1>4. x # PFTEMP => x \in Filled(g)'
    BY <1>1 DEF Filled
  <1> QED  BY <1>2, <1>3, <1>4

\* Environments other than e and c keep their pages and stay where they are.
Aside(e, c) ==
    \A f \in Env \ {e, c} :
        /\ pc'[f] = pc[f] /\ utf'[f] = utf[f] /\ child'[f] = child[f] /\ addr'[f] = addr[f]
        /\ pt'[f] = pt[f] /\ refused'[f] = refused[f]

LEMMA AsideKeeps ==
    ASSUME IInv, CoverInv, NEW e \in Env, NEW c \in Env, Aside(e, c), NEW f \in Env \ {e, c}, child[f] \notin {e, c}
    PROVE  CoverOf(f)' /\ MapOf(f)'
  <1>1. /\ pc'[f] = pc[f] /\ utf'[f] = utf[f] /\ child'[f] = child[f] /\ addr'[f] = addr[f]
        /\ pt'[f] = pt[f]
    BY DEF Aside
  <1>2. child[f] \in Env \ {e, c} /\ CoverOf(f) /\ MapOf(f)
    BY DEF IInv, TypeOK, CoverInv
  <1>3. pt'[child[f]] = pt[child[f]] /\ refused'[child[f]] = refused[child[f]]
    BY <1>2 DEF Aside
  <1>4. PICK d : d = child[f]
    OBVIOUS
  <1>5. Filled(f)' = Filled(f) /\ Filled(d)' = Filled(d)
    BY <1>1, <1>3, <1>4, FilledStays
  <1>6. CoverOf(f)'
    BY <1>1, <1>2, <1>3, <1>4, <1>5, StandsStill
  <1>7. MapOf(f)'
    BY <1>1, <1>2 DEF MapOf, Top
  <1> QED  BY <1>6, <1>7

\* A step of e, and of its child c.
LEMMA StepCovers ==
    ASSUME IInv, CoverInv, NEW e \in Env, env_status[e] = "RUNNABLE", NEW c \in Env,
           \/ c = e
           \/ c = child[e] /\ pc'[c] = "child" /\ utf'[c] = <<>>
           \/ env_status[c] = "FREE" /\ pc'[c] = "child" /\ utf'[c] = <<>>,
           Aside(e, c), CoverOf(e)', MapOf(e)'
    PROVE  CoverInv'
  <1>1. ASSUME NEW f \in Env \ {e, c} PROVE child[f] \notin {e, c}
    <2>1. CASE child[f] = f
      BY <2>1
    <2>2. CASE child[f] # f
      <3>1. child[f] # e /\ env_status[child[f]] = "NOT_RUNNABLE"
        BY <2>2 DEF IInv, FamilyInv
      <3>2. c = child[e] /\ c # e => child[f] # c
        BY <1>1, <2>2 DEF IInv, FamilyInv
      <3> QED  BY <3>1, <3>2
    <2> QED  BY <2>1, <2>2
  <1>2. ASSUME NEW f \in Env \ {e, c} PROVE CoverOf(f)' /\ MapOf(f)'
    BY <1>1, AsideKeeps
  <1>3. c # e => CoverOf(c)' /\ MapOf(c)'
    BY DEF CoverOf, MapOf, InFork, Stack
  <1> QED  BY <1>2, <1>3 DEF CoverInv

\* A step of a program that does not fork.
LEMMA NotForking ==
    ASSUME NEW e \in Env, pc'[e] \notin {"exofork"} \cup InFork
    PROVE  CoverOf(e)'
  BY DEF CoverOf, InFork, Stack

LEMMA DiesCovers ==
    ASSUME IInv, CoverInv, NEW e \in Env, env_status[e] = "RUNNABLE", Dies(e)
    PROVE  CoverInv'
  <1>1. /\ pc'[e] = "run" /\ utf'[e] = <<>> /\ Aside(e, e)
    BY DEF IInv, TypeOK, Dies, Aside
  <1>2. CoverOf(e)'
    BY <1>1, NotForking DEF InFork, Stack
  <1>3. MapOf(e)'
    BY <1>1 DEF MapOf
  <1> QED  BY <1>1, <1>2, <1>3, StepCovers

\* A step in which e keeps its pages and stays where it is in the program.
Keeps(e) ==
    /\ pc' = pc /\ child' = child /\ addr' = addr /\ refused' = refused
    /\ \A f \in Env : f # e => utf'[f] = utf[f] /\ pt'[f] = pt[f]
    /\ Filled(e)' = Filled(e)

LEMMA KeepsCovers ==
    ASSUME IInv, CoverInv, NEW e \in Env, env_status[e] = "RUNNABLE", Keeps(e), MapOf(e)'
    PROVE  CoverInv'
  <1>1. Aside(e, e)
    BY DEF Keeps, Aside
  <1>2. PICK d \in Env : d = child[e]
    BY DEF IInv, TypeOK
  <1>3. Filled(d)' = Filled(d)
    BY <1>2, FilledStays DEF Keeps
  <1>4. CoverOf(e)'
    BY <1>2, <1>3, StandsStill DEF Keeps, CoverInv
  <1> QED  BY <1>1, <1>4, StepCovers

LEMMA PanicsCovers ==
    ASSUME IInv, CoverInv, NEW e \in Env, env_status[e] = "RUNNABLE", Panics(e)
    PROVE  CoverInv'
  <1>1. pt' = pt /\ utf' = utf /\ Keeps(e)
    BY FilledStays DEF Panics, locals, history, Keeps
  <1>2. MapOf(e)'
    BY <1>1 DEF CoverInv, MapOf, Top
  <1> QED  BY <1>1, <1>2, KeepsCovers

LEMMA FaultCovers ==
    ASSUME IInv, CoverInv, NEW e \in Env, env_status[e] = "RUNNABLE", NEW va \in VA, NEW wr \in BOOLEAN,
           page_fault_handler(e, va, wr)
    PROVE  CoverInv'
  <1>1. CASE Dies(e)
    BY <1>1, DiesCovers
  <1>2. CASE ~Dies(e)
    <2> DEFINE x == Frame(va, wr, "enter")
    <2>1. utf' = [utf EXCEPT ![e] = Append(@, x)] /\ UNCHANGED <<pt, pc, locals, history>>
      BY <1>2 DEF page_fault_handler
    <2>2. x \in Frames /\ x.at = "enter"
      BY DEF Frame, Frames
    <2> HIDE DEF x
    <2>3. Top(e)' = x /\ \A f \in Env : f # e => utf'[f] = utf[f]
      BY <2>1, <2>2, Pushing DEF IInv
    <2>4. MapOf(e)'
      BY <2>2, <2>3 DEF MapOf
    <2>5. Keeps(e)
      BY <2>1, <2>3, FilledStays DEF Keeps, locals, history
    <2> QED  BY <2>4, <2>5, KeepsCovers
  <1> QED  BY <1>1, <1>2

\* A step of the handler: the frame of the fault goes to another place.
LEMMA GoesCovers ==
    ASSUME IInv, CoverInv, NEW e \in Env, env_status[e] = "RUNNABLE", utf[e] # <<>>,
           NEW place \in {"enter", "copy", "map", "unmap", "print", "lost"}, Goto(e, place),
           UNCHANGED <<pc, child, addr, refused>>, \A f \in Env : f # e => pt'[f] = pt[f],
           Filled(e)' = Filled(e), place = "map" => Present(pt'[e][Top(e).va])
    PROVE  CoverInv'
  <1>1. /\ \A f \in Env : f # e => utf'[f] = utf[f]
        /\ Top(e)'.va = Top(e).va /\ Top(e)'.at = place
    BY Going DEF IInv
  <1>2. Keeps(e)
    BY <1>1 DEF Keeps
  <1>3. MapOf(e)'
    BY <1>1 DEF MapOf
  <1> QED  BY <1>2, <1>3, KeepsCovers

\* The handler returns to a frame that was copying or printing when it faulted.
LEMMA ResumesCovers ==
    ASSUME IInv, CoverInv, NEW e \in Env, env_status[e] = "RUNNABLE", utf[e] # <<>>, Resume(e),
           UNCHANGED <<pc, child, addr, refused>>, \A f \in Env : f # e => pt'[f] = pt[f], Filled(e)' = Filled(e)
    PROVE  CoverInv'
  <1> DEFINE n == Len(utf[e])
  <1>1. /\ utf' \in [Env -> Seq(Frames)] /\ \A f \in Env : f # e => utf'[f] = utf[f]
        /\ Len(utf'[e]) = n - 1
        /\ \A i \in 1..(n - 1) : utf'[e][i].at \in {utf[e][i].at, "lost"}
    BY Resuming DEF IInv
  <1>2. n \in Nat /\ n # 0 /\ DOMAIN utf[e] = 1..n
    BY HandlerFacts DEF IInv
  <1>3. Keeps(e)
    BY <1>1 DEF Keeps
  <1>4. MapOf(e)'
    <2>1. ASSUME utf'[e] # <<>> PROVE Top(e)'.at # "map"
      <3>1. utf'[e] \in Seq(Frames)
        BY <1>1
      <3>2. n - 1 # 0
        BY <1>1, <2>1, <3>1, FrameStack
      <3>3. n - 1 \in 1..(n - 1) /\ n - 1 \in DOMAIN utf[e] /\ n - 1 < n
        <4> HIDE DEF n
        <4> QED  BY <1>2, <3>2
      <3>4. utf[e][n - 1].at \in {"copy", "print", "lost"}
        BY <3>3 DEF IInv, FrameInv, FrameOf
      <3>5. utf'[e][n - 1].at # "map"
        BY <1>1, <3>3, <3>4
      <3>6. Top(e)' = utf'[e][n - 1]
        BY <1>1 DEF Top
      <3> QED  BY <3>5, <3>6
    <2> QED  BY <2>1 DEF MapOf
  <1> QED  BY <1>3, <1>4, KeepsCovers

LEMMA FaultingCovers ==
    ASSUME IInv, CoverInv, NEW e \in Env, Faulting(e)
    PROVE  CoverInv'
  <1>1. env_status[e] = "RUNNABLE" /\ utf[e] # <<>>
    BY DEF Faulting, pgfault_alloc, pgfault_copy, pgfault_map, pgfault_unmap, alloc_handler, alloc_print,
           LostFetch, At, Handling
  <1>2. TypeOK /\ Top(e).va \in VA /\ PFTEMP \in VA /\ 0 \in VA
    BY <1>1, HandlerFacts, Addresses DEF IInv
  <1>3. CASE pgfault_alloc(e)
    <2>1. CASE Panics(e)
      BY <1>1, <2>1, PanicsCovers
    <2>2. CASE ~Panics(e)
      <3>1. Changes(e, PFTEMP, Fresh(page_alloc)) /\ Goto(e, "copy") /\ UNCHANGED <<pc, child, addr, refused>>
        BY <1>3, <2>2 DEF pgfault_alloc, Changes, locals, history
      <3>2. \A f \in Env : f # e => pt'[f] = pt[f]
        BY <1>2, <3>1, Changed
      <3>3. Filled(e)' = Filled(e)
        BY <1>2, <3>1, FilledSame
      <3> QED  BY <1>1, <3>1, <3>2, <3>3, GoesCovers
    <2> QED  BY <2>1, <2>2
  <1>4. CASE pgfault_copy(e)
    <2>1. CASE page_fault_handler(e, Top(e).va, FALSE)
      BY <1>1, <1>2, <2>1, FaultCovers
    <2>2. CASE ~page_fault_handler(e, Top(e).va, FALSE)
      <3>1. Present(pt[e][Top(e).va]) /\ pt' = pt /\ Goto(e, "map") /\ UNCHANGED <<pc, child, addr, refused>>
        BY <1>4, <2>2 DEF pgfault_copy, locals, history
      <3>2. Filled(e)' = Filled(e)
        BY <3>1, FilledStays
      <3> QED  BY <1>1, <3>1, <3>2, GoesCovers
    <2> QED  BY <2>1, <2>2
  <1>5. CASE pgfault_map(e)
    <2>1. CASE Panics(e)
      BY <1>1, <2>1, PanicsCovers
    <2>2. CASE ~Panics(e)
      <3> DEFINE y == Fresh(pt[e][PFTEMP].page)
      <3>1. /\ Present(pt[e][PFTEMP]) /\ Changes(e, Top(e).va, y) /\ Goto(e, "unmap")
            /\ UNCHANGED <<pc, child, addr, refused>> /\ Top(e).at = "map"
        BY <1>5, <2>2 DEF pgfault_map, MayMap, Changes, locals, history, At
      <3>2. Present(y) /\ Present(pt[e][Top(e).va])
        BY <1>1, <3>1 DEF Present, Fresh, Absent, CoverInv, MapOf
      <3> HIDE DEF y
      <3>3. \A f \in Env : f # e => pt'[f] = pt[f]
        BY <1>2, <3>1, Changed
      <3>4. Filled(e)' = Filled(e)
        BY <1>2, <3>1, <3>2, FilledSame
      <3> QED  BY <1>1, <3>1, <3>3, <3>4, GoesCovers
    <2> QED  BY <2>1, <2>2
  <1>6. CASE pgfault_unmap(e)
    <2>1. Changes(e, PFTEMP, Absent) /\ Resume(e) /\ UNCHANGED <<pc, child, addr, refused>>
      BY <1>6 DEF pgfault_unmap, Changes, locals, history
    <2>2. \A f \in Env : f # e => pt'[f] = pt[f]
      BY <1>2, <2>1, Changed
    <2>3. Filled(e)' = Filled(e)
      BY <1>2, <2>1, FilledSame
    <2> QED  BY <1>1, <2>1, <2>2, <2>3, ResumesCovers
  <1>7. CASE alloc_handler(e)
    <2>1. CASE Panics(e)
      BY <1>1, <2>1, PanicsCovers
    <2>2. CASE ~Panics(e)
      <3>1. /\ Changes(e, Top(e).va, Fresh(page_alloc)) /\ Goto(e, "print") /\ UNCHANGED <<pc, child, addr, refused>>
            /\ handler[e] = "alloc"
        BY <1>7, <2>2 DEF alloc_handler, Changes, locals
      <3>2. \A f \in Env : f # e => pt'[f] = pt[f] /\ utf'[f] = utf[f]
        BY <1>1, <1>2, <3>1, Changed, Going
      <3>3. pc'[e] = "run"
        BY <3>1 DEF IInv, FrameInv, FrameOf
      <3>4. CoverOf(e)'
        BY <3>3, NotForking DEF InFork, Stack
      <3>5. MapOf(e)'
        BY <1>1, <1>2, <3>1, Going DEF MapOf
      <3>6. Aside(e, e)
        BY <3>1, <3>2 DEF Aside
      <3> QED  BY <1>1, <3>4, <3>5, <3>6, StepCovers
    <2> QED  BY <2>1, <2>2
  <1>8. CASE alloc_print(e)
    <2>1. CASE Resume(e) /\ UNCHANGED <<pt, pc, locals, history>>
      <3>1. Resume(e) /\ pt' = pt /\ UNCHANGED <<pc, child, addr, refused>>
        BY <2>1 DEF locals, history
      <3>2. Filled(e)' = Filled(e)
        BY <3>1, FilledStays
      <3> QED  BY <1>1, <3>1, <3>2, ResumesCovers
    <2>2. CASE Top(e).va + 1 \in VA /\ page_fault_handler(e, Top(e).va + 1, TRUE)
      BY <1>1, <2>2, FaultCovers
    <2> QED  BY <1>8, <2>1, <2>2 DEF alloc_print
  <1>9. CASE LostFetch(e)
    BY <1>1, <1>2, <1>9, FaultCovers DEF LostFetch
  <1> QED  BY <1>3, <1>4, <1>5, <1>6, <1>7, <1>8, <1>9 DEF Faulting

\* A step of the program itself: no fault is being handled.
LEMMA ProgramStepCovers ==
    ASSUME IInv, CoverInv, NEW e \in Env, Runs(e, pc[e]), utf' = utf, Aside(e, e), CoverOf(e)'
    PROVE  CoverInv'
  <1>1. env_status[e] = "RUNNABLE" /\ utf[e] = <<>>
    BY DEF Runs
  <1>2. MapOf(e)'
    BY <1>1 DEF MapOf
  <1> QED  BY <1>1, <1>2, StepCovers

\* The stack is there.
LEMMA StackFilled ==
    ASSUME IInv, NEW e \in Env, pt[e][USTACK].w
    PROVE  USTACK \in Filled(e)
  <1>1. USTACK \in VA /\ USTACK # PFTEMP /\ TypeOK
    BY Addresses DEF IInv
  <1>2. pt[e][USTACK] \in Entries
    BY <1>1 DEF TypeOK
  <1> QED  BY <1>1, <1>2, EntryPage DEF Filled, Present

LEMMA ForkCovers ==
    ASSUME IInv, CoverInv, NEW e \in Env, fork(e)
    PROVE  CoverInv'
  <1>1. Runs(e, pc[e]) /\ pc[e] = "run" /\ env_status[e] = "RUNNABLE" /\ pt[e][USTACK].w
    BY DEF fork, Runs
  <1>2. CASE Panics(e)
    BY <1>1, <1>2, PanicsCovers
  <1>3. CASE ~Panics(e)
    <2>1. /\ pt' = pt \/ Changes(e, UXSTACK, Fresh(page_alloc))
          /\ pc' = [pc EXCEPT ![e] = "exofork"] /\ utf' = utf /\ UNCHANGED <<child, addr, refused>>
      BY <1>3 DEF fork, Changes, Moves, locals
    <2>2. TypeOK /\ UXSTACK \in VA /\ USTACK \in VA /\ USTACK # UXSTACK
      BY Addresses DEF IInv
    <2>3. (\A f \in Env : f # e => pt'[f] = pt[f]) /\ pt'[e][USTACK] = pt[e][USTACK]
      BY <2>1, <2>2, Changed
    <2>4. pc'[e] = "exofork" /\ Aside(e, e)
      BY <2>1, <2>2, <2>3 DEF Aside, TypeOK
    <2>5. USTACK \in Filled(e)'
      BY <1>1, <2>3, StackFilled DEF Filled
    <2>6. CoverOf(e)'
      BY <2>4, <2>5 DEF CoverOf, InFork, Stack
    <2> QED  BY <1>1, <2>1, <2>4, <2>6, ProgramStepCovers
  <1> QED  BY <1>2, <1>3

LEMMA ProgramCovers ==
    ASSUME IInv, CoverInv, NEW e \in Env, Program(e)
    PROVE  CoverInv'
  <1>1. CASE fork(e)
    BY <1>1, ForkCovers
  <1>2. CASE Exit(e)
    BY <1>2, DiesCovers DEF Exit, Runs
  <1>3. CASE set_alloc_handler(e)
    <2>1. Runs(e, pc[e]) /\ pc[e] = "run" /\ env_status[e] = "RUNNABLE"
      BY <1>3 DEF set_alloc_handler, Runs
    <2>2. CASE Panics(e)
      BY <2>1, <2>2, PanicsCovers
    <2>3. CASE ~Panics(e)
      <3>1. Changes(e, UXSTACK, Fresh(page_alloc)) /\ UNCHANGED <<pc, utf, child, addr, refused>>
        BY <1>3, <2>3 DEF set_alloc_handler, Changes, locals
      <3>2. TypeOK /\ UXSTACK \in VA
        BY Addresses DEF IInv
      <3>3. \A f \in Env : f # e => pt'[f] = pt[f]
        BY <3>1, <3>2, Changed
      <3>4. CoverOf(e)'
        BY <2>1, <3>1, NotForking DEF InFork, Stack
      <3>5. Aside(e, e)
        BY <3>1, <3>3 DEF Aside
      <3> QED  BY <2>1, <3>1, <3>4, <3>5, ProgramStepCovers
    <2> QED  BY <2>2, <2>3
  <1>4. ASSUME NEW va \in VA, ReadAbsent(e, va) \/ \E w \in Word : Write(e, va, w)
        PROVE  CoverInv'
    <2>1. Runs(e, pc[e]) /\ pc[e] = "run" /\ env_status[e] = "RUNNABLE" /\ utf[e] = <<>>
      BY <1>4 DEF ReadAbsent, Write, Runs
    <2>2. CASE page_fault_handler(e, va, TRUE) \/ page_fault_handler(e, va, FALSE)
      BY <2>1, <2>2, FaultCovers
    <2>3. CASE ~(page_fault_handler(e, va, TRUE) \/ page_fault_handler(e, va, FALSE))
      <3>1. UNCHANGED <<pt, pc, utf, child, addr, refused>>
        BY <1>4, <2>3 DEF ReadAbsent, Write, locals
      <3>2. CoverOf(e)'
        BY <2>1, <3>1, NotForking DEF InFork, Stack
      <3>3. Aside(e, e)
        BY <3>1 DEF Aside
      <3> QED  BY <2>1, <3>1, <3>2, <3>3, ProgramStepCovers
    <2> QED  BY <2>2, <2>3
  <1>5. Touched \subseteq VA /\ Holes \subseteq VA
    BY ForkAssumption
  <1>6. CASE \E va \in Touched \cup (IF handler[e] = "alloc" THEN Holes ELSE {}) :
                    ReadAbsent(e, va) \/ \E w \in Word : Write(e, va, w)
    BY <1>4, <1>5, <1>6
  <1> QED  BY <1>1, <1>2, <1>3, <1>6 DEF Program

LEMMA ExoforkCovers ==
    ASSUME IInv, CoverInv, NEW e \in Env, sys_exofork(e)
    PROVE  CoverInv'
  <1>1. Runs(e, pc[e]) /\ pc[e] = "exofork" /\ env_status[e] = "RUNNABLE" /\ utf[e] = <<>>
    BY DEF sys_exofork, Runs
  <1>2. CASE Panics(e)
    BY <1>1, <1>2, PanicsCovers
  <1>3. CASE ~Panics(e)
    <2>1. PICK f \in Env : /\ env_status[f] = "FREE" /\ pc' = [pc EXCEPT ![f] = "child", ![e] = "scan"]
             /\ child' = [child EXCEPT ![e] = f] /\ addr' = [addr EXCEPT ![e] = USTACK]
             /\ refused' = [refused EXCEPT ![f] = {}] /\ UNCHANGED <<pt, utf>>
      BY <1>3 DEF sys_exofork
    <2>2. e # f /\ TypeOK /\ utf[f] = <<>>
      BY <1>1, <2>1 DEF IInv, FamilyInv
    <2>3. pc'[e] = "scan" /\ pc'[f] = "child" /\ addr'[e] = USTACK /\ utf'[f] = <<>> /\ utf'[e] = <<>>
      BY <1>1, <2>1, <2>2 DEF TypeOK
    <2>4. Aside(e, f)
      BY <2>1, <2>2 DEF Aside, TypeOK
    <2>5. USTACK \in Filled(e) /\ Filled(e)' = Filled(e)
      BY <1>1, <2>1, FilledStays DEF CoverInv, CoverOf
    <2>6. Hole(Filled(e), USTACK)
      BY <2>5 DEF Hole, TableHole, DirectoryHole, Void, Table, Directory
    <2>7. ASSUME NEW P, NEW Q, NEW R PROVE Covers(P, Q, R, USTACK) \/ ~(P \subseteq Nat)
      <3>1. USTACK \in Nat
        BY Addresses
      <3> QED  BY <3>1 DEF Covers
    <2>8. Filled(e) \subseteq Nat
      BY FilledPages
    <2>9. Scanned(e, USTACK)'
      BY <2>5, <2>7, <2>8 DEF Scanned
    <2>10. CoverOf(e)'
      <3>1. (USTACK \in Filled(e))' /\ Hole(Filled(e), addr[e])' /\ Scanned(e, addr[e])'
        BY <2>3, <2>5, <2>6, <2>9
      <3> QED  BY <2>3, <3>1 DEF CoverOf, Stack
    <2>11. MapOf(e)'
      BY <2>3 DEF MapOf
    <2> QED  BY <1>1, <2>1, <2>3, <2>4, <2>10, <2>11, StepCovers
  <1> QED  BY <1>2, <1>3

\* What the loop has seen it has still seen one address further down.
LEMMA ScanOver ==
    ASSUME NEW P \in SUBSET Nat, NEW Q, NEW R, NEW a \in Int, NEW b \in Int, Covers(P, Q, R, a),
           \A va \in P : UTEXT <= va /\ b < va /\ va <= a => va \in Q \/ va \in R \/ Lost(P, va)
    PROVE  Covers(P, Q, R, b)
  <1> SUFFICES ASSUME NEW va \in P, UTEXT <= va, b < va, va <= USTACK
               PROVE  va \in Q \/ va \in R \/ Lost(P, va)
    BY DEF Covers
  <1>1. va \in Nat
    OBVIOUS
  <1>2. CASE va <= a
    BY <1>2
  <1>3. CASE a < va
    BY <1>3 DEF Covers
  <1> QED  BY <1>1, <1>2, <1>3

\* A round of the loop at an address where nothing is mapped.
LEMMA SkipCovers ==
    ASSUME IInv, NEW e \in Env, pt[e][PFTEMP] = Absent, USTACK \in Filled(e),
           NEW a \in Int, UTEXT <= a, a <= USTACK, a \notin Filled(e), Hole(Filled(e), a), Scanned(e, a)
    PROVE  LET b == a - Skip(e, a)
           IN  b \in Int /\ b < a /\ Scanned(e, b) /\ (UTEXT <= b => Hole(Filled(e), b))
  <1> DEFINE P == Filled(e)
             b == a - Skip(e, a)
  <1>1. /\ NPDENTRIES \in Nat \ {0} /\ NPDENTRIES * NPDENTRIES \in Nat \ {0} /\ UTEXT \in Nat /\ USTACK \in Nat
        /\ P \in SUBSET Nat /\ a \in Nat
    <2>1. UTEXT \in Nat /\ USTACK \in Nat
      BY Addresses
    <2>2. a \in Nat
      BY <2>1
    <2> QED  BY <2>1, <2>2, EntriesPositive, FilledPages
  <1>2. \A va \in VA : Present(pt[e][va]) <=> va \in P
    BY DEF Filled, Present
  <1>3. uvpd(e, a) <=> ~Void(P, NPDENTRIES, Table(a))
    <2>1. \A va \in P : va \in VA
      BY DEF Filled
    <2> HIDE DEF P
    <2> QED  BY <1>2, <2>1 DEF uvpd, Void, Table
  <1>4. uvpde(e, a) <=> ~Void(P, NPDENTRIES * NPDENTRIES, Directory(a))
    <2>1. \A va \in P : va \in VA
      BY DEF Filled
    <2> HIDE DEF P
    <2> QED  BY <1>2, <2>1 DEF uvpde, Void, Directory
  <1>5. /\ Void(P, NPDENTRIES * NPDENTRIES, Directory(a)) => Void(P, NPDENTRIES, Table(a))
        /\ USTACK \in P /\ a \notin P
    BY <1>1, VoidIsBelow
  <1>6. ASSUME NEW c \in Int, \A va \in P : c < va /\ va < a => Lost(P, va)
        PROVE  Scanned(e, c)
    <2>1. Covers(P, Filled(child[e]), refused[child[e]], a)
      BY DEF Scanned
    <2>2. ASSUME NEW va \in P, c < va, va <= a PROVE Lost(P, va)
      <3>1. va # a /\ va \in Nat
        BY <1>1, <1>5
      <3>2. va < a
        BY <1>1, <2>2, <3>1
      <3> QED  BY <1>6, <2>2, <3>2
    <2>3. Covers(P, Filled(child[e]), refused[child[e]], c)
      <3> HIDE DEF P
      <3> QED  BY <1>1, <2>1, <2>2, ScanOver
    <2> QED  BY <2>3 DEF Scanned
  <1>7. TableHole(P, a) /\ DirectoryHole(P, a)
    BY DEF Hole
  <1>8. CASE ~uvpde(e, a)
    <2>1. Skip(e, a) = NPDENTRIES * NPDENTRIES + 1
      BY <1>8 DEF Skip
    <2>2. b = a - NPDENTRIES * NPDENTRIES - 1 /\ b \in Int /\ b < a
      <3> DEFINE q == NPDENTRIES * NPDENTRIES
      <3>1. q \in Nat \ {0} /\ Skip(e, a) = q + 1
        BY <1>1, <2>1
      <3> HIDE DEF q
      <3>2. b = a - q - 1 /\ b \in Int /\ b < a
        BY <3>1
      <3> QED  BY <3>2 DEF q
    <2>3. Void(P, NPDENTRIES * NPDENTRIES, Directory(a))
      BY <1>4, <1>8
    <2> HIDE DEF P, b
    <2>4. ASSUME NEW va \in P, b < va, va < a PROVE Lost(P, va)
      BY <1>1, <1>5, <1>7, <2>2, <2>3, <2>4, SkippedByDirectory
    <2>5. Scanned(e, b)
      BY <1>6, <2>2, <2>4
    <2>6. ASSUME UTEXT <= b PROVE Hole(P, b)
      <3>1. b \in Nat
        BY <1>1, <2>2, <2>6
      <3>2. a - NPDENTRIES * NPDENTRIES - 1 \in Nat
        BY <2>2, <3>1
      <3>3. Hole(P, a - NPDENTRIES * NPDENTRIES - 1)
        BY <1>1, <1>5, <1>7, <2>3, <3>2, StepDirectory
      <3> QED  BY <2>2, <3>3
    <2> QED  BY <2>2, <2>5, <2>6 DEF P, b
  <1>9. CASE uvpde(e, a) /\ ~uvpd(e, a)
    <2>1. Skip(e, a) = NPDENTRIES + 1
      BY <1>9 DEF Skip
    <2>2. b = a - NPDENTRIES - 1 /\ b \in Int /\ b < a
      BY <1>1, <2>1
    <2>3. ~Void(P, NPDENTRIES * NPDENTRIES, Directory(a)) /\ Void(P, NPDENTRIES, Table(a))
      BY <1>3, <1>4, <1>9
    <2> HIDE DEF P, b
    <2>4. ASSUME NEW va \in P, b < va, va < a PROVE Lost(P, va)
      BY <1>1, <1>5, <1>7, <2>2, <2>3, <2>4, SkippedByTable
    <2>5. Scanned(e, b)
      BY <1>6, <2>2, <2>4
    <2>6. ASSUME UTEXT <= b PROVE Hole(P, b)
      <3>1. b \in Nat
        BY <1>1, <2>2, <2>6
      <3>2. a - NPDENTRIES - 1 \in Nat
        BY <2>2, <3>1
      <3>3. Hole(P, a - NPDENTRIES - 1)
        BY <1>1, <1>5, <1>7, <2>3, <3>2, StepTable
      <3> QED  BY <2>2, <3>3
    <2> QED  BY <2>2, <2>5, <2>6 DEF P, b
  <1>10. CASE uvpde(e, a) /\ uvpd(e, a)
    <2>1. Skip(e, a) = 1
      BY <1>10 DEF Skip
    <2>2. b = a - 1 /\ b \in Int /\ b < a
      BY <1>1, <2>1
    <2>3. ~Void(P, NPDENTRIES, Table(a))
      BY <1>3, <1>10
    <2> HIDE DEF P, b
    <2>4. ASSUME NEW va \in P, b < va, va < a PROVE Lost(P, va)
      <3>1. va \in Nat
        BY <1>1
      <3> QED  BY <1>1, <2>2, <2>4, <3>1
    <2>5. Scanned(e, b)
      BY <1>6, <2>2, <2>4
    <2>6. ASSUME UTEXT <= b PROVE Hole(P, b)
      <3>1. a - 1 \in Nat
        BY <1>1, <2>2, <2>6
      <3>2. Hole(P, a - 1)
        BY <1>1, <2>3, <3>1, StepOne
      <3> QED  BY <2>2, <3>2
    <2> QED  BY <2>2, <2>5, <2>6 DEF P, b
  <1> QED  BY <1>8, <1>9, <1>10

\* One page below a page that is mapped.
LEMMA BelowMapped ==
    ASSUME NEW P \in SUBSET Nat, NEW a \in P, UTEXT <= a - 1
    PROVE  Hole(P, a - 1)
  <1>1. a \in Nat /\ UTEXT \in Nat
    BY Addresses
  <1>2. a - 1 \in Nat
    BY <1>1
  <1>3. ~Void(P, NPDENTRIES, Table(a))
    BY DEF Void, Table
  <1> QED  BY <1>1, <1>2, <1>3, StepOne

LEMMA ForkScanCovers ==
    ASSUME IInv, CoverInv, NEW e \in Env, fork_scan(e)
    PROVE  CoverInv'
  <1> DEFINE a == addr[e]
             P == Filled(e)
  <1>1. Runs(e, pc[e]) /\ pc[e] = "scan" /\ env_status[e] = "RUNNABLE" /\ utf[e] = <<>>
    BY DEF fork_scan, Runs
  <1>2. /\ pt' = pt /\ utf' = utf /\ child' = child /\ refused' = refused
        /\ \A f \in Env : f # e => pc'[f] = pc[f] /\ addr'[f] = addr[f]
    BY DEF fork_scan, Moves, locals, history, IInv, TypeOK
  <1>3. Aside(e, e)
    BY <1>2 DEF Aside
  <1>4. a \in Int /\ UTEXT \in Nat /\ USTACK \in Nat /\ P \in SUBSET Nat
    BY Addresses, FilledPages DEF IInv, TypeOK
  <1>5. /\ USTACK \in P /\ (UTEXT <= a => Hole(P, a)) /\ Scanned(e, a)
    BY <1>1 DEF CoverInv, CoverOf, InFork
  <1>6. /\ Filled(e)' = P
        /\ \A c : Scanned(e, c) => Scanned(e, c)'
    <2>1. \A f : Filled(f)' = Filled(f)
      BY <1>2, FilledStays
    <2>2. PICK d : d = child[e]
      OBVIOUS
    <2>3. d = child'[e] /\ Filled(d)' = Filled(d)
      BY <1>2, <2>1, <2>2
    <2>4. ASSUME NEW c, Scanned(e, c) PROVE Scanned(e, c)'
      BY <1>2, <2>1, <2>2, <2>3, <2>4 DEF Scanned
    <2> QED  BY <2>1, <2>4
  <1>7. pt[e][PFTEMP] = Absent /\ a <= USTACK
    BY <1>1, InProgram DEF IInv, DupInv, DupOf, InFork
  <1>8. CoverOf(e)'
    <2>1. CASE a < UTEXT /\ Moves(e, "uxstack")
      <3>1. pc'[e] = "uxstack"
        BY <2>1 DEF Moves, IInv, TypeOK
      <3>2. Covers(P, Filled(child[e]), refused[child[e]], a)
        BY <1>5 DEF Scanned
      <3>3. Covers(P, Filled(child[e]), refused[child[e]], UTEXT - 1)
        <4>1. \A va \in P : UTEXT <= va => a < va
          BY <1>4, <2>1
        <4> HIDE DEF P, a
        <4> QED  BY <3>2, <4>1 DEF Covers
      <3>4. Scanned(e, UTEXT - 1)'
        BY <1>6, <3>3 DEF Scanned
      <3>5. (USTACK \in Filled(e))'
        BY <1>5, <1>6
      <3> QED  BY <3>1, <3>4, <3>5 DEF CoverOf
    <2>2. CASE /\ a >= UTEXT /\ ~(a \in VA /\ Present(pt[e][a]))
               /\ addr' = [addr EXCEPT ![e] = a - Skip(e, a)] /\ pc' = pc
      <3> DEFINE b == a - Skip(e, a)
      <3>1. pc'[e] = "scan" /\ addr'[e] = b
        BY <1>1, <2>2 DEF IInv, TypeOK
      <3>2. UTEXT <= a /\ a \notin Filled(e) /\ Hole(Filled(e), a)
        BY <1>4, <1>5, <2>2 DEF Filled
      <3>3. b \in Int /\ b < a /\ Scanned(e, b) /\ (UTEXT <= b => Hole(Filled(e), b))
        <4> HIDE DEF a
        <4> QED  BY <1>4, <1>5, <1>7, <3>2, SkipCovers
      <3> HIDE DEF b
      <3>4. Scanned(e, addr[e])' /\ (UTEXT <= addr'[e] => Hole(Filled(e), addr[e])')
        BY <1>6, <3>1, <3>3
      <3>5. (USTACK \in Filled(e))'
        BY <1>5, <1>6
      <3> QED  BY <3>1, <3>4, <3>5 DEF CoverOf, Stack
    <2>3. CASE a >= UTEXT /\ addr' = addr /\ Moves(e, "dup child")
      <3>1. pc'[e] = "dup child" /\ addr'[e] = addr[e]
        BY <2>3 DEF Moves, IInv, TypeOK
      <3>2. UTEXT <= a
        BY <1>4, <2>3
      <3>3. Scanned(e, addr[e])' /\ Hole(Filled(e), addr[e])'
        BY <1>5, <1>6, <3>1, <3>2
      <3>4. (USTACK \in Filled(e))'
        BY <1>5, <1>6
      <3> QED  BY <3>1, <3>3, <3>4 DEF CoverOf, Stack
    <2> QED  BY <2>1, <2>2, <2>3 DEF fork_scan, locals
  <1> QED  BY <1>1, <1>2, <1>3, <1>8, ProgramStepCovers

\* The child of a program that forks.
LEMMA NewChild ==
    ASSUME IInv, NEW e \in Env, Runs(e, pc[e]), pc[e] \in InFork
    PROVE  /\ env_status[e] = "RUNNABLE" /\ utf[e] = <<>> /\ child[e] \in Env /\ child[e] # e
           /\ pc[child[e]] = "child" /\ utf[child[e]] = <<>>
  BY InProgram

\* A step of fork() in which the child may get pages.
LEMMA GivesCovers ==
    ASSUME IInv, CoverInv, NEW e \in Env, Runs(e, pc[e]), pc[e] \in InFork, NEW c \in Env, c = child[e],
           utf' = utf, child' = child, \A f \in Env : f # e => pc'[f] = pc[f] /\ addr'[f] = addr[f],
           \A f \in Env \ {c} : refused'[f] = refused[f], \A f \in Env \ {e, c} : pt'[f] = pt[f],
           CoverOf(e)'
    PROVE  CoverInv'
  <1>1. env_status[e] = "RUNNABLE" /\ utf[e] = <<>> /\ c # e /\ pc'[c] = "child" /\ utf'[c] = <<>>
    BY NewChild
  <1>2. Aside(e, c)
    BY DEF Aside
  <1>3. MapOf(e)'
    BY <1>1 DEF MapOf
  <1> QED  BY <1>1, <1>2, <1>3, StepCovers

\* After the loop: the child keeps what it has.
LEMMA AfterLoop ==
    ASSUME IInv, CoverInv, NEW e \in Env, pc[e] \in {"uxstack"} \cup Stack, NEW c \in Env, c = child[e], child' = child,
           Filled(e)' = Filled(e), Filled(c) \subseteq Filled(c)', refused' = refused,
           pc'[e] \in Stack
    PROVE  CoverOf(e)'
  <1>1. Covers(Filled(e), Filled(c), refused[c], UTEXT - 1) /\ USTACK \in Filled(e)
    BY DEF CoverInv, CoverOf, InFork, Scanned
  <1>2. Covers(Filled(e), Filled(c)', refused'[c], UTEXT - 1)
    BY <1>1, CoversMore
  <1>3. Scanned(e, UTEXT - 1)'
    <2>1. Scanned(e, UTEXT - 1)' <=> Covers(Filled(e)', Filled(c)', refused'[c], UTEXT - 1)
      BY DEF Scanned
    <2> QED  BY <1>2, <2>1
  <1>4. (USTACK \in Filled(e))'
    BY <1>1
  <1> QED  BY <1>3, <1>4 DEF CoverOf, Stack

LEMMA AllocForChildCovers ==
    ASSUME IInv, CoverInv, NEW e \in Env, NEW place \in {"uxstack", "stack"}, NEW va \in {UXSTACK, USTACK},
           NEW after \in {"stack", "temp"}, AllocForChild(e, place, va, after)
    PROVE  CoverInv'
  <1>1. Runs(e, pc[e]) /\ pc[e] = place /\ pc[e] \in InFork /\ pc[e] \in {"uxstack"} \cup Stack
    BY DEF AllocForChild, Calls, Runs, InFork, Stack
  <1>2. PICK c \in Env : c = child[e] /\ c # e
    BY <1>1, NewChild
  <1>3. /\ pt' = pt \/ (FreePages # {} /\ Changes(c, va, Fresh(page_alloc)))
        /\ pc' = [pc EXCEPT ![e] = after] /\ UNCHANGED <<utf, child, addr, refused>>
    BY <1>2 DEF AllocForChild, Changes, Moves, locals
  <1>4. TypeOK /\ va \in VA
    BY Addresses DEF IInv
  <1>5. Filled(e)' = Filled(e) /\ Filled(c) \subseteq Filled(c)' /\ \A f \in Env \ {e, c} : pt'[f] = pt[f]
    <2>1. CASE pt' = pt
      BY <2>1, FilledStays
    <2>2. CASE FreePages # {} /\ Changes(c, va, Fresh(page_alloc))
      <3>1. Present(Fresh(page_alloc))
        BY <2>2, Allocated DEF Present, Fresh, Absent
      <3> QED  BY <1>2, <1>4, <2>2, <3>1, FilledGrows, Changed
    <2> QED  BY <1>3, <2>1, <2>2
  <1>6. pc'[e] \in Stack /\ \A f \in Env : f # e => pc'[f] = pc[f]
    BY <1>3, <1>4 DEF TypeOK, Stack
  <1>7. CoverOf(e)'
    BY <1>1, <1>2, <1>3, <1>5, <1>6, AfterLoop
  <1> QED  BY <1>1, <1>2, <1>3, <1>5, <1>6, <1>7, GivesCovers

\* The steps of fork() after the loop that touch no page but PFTEMP.
LEMMA LateCovers ==
    ASSUME IInv, CoverInv, NEW e \in Env, Runs(e, pc[e]), pc[e] \in Stack,
           NEW y, pt' = pt \/ Changes(e, PFTEMP, y), NEW after \in Stack, Moves(e, after),
           UNCHANGED <<utf, child, addr, refused>>
    PROVE  CoverInv'
  <1>1. pc[e] \in InFork /\ pc[e] \in {"uxstack"} \cup Stack
    BY DEF InFork
  <1>2. PICK c \in Env : c = child[e] /\ c # e
    BY <1>1, NewChild
  <1>3. TypeOK /\ PFTEMP \in VA
    BY Addresses DEF IInv
  <1>4. (\A f \in Env : Filled(f)' = Filled(f)) /\ \A f \in Env \ {e, c} : pt'[f] = pt[f]
    BY <1>3, FilledStays, FilledSame, Changed
  <1>5. pc'[e] = after /\ \A f \in Env : f # e => pc'[f] = pc[f]
    BY <1>3 DEF TypeOK, Moves
  <1>6. CoverOf(e)'
    BY <1>1, <1>2, <1>4, <1>5, AfterLoop
  <1> QED  BY <1>1, <1>2, <1>4, <1>5, <1>6, GivesCovers

\* What duppage() maps is a page.
LEMMA CowPresent ==
    ASSUME NEW p, NEW x, x # 0
    PROVE  Present(Cow(p, x))
  BY DEF Cow, Present, Absent

LEMMA DuppageChildCovers ==
    ASSUME IInv, CoverInv, NEW e \in Env, duppage_child(e)
    PROVE  CoverInv'
  <1> DEFINE a == addr[e]
             P == Filled(e)
             want == Cow(perm[e], pt[e][a].page)
  <1>1. Runs(e, pc[e]) /\ pc[e] = "dup child" /\ pc[e] \in InFork
    BY DEF duppage_child, Calls, Runs, InFork
  <1>2. PICK c \in Env : c = child[e] /\ c # e
    BY <1>1, NewChild
  <1>3. /\ a \in VA /\ a # PFTEMP /\ Present(pt[e][a]) /\ UTEXT <= a /\ a \in P /\ TypeOK /\ a \in Int
        /\ pt[e][a].page # 0
    <2>1. a \in VA /\ a # PFTEMP /\ Present(pt[e][a]) /\ a \in Int /\ TypeOK
      BY <1>1, InDuppage DEF IInv
    <2>2. UTEXT <= a
      BY <1>1 DEF IInv, DupInv, DupOf
    <2>3. pt[e][a].page # 0
      BY <2>1, PageOf
    <2> QED  BY <2>1, <2>2, <2>3 DEF Filled
  <1>4. /\ utf' = utf /\ child' = child
        /\ \/ pc' = [pc EXCEPT ![e] = "dup self"] /\ addr'[e] = a
           \/ pc' = [pc EXCEPT ![e] = "scan"] /\ addr'[e] = a - 1
        /\ \A f \in Env : f # e => addr'[f] = addr[f]
    BY DEF duppage_child, Moves, IInv, TypeOK
  <1>5. \/ Changes(c, a, want) /\ refused' = refused
        \/ refused' = [refused EXCEPT ![c] = @ \cup {a}] /\ pt' = pt
    BY <1>2 DEF duppage_child, Changes
  <1>6. /\ Filled(e)' = P /\ Filled(c) \subseteq Filled(c)' /\ refused[c] \subseteq refused'[c]
        /\ a \in Filled(c)' \/ a \in refused'[c]
        /\ \A f \in Env \ {c} : refused'[f] = refused[f] /\ pt'[f] = pt[f]
    <2>1. CASE Changes(c, a, want) /\ refused' = refused
      <3>1. Present(want)
        BY <1>3, CowPresent
      <3> HIDE DEF want
      <3> QED  BY <1>2, <1>3, <2>1, <3>1, FilledGrows, Changed
    <2>2. CASE refused' = [refused EXCEPT ![c] = @ \cup {a}] /\ pt' = pt
      <3>1. refused'[c] = refused[c] \cup {a} /\ \A f \in Env \ {c} : refused'[f] = refused[f]
        BY <1>3, <2>2 DEF TypeOK
      <3> HIDE DEF a
      <3> QED  BY <2>2, <3>1, FilledStays
    <2> QED  BY <1>5, <2>1, <2>2
  <1>7. USTACK \in P /\ Hole(P, a) /\ Covers(P, Filled(c), refused[c], a) /\ P \in SUBSET Nat
    BY <1>1, <1>2, <1>3, FilledPages DEF CoverInv, CoverOf, Scanned
  <1>8. Covers(P, Filled(c)', refused'[c], a - 1)
    <2>1. Covers(P, Filled(c)', refused'[c], a)
      BY <1>6, <1>7, CoversMore
    <2>2. \A va \in P : a - 1 < va /\ va <= a => va = a
      BY <1>3, <1>7
    <2>3. a - 1 \in Int
      BY <1>3
    <2>4. \A va \in P : UTEXT <= va /\ a - 1 < va /\ va <= a => va \in Filled(c)' \/ va \in refused'[c] \/ Lost(P, va)
      BY <1>6, <2>2
    <2> HIDE DEF P, a
    <2> QED  BY <1>3, <1>7, <2>1, <2>3, <2>4, ScanOver
  <1>9. (USTACK \in Filled(e))' /\ \A d : Covers(P, Filled(c)', refused'[c], d) => Scanned(e, d)'
    BY <1>2, <1>4, <1>6, <1>7 DEF Scanned
  <1>10. CoverOf(e)'
    <2>1. CASE pc' = [pc EXCEPT ![e] = "dup self"] /\ addr'[e] = a
      <3>1. pc'[e] = "dup self" /\ addr'[e] = a
        BY <1>3, <2>1 DEF TypeOK
      <3>2. Hole(Filled(e), addr[e])' /\ Scanned(e, addr[e] - 1)'
        <4>1. PICK b : b = a - 1
          OBVIOUS
        <4>2. Scanned(e, b)' /\ b = addr'[e] - 1
          BY <1>8, <1>9, <3>1, <4>1
        <4> QED  BY <1>6, <1>7, <3>1, <4>2
      <3> QED  BY <1>9, <3>1, <3>2 DEF CoverOf, Stack
    <2>2. CASE pc' = [pc EXCEPT ![e] = "scan"] /\ addr'[e] = a - 1
      <3>1. pc'[e] = "scan" /\ addr'[e] = a - 1
        BY <1>3, <2>2 DEF TypeOK
      <3>2. UTEXT <= a - 1 => Hole(P, a - 1)
        <4> HIDE DEF P, a
        <4> QED  BY <1>3, <1>7, BelowMapped
      <3>3. (UTEXT <= addr[e])' => Hole(Filled(e), addr[e])'
        BY <1>6, <3>1, <3>2
      <3>4. Scanned(e, addr[e])'
        BY <1>8, <1>9, <3>1
      <3> QED  BY <1>9, <3>1, <3>3, <3>4 DEF CoverOf, Stack
    <2> QED  BY <1>4, <2>1, <2>2
  <1>11. \A f \in Env : f # e => pc'[f] = pc[f]
    BY <1>3, <1>4 DEF TypeOK
  <1> QED  BY <1>1, <1>2, <1>4, <1>6, <1>10, <1>11, GivesCovers

LEMMA DuppageSelfCovers ==
    ASSUME IInv, CoverInv, NEW e \in Env, duppage_self(e)
    PROVE  CoverInv'
  <1> DEFINE a == addr[e]
             P == Filled(e)
             y == Cow(perm[e], pt[e][a].page)
  <1>1. Runs(e, pc[e]) /\ pc[e] = "dup self" /\ pc[e] \in InFork
    BY DEF duppage_self, Calls, Runs, InFork
  <1>2. PICK c \in Env : c = child[e] /\ c # e
    BY <1>1, NewChild
  <1>3. a \in VA /\ a # PFTEMP /\ Present(pt[e][a]) /\ a \in P /\ TypeOK /\ a \in Int /\ Present(y)
    <2>1. a \in VA /\ a # PFTEMP /\ Present(pt[e][a]) /\ a \in Int /\ TypeOK
      BY <1>1, InDuppage DEF IInv
    <2>2. pt[e][a].page # 0
      BY <2>1, PageOf
    <2> QED  BY <2>1, <2>2, CowPresent DEF Filled
  <1>4. /\ UNCHANGED <<utf, child, refused>> /\ Changes(e, a, y)
        /\ pc'[e] = "scan" /\ addr'[e] = a - 1
        /\ \A f \in Env : f # e => addr'[f] = addr[f] /\ pc'[f] = pc[f]
    <2>1. /\ UNCHANGED <<utf, child, refused>> /\ Changes(e, a, y)
          /\ pc' = [pc EXCEPT ![e] = "scan"] /\ addr' = [addr EXCEPT ![e] = a - 1]
      BY DEF duppage_self, Moves, Changes
    <2> QED  BY <1>3, <2>1 DEF TypeOK
  <1>5. (\A f \in Env : Filled(f)' = Filled(f)) /\ \A f \in Env \ {e, c} : pt'[f] = pt[f]
    <2> HIDE DEF y
    <2> QED  BY <1>3, <1>4, FilledSame, Changed
  <1>6. USTACK \in P /\ Scanned(e, a - 1) /\ P \in SUBSET Nat
    BY <1>1, FilledPages DEF CoverInv, CoverOf
  <1>7. PICK b : b = a - 1
    OBVIOUS
  <1>8. Scanned(e, b)'
    <2>1. Covers(P, Filled(c), refused[c], b)
      BY <1>2, <1>6, <1>7 DEF Scanned
    <2>2. Covers(Filled(e)', Filled(c)', refused'[c], b)
      BY <1>4, <1>5, <2>1
    <2>3. c = child'[e]
      BY <1>2, <1>4
    <2> QED  BY <2>2, <2>3 DEF Scanned
  <1>9. UTEXT <= a - 1 => Hole(P, a - 1)
    <2> HIDE DEF P, a
    <2> QED  BY <1>3, <1>6, BelowMapped
  <1>10. CoverOf(e)'
    <2>1. (UTEXT <= addr[e])' => Hole(Filled(e), addr[e])'
      BY <1>4, <1>5, <1>9
    <2>2. Scanned(e, addr[e])'
      BY <1>4, <1>7, <1>8
    <2>3. (USTACK \in Filled(e))'
      BY <1>5, <1>6
    <2> QED  BY <1>4, <2>1, <2>2, <2>3 DEF CoverOf, Stack
  <1> QED  BY <1>1, <1>2, <1>4, <1>5, <1>10, GivesCovers

LEMMA ForkStatusCovers ==
    ASSUME IInv, CoverInv, NEW e \in Env, fork_status(e)
    PROVE  CoverInv'
  <1>1. Runs(e, pc[e]) /\ pc[e] = "set status" /\ pc[e] \in InFork
    BY DEF fork_status, Calls, Runs, InFork, Stack
  <1>2. PICK c \in Env : c = child[e] /\ c # e
    BY <1>1, NewChild
  <1>3. /\ pc' = [pc EXCEPT ![e] = "run"] /\ child' = [child EXCEPT ![e] = e] /\ addr' = [addr EXCEPT ![e] = 0]
        /\ UNCHANGED <<pt, utf, refused>> /\ TypeOK
    BY DEF fork_status, IInv
  <1>4. env_status[e] = "RUNNABLE" /\ utf[e] = <<>> /\ pc'[c] = "child" /\ utf'[c] = <<>> /\ pc'[e] = "run"
    BY <1>1, <1>2, <1>3, NewChild DEF TypeOK
  <1>5. Aside(e, c)
    BY <1>3 DEF Aside, TypeOK
  <1>6. CoverOf(e)'
    BY <1>4, NotForking DEF InFork, Stack
  <1>7. MapOf(e)'
    BY <1>3, <1>4 DEF MapOf
  <1> QED  BY <1>2, <1>4, <1>5, <1>6, <1>7, StepCovers

LEMMA ForkChildCovers ==
    ASSUME IInv, CoverInv, NEW e \in Env, fork_child(e)
    PROVE  CoverInv'
  <1>1. Runs(e, pc[e]) /\ pc[e] = "child" /\ env_status[e] = "RUNNABLE" /\ DATA \in VA
    BY Addresses DEF fork_child, Calls, Runs
  <1>2. CASE page_fault_handler(e, DATA, TRUE)
    BY <1>1, <1>2, FaultCovers
  <1>3. CASE ~page_fault_handler(e, DATA, TRUE)
    <2>1. pc' = [pc EXCEPT ![e] = "run"] /\ UNCHANGED <<pt, utf, child, addr, refused>> /\ TypeOK
      BY <1>3 DEF fork_child, Moves, locals, IInv
    <2>2. pc'[e] = "run" /\ Aside(e, e)
      BY <2>1 DEF TypeOK, Aside
    <2>3. CoverOf(e)'
      BY <2>2, NotForking DEF InFork, Stack
    <2> QED  BY <1>1, <2>1, <2>2, <2>3, ProgramStepCovers
  <1> QED  BY <1>2, <1>3

LEMMA ForkingCovers ==
    ASSUME IInv, CoverInv, NEW e \in Env, Forking(e)
    PROVE  CoverInv'
  <1>0. USTACK \in VA /\ UTEXT \in VA /\ PFTEMP \in VA
    BY Addresses
  <1>1. CASE PushFaults(e)
    BY <1>0, <1>1, FaultCovers DEF PushFaults, Runs
  <1>2. CASE FetchAbsent(e)
    BY <1>0, <1>2, FaultCovers DEF FetchAbsent
  <1>3. CASE sys_exofork(e)
    BY <1>3, ExoforkCovers
  <1>4. CASE fork_scan(e)
    BY <1>4, ForkScanCovers
  <1>5. CASE duppage_child(e)
    BY <1>5, DuppageChildCovers
  <1>6. CASE duppage_self(e)
    BY <1>6, DuppageSelfCovers
  <1>7. CASE fork_uxstack(e) \/ fork_stack(e)
    BY <1>7, AllocForChildCovers DEF fork_uxstack, fork_stack
  <1>8. CASE fork_temp(e)
    <2>1. /\ Runs(e, pc[e]) /\ pc[e] \in Stack /\ Moves(e, "memmove") /\ UNCHANGED <<utf, child, addr, refused>>
          /\ pt' = pt \/ Changes(e, PFTEMP, Fresh(pt[child[e]][USTACK].page))
      BY <1>8 DEF fork_temp, Calls, Runs, Stack, locals, Changes
    <2> QED  BY <2>1, LateCovers DEF Stack
  <1>9. CASE fork_memmove(e)
    <2>1. Runs(e, pc[e]) /\ pc[e] \in Stack /\ env_status[e] = "RUNNABLE"
      BY <1>9 DEF fork_memmove, Runs, Stack
    <2>2. CASE page_fault_handler(e, USTACK, TRUE) \/ page_fault_handler(e, PFTEMP, TRUE)
      BY <1>0, <2>1, <2>2, FaultCovers
    <2>3. CASE ~(page_fault_handler(e, USTACK, TRUE) \/ page_fault_handler(e, PFTEMP, TRUE))
      <3>1. Moves(e, "untemp") /\ UNCHANGED <<pt, utf, child, addr, refused>>
        BY <1>9, <2>3 DEF fork_memmove, locals
      <3> QED  BY <2>1, <3>1, LateCovers DEF Stack
    <2> QED  BY <2>2, <2>3
  <1>10. CASE fork_untemp(e)
    <2>1. /\ Runs(e, pc[e]) /\ pc[e] \in Stack /\ Moves(e, "set upcall") /\ UNCHANGED <<utf, child, addr, refused>>
          /\ Changes(e, PFTEMP, Absent)
      BY <1>10 DEF fork_untemp, Calls, Runs, Stack, locals, Changes
    <2> QED  BY <2>1, LateCovers DEF Stack
  <1>11. CASE fork_upcall(e)
    <2>1. Runs(e, pc[e]) /\ pc[e] \in Stack /\ Moves(e, "set status") /\ UNCHANGED <<pt, utf, child, addr, refused>>
      BY <1>11 DEF fork_upcall, Calls, Runs, Stack, locals
    <2> QED  BY <2>1, LateCovers DEF Stack
  <1>12. CASE fork_status(e)
    BY <1>12, ForkStatusCovers
  <1>13. CASE fork_child(e)
    BY <1>13, ForkChildCovers
  <1> QED  BY <1>1, <1>2, <1>3, <1>4, <1>5, <1>6, <1>7, <1>8, <1>9, <1>10, <1>11, <1>12, <1>13 DEF Forking

\* A block above va is empty if no page of the program but PFTEMP, which is below, is in it.
LEMMA VoidIsEmpty ==
    ASSUME NEW e \in Env, NEW n \in Nat \ {0}, NEW q \in Nat, NEW va \in VA, UTEXT <= va, va \div n < q,
           NEW b, b \div n = q
    PROVE  Void(Filled(e), n, q) <=> Empty(e, n, b)
  <1>1. PFTEMP \in Nat /\ UTEXT \in Nat /\ va \in Nat /\ PFTEMP < UTEXT
    BY Addresses, ForkAssumption
  <1>2. PFTEMP \div n <= va \div n /\ va \div n \in Nat /\ PFTEMP \div n \in Nat
    <2>1. PFTEMP <= va
      BY <1>1
    <2> QED  BY <1>1, <2>1, QuotientMonotone, Quotient
  <1>3. PFTEMP \div n # q
    BY <1>2
  <1> QED  BY <1>3 DEF Void, Empty, Filled

LEMMA AboveTemp ==
    ASSUME NEW va \in VA, UTEXT <= va
    PROVE  /\ va \in Nat /\ UTEXT \in Nat /\ va # PFTEMP /\ UTEXT - 1 < va
           /\ NPDENTRIES \in Nat \ {0} /\ NPDENTRIES * NPDENTRIES \in Nat \ {0}
  <1>1. va \in Nat /\ UTEXT \in Nat /\ PFTEMP \in Nat /\ PFTEMP < UTEXT
    BY Addresses, ForkAssumption
  <1>2. va # PFTEMP /\ UTEXT - 1 < va
    BY <1>1
  <1> QED  BY <1>1, <1>2, EntriesPositive

\* The missing tables are the gaps.
LEMMA MissingAreGaps ==
    ASSUME NEW e \in Env, NEW va \in VA, UTEXT <= va
    PROVE  Gaps(Filled(e), Table(va)) = Missing(e, va)
  <1>1. va \in Nat /\ NPDENTRIES \in Nat \ {0}
    BY AboveTemp
  <1>2. Table(va) \in Nat /\ Table(USTACK) \in Nat
    <2>1. Table(va) \in Nat
      BY <1>1, Quotient DEF Table
    <2> QED  BY <1>1, <2>1, GapsCounted
  <1>3. ASSUME NEW t \in (Table(va) + 1)..Table(USTACK)
        PROVE  Void(Filled(e), NPDENTRIES, t) <=> Empty(e, NPDENTRIES, t * NPDENTRIES)
    <2>1. t \in Nat /\ Table(va) < t
      BY <1>2
    <2>2. (t * NPDENTRIES) \div NPDENTRIES = t
      <3>1. NPDENTRIES * t + 0 = t * NPDENTRIES
        BY <1>1, <2>1, Z3T(30)
      <3>2. (NPDENTRIES * t + 0) \div NPDENTRIES = t
        BY <1>1, <2>1, QuotientIs
      <3> QED  BY <3>1, <3>2
    <2>3. va \div NPDENTRIES < t
      BY <2>1 DEF Table
    <2> QED  BY <1>1, <2>1, <2>2, <2>3, VoidIsEmpty
  <1> QED  BY <1>3 DEF Gaps, Missing

LEMMA NextBlock ==
    ASSUME NEW a \in Nat, NEW n \in Nat \ {0}
    PROVE  (a + n) \div n = (a \div n) + 1 /\ (a \div n) + 1 \in Nat /\ a \div n < (a \div n) + 1
  <1> DEFINE q == a \div n
             r == a % n
  <1>1. q \in Nat /\ r \in Nat /\ r < n /\ a = n * q + r
    BY Quotient
  <1> HIDE DEF q, r
  <1>2. n * (q + 1) + r = a + n
    <2>1. n * (q + 1) = n * q + n
      BY <1>1, Z3T(30)
    <2> QED  BY <1>1, <2>1, Z3T(30)
  <1>3. (n * (q + 1) + r) \div n = q + 1
    BY <1>1, QuotientIs
  <1>4. (a + n) \div n = q + 1
    BY <1>2, <1>3
  <1>5. q + 1 \in Nat /\ q < q + 1
    BY <1>1
  <1> QED  BY <1>4, <1>5 DEF q

LEMMA LostIsLast ==
    ASSUME NEW e \in Env, NEW va \in VA, UTEXT <= va, Lost(Filled(e), va)
    PROVE  \E n \in {NPDENTRIES, NPDENTRIES * NPDENTRIES} :
              Empty(e, n, va + n) /\ n - 1 - (va % n) < Cardinality(Missing(e, va))
  <1>1. PICK n \in {NPDENTRIES, NPDENTRIES * NPDENTRIES} :
           Void(Filled(e), n, (va \div n) + 1) /\ n - 1 - (va % n) < Cardinality(Gaps(Filled(e), Table(va)))
    BY DEF Lost
  <1>2. n \in Nat \ {0} /\ va \in Nat
    BY <1>1, AboveTemp
  <1>3. (va + n) \div n = (va \div n) + 1 /\ (va \div n) + 1 \in Nat /\ va \div n < (va \div n) + 1
    BY <1>2, NextBlock
  <1>4. Empty(e, n, va + n)
    BY <1>1, <1>2, <1>3, VoidIsEmpty
  <1> QED  BY <1>1, <1>4, MissingAreGaps

LEMMA LosesLast ==
    ASSUME TypeOK, CoverInv
    PROVE  LosesOnlyLastPages
  <1> SUFFICES ASSUME NEW e \in Env, pc[e] = "set status", NEW va \in VA, UTEXT <= va, va <= USTACK,
                      Present(pt[e][va]), ~Present(pt[child[e]][va])
               PROVE  \/ va \in refused[child[e]]
                      \/ \E n \in {NPDENTRIES, NPDENTRIES * NPDENTRIES} :
                            Empty(e, n, va + n) /\ n - 1 - (va % n) < Cardinality(Missing(e, va))
    BY DEF LosesOnlyLastPages
  <1>1. va \in Filled(e) /\ va \notin Filled(child[e]) /\ UTEXT - 1 < va
    BY AboveTemp DEF Filled
  <1>2. Scanned(e, UTEXT - 1)
    BY DEF CoverInv, CoverOf, Stack
  <1>3. va \in refused[child[e]] \/ Lost(Filled(e), va)
    BY <1>1, <1>2 DEF Scanned, Covers
  <1> QED  BY <1>3, LostIsLast

\* (lib/fork.c fork(): the loop over uvpde, uvpd and uvpt)
\* A child misses a page of its parent only if the kernel had no memory to map it or
\* if it is one of the last pages below a missing table or directory.
THEOREM ForkLosesLast == Spec => []LosesOnlyLastPages
  <1>1. Init => CoverInv
    <2> SUFFICES ASSUME Init, NEW e \in Env PROVE CoverOf(e) /\ MapOf(e)
      BY DEF CoverInv
    <2>1. pc[e] = "run" /\ utf[e] = <<>>
      BY DEF Init
    <2> QED  BY <2>1 DEF CoverOf, MapOf, InFork, Stack
  <1>2. IInv /\ CoverInv /\ [Next]_vars => CoverInv'
    <2> SUFFICES ASSUME IInv, CoverInv, [Next]_vars PROVE CoverInv'
      OBVIOUS
    <2>1. CASE UNCHANGED vars
      <3>1. UNCHANGED <<pt, pc, utf, child, addr, refused>>
        BY <2>1 DEF vars
      <3> SUFFICES ASSUME NEW e \in Env PROVE CoverOf(e)' /\ MapOf(e)'
        BY DEF CoverInv
      <3>2. PICK c : c = child[e]
        OBVIOUS
      <3>3. CoverOf(e) /\ MapOf(e) /\ Filled(e)' = Filled(e) /\ Filled(c)' = Filled(c)
        BY <3>1, FilledStays DEF CoverInv
      <3>4. CoverOf(e)'
        BY <3>1, <3>2, <3>3, StandsStill
      <3> QED  BY <3>1, <3>3, <3>4 DEF MapOf, Top
    <2>2. CASE Next
      <3>1. PICK e \in Env : Faulting(e) \/ Forking(e) \/ Program(e)
        BY <2>2 DEF Next
      <3> QED  BY <3>1, FaultingCovers, ForkingCovers, ProgramCovers
    <2> QED  BY <2>1, <2>2
  <1>3. IInv /\ CoverInv => LosesOnlyLastPages
    BY LosesLast DEF IInv
  <1> QED  BY <1>1, <1>2, <1>3, ForkInvariant, PTL DEF Spec
=============================================================================
