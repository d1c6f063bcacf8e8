--------------------------- MODULE SpinlockProofs ---------------------------
(***************************************************************************)
(* For any number of processors, and for callers that may misuse the lock: *)
(* the spin lock implements the abstract lock, its debugging checks are    *)
(* exact, and its record of the owner is never wrong.                      *)
(*                                                                         *)
(* The inductive invariant adds LockState to what is proved: the value a   *)
(* processor would read from lk->cpu, through its store buffer.            *)
(***************************************************************************)
EXTENDS Spinlock, TLAPS

Inv == TypeOK /\ MisuseCaught /\ LockState

\* The values in a store buffer, after its oldest store has left it.
LEMMA TailFacts ==
    ASSUME NEW S, NEW s \in Seq(S), s # <<>>
    PROVE  /\ Head(s) \in S
           /\ Tail(s) \in Seq(S)
           /\ Tail(s) = <<>> => Head(s) = s[Len(s)]
           /\ Tail(s) # <<>> => Tail(s)[Len(Tail(s))] = s[Len(s)]
<1>1. /\ Len(s) \in Nat
      /\ Len(s) # 0
      /\ Tail(s) \in Seq(S)
      /\ Head(s) = s[1]
      /\ Head(s) \in S
      /\ Len(Tail(s)) = Len(s) - 1
      /\ \A i \in 1 .. Len(s) - 1 : Tail(s)[i] = s[i + 1]
  OBVIOUS
<1>2. \A t \in Seq(S) : t = <<>> => Len(t) = 0
  OBVIOUS
<1>3. Tail(s) = <<>> => Head(s) = s[Len(s)]
  <2>1. Tail(s) = <<>> => Len(Tail(s)) = 0
    BY <1>1, <1>2, Zenon
  <2> QED
    BY <1>1, <2>1
<1>4. Tail(s) # <<>> => Len(Tail(s)) # 0
  BY <1>1
<1>5. ASSUME Tail(s) # <<>>
      PROVE  Tail(s)[Len(Tail(s))] = s[Len(s)]
  <2>1. Len(s) - 1 \in 1 .. Len(s) - 1
    BY <1>1, <1>4, <1>5
  <2> QED
    BY <1>1, <2>1
<1> QED
  BY <1>1, <1>3, <1>5

\* The values in a store buffer, after a store has entered it.
LEMMA AppendFacts ==
    ASSUME NEW S, NEW s \in Seq(S), NEW x \in S
    PROVE  /\ Append(s, x) \in Seq(S)
           /\ Append(s, x) # <<>>
           /\ Append(s, x)[Len(Append(s, x))] = x
    OBVIOUS

LEMMA EmptyFacts ==
    ASSUME NEW S
    PROVE  <<>> \in Seq(S)
    OBVIOUS

\* Nobody holds the lock that __spin_initlock() leaves.
LEMMA InitInv == Init => Inv
BY SpinlockAssumption, EmptyFacts
DEF Init, Inv, TypeOK, MisuseCaught, LockState, ReadCpu, Place

\* The two reads of holding() by processor c.
LEMMA ReadFacts ==
    ASSUME Inv, NEW c \in CPU
    PROVE  /\ owner # c => ReadCpu(c) # c
           /\ owner = c /\ pc[c] \in {"lock_cpu", "unlock_cpu"} => ReadCpu(c) = c
           /\ owner = c => locked = 1
BY SpinlockAssumption DEF Inv, LockState, ReadCpu, TypeOK

\* Every step keeps the types.
LEMMA TypeStep ==
    ASSUME TypeOK, NEW c \in CPU,
           spin_lock(c) \/ spin_unlock(c) \/ Step(c)
    PROVE  TypeOK'
<1> DEFINE V == CPU \cup {NULL}
<1> USE DEF TypeOK
<1>1. CASE spin_lock(c) \/ spin_unlock(c)
  BY <1>1 DEF spin_lock, spin_unlock, Goto, Place
<1>2. CASE holding_locked(c) \/ holding_cpu(c)
  BY <1>2 DEF holding_locked, holding_cpu, Goto, Place
<1>3. CASE acquire(c) \/ release(c)
  BY <1>3 DEF acquire, release, xchg, Goto, Place
<1>4. CASE record_cpu(c) \/ clear_cpu(c)
  <2>1. Append(buffer[c], c) \in Seq(V) /\ Append(buffer[c], NULL) \in Seq(V)
    BY AppendFacts
  <2> QED
    BY <1>4, <2>1 DEF record_cpu, clear_cpu, StoreCpu, Goto, Place
<1>5. CASE Drain(c)
  <2>1. Head(buffer[c]) \in V /\ Tail(buffer[c]) \in Seq(V)
    BY <1>5, TailFacts DEF Drain
  <2> QED
    BY <1>5, <2>1 DEF Drain
<1> QED
  BY <1>1, <1>2, <1>3, <1>4, <1>5 DEF Step

\* Every step keeps the owner where its record says, and only there.
LEMMA InvStep == Inv /\ [Next]_vars => Inv'
<1> SUFFICES ASSUME Inv, [Next]_vars
             PROVE  Inv'
  OBVIOUS
<1>1. UNCHANGED vars => Inv'
  BY DEF vars, Inv, TypeOK, MisuseCaught, LockState, ReadCpu
<1>2. ASSUME NEW c \in CPU, spin_lock(c) \/ spin_unlock(c) \/ Step(c)
      PROVE  Inv'
  <2> USE SpinlockAssumption
  <2>1. TypeOK'
    BY <1>2, TypeStep DEF Inv
  <2>2. CASE spin_lock(c) \/ spin_unlock(c)
    BY <2>1, <2>2
    DEF spin_lock, spin_unlock, Goto, Inv, TypeOK, MisuseCaught, LockState, ReadCpu
  <2>3. CASE holding_locked(c)
    <3>1. MisuseCaught'
      BY <2>3, ReadFacts DEF holding_locked, Goto, Inv, TypeOK, MisuseCaught
    <3>2. LockState'
      BY <2>3 DEF holding_locked, Goto, Inv, TypeOK, LockState, ReadCpu
    <3> QED
      BY <2>1, <3>1, <3>2 DEF Inv
  <2>4. CASE holding_cpu(c)
    <3>1. MisuseCaught'
      BY <2>4, ReadFacts DEF holding_cpu, Goto, Inv, TypeOK, MisuseCaught
    <3>2. LockState'
      BY <2>4, ReadFacts DEF holding_cpu, Goto, Inv, TypeOK, LockState, ReadCpu
    <3> QED
      BY <2>1, <3>1, <3>2 DEF Inv
  <2>5. CASE acquire(c)
    <3>1. MisuseCaught'
      BY <2>5 DEF acquire, xchg, Goto, Inv, TypeOK, MisuseCaught, LockState
    <3>2. CASE locked = 0
      <4>1. owner = NULL /\ cpu = NULL /\ buffer[c] \in Seq({NULL, c})
        BY <2>5, <3>2, EmptyFacts DEF acquire, xchg, Inv, LockState
      <4>2. LockState'
        BY <2>5, <3>2, <4>1
        DEF acquire, xchg, Goto, Inv, TypeOK, LockState, ReadCpu
      <4> QED
        BY <2>1, <3>1, <4>2 DEF Inv
    <3>3. CASE locked # 0
      <4>1. UNCHANGED vars
        BY <2>5, <3>3 DEF acquire, xchg, vars, Inv, TypeOK
      <4> QED
        BY <1>1, <4>1
    <3> QED
      BY <3>2, <3>3
  <2>6. CASE record_cpu(c) \/ clear_cpu(c)
    <3>1. owner = c /\ buffer[c] \in Seq({NULL, c})
      BY <2>6 DEF Inv, MisuseCaught, LockState, record_cpu, clear_cpu
    <3>2. MisuseCaught'
      BY <2>6, <3>1 DEF record_cpu, clear_cpu, StoreCpu, Goto, Inv, TypeOK, MisuseCaught
    <3>3. LockState'
      <4>1. PICK x \in {NULL, c} :
              /\ buffer' = [buffer EXCEPT ![c] = Append(@, x)]
              /\ x = IF pc'[c] = "xchg_0" THEN NULL ELSE c
              /\ pc'[c] # "record"
              /\ UNCHANGED <<locked, cpu, owner>>
        BY <2>6 DEF record_cpu, clear_cpu, StoreCpu, Goto, Inv, TypeOK
      <4>2. /\ buffer'[c] \in Seq({NULL, c})
            /\ buffer'[c] # <<>>
            /\ buffer'[c][Len(buffer'[c])] = x
        BY <3>1, <4>1, AppendFacts DEF Inv, TypeOK
      <4>3. \A d \in CPU \ {c} : buffer'[d] = <<>>
        BY <3>1, <4>1 DEF Inv, TypeOK, LockState
      <4> QED
        BY <3>1, <4>1, <4>2, <4>3 DEF Inv, LockState, ReadCpu
    <3> QED
      BY <2>1, <3>2, <3>3 DEF Inv
  <2>7. CASE release(c)
    BY <2>1, <2>7
    DEF release, xchg, Goto, Inv, TypeOK, MisuseCaught, LockState, ReadCpu
  <2>8. CASE Drain(c)
    <3>1. owner = c /\ buffer[c] \in Seq({NULL, c}) /\ buffer[c] # <<>>
      BY <2>8 DEF Drain, Inv, LockState
    <3>2. MisuseCaught'
      BY <2>8 DEF Drain, Inv, MisuseCaught
    <3>3. /\ buffer'[c] = Tail(buffer[c])
          /\ cpu' = Head(buffer[c])
          /\ \A d \in CPU \ {c} : buffer'[d] = buffer[d]
          /\ UNCHANGED <<locked, owner, pc>>
      BY <2>8 DEF Drain, Inv, TypeOK
    <3>4. /\ cpu' \in {NULL, c}
          /\ buffer'[c] \in Seq({NULL, c})
          /\ IF buffer'[c] = <<>> THEN cpu' = ReadCpu(c)
             ELSE buffer'[c][Len(buffer'[c])] = ReadCpu(c)
      BY <3>1, <3>3, TailFacts DEF ReadCpu
    <3>5. LockState'
      BY <3>1, <3>3, <3>4 DEF Inv, LockState, ReadCpu
    <3> QED
      BY <2>1, <3>2, <3>5 DEF Inv
  <2> QED
    BY <1>2, <2>2, <2>3, <2>4, <2>5, <2>6, <2>7, <2>8 DEF Step
<1> QED
  BY <1>1, <1>2 DEF Next

\* The record of the owner in lk->cpu is right wherever the processors are,
\* and no caller's mistake gets past the checks of spin_lock() and
\* spin_unlock().
THEOREM SpinlockSafe == Spec => [](TypeOK /\ MisuseCaught /\ LockState)
<1>1. Spec => []Inv
  BY InitInv, InvStep, PTL DEF Spec
<1> QED
  BY <1>1, PTL DEF Inv

\* holding() is exact: spin_lock() and spin_unlock() panic only for a caller
\* that really holds the lock, or really does not.
THEOREM SpinlockPanicsRightly == Spec => NoFalsePanic
<1> DEFINE Panics ==
      \A c \in CPU : pc[c] # "panic" /\ pc'[c] = "panic"
          => IF pc[c] = "lock_cpu" THEN owner = c ELSE owner # c
<1>1. Inv /\ [Next]_vars => [Panics]_vars
  <2> SUFFICES ASSUME Inv, Next, NEW c \in CPU, pc[c] # "panic", pc'[c] = "panic"
               PROVE  IF pc[c] = "lock_cpu" THEN owner = c ELSE owner # c
    BY DEF vars
  <2>1. PICK d \in CPU : spin_lock(d) \/ spin_unlock(d) \/ Step(d)
    BY DEF Next
  <2>2. holding_locked(c) \/ holding_cpu(c)
    BY <2>1
    DEF Step, spin_lock, spin_unlock, holding_locked, holding_cpu, acquire,
        record_cpu, clear_cpu, release, Drain, Goto, Inv, TypeOK
  <2>3. CASE holding_locked(c)
    BY <2>3, ReadFacts DEF holding_locked, Goto, Inv, TypeOK
  <2>4. CASE holding_cpu(c)
    BY <2>4, ReadFacts DEF holding_cpu, Goto, Inv, TypeOK
  <2> QED
    BY <2>2, <2>3, <2>4
<1>2. Spec => []Inv
  BY InitInv, InvStep, PTL DEF Spec
<1> QED
  BY <1>1, <1>2, PTL DEF Spec, NoFalsePanic

\* kern/spinlock.c implements the lock that the rest of the kernel relies on.
THEOREM SpinlockImplementsLock == Spec => Implements
<1>1. Init => Abstract!Unlocked
  BY DEF Init, Abstract!Unlocked
<1>2. Inv /\ [Next]_vars => [Abstract!Transfer]_owner
  <2> SUFFICES ASSUME Inv, Next, owner' # owner
               PROVE  Abstract!Transfer
    BY DEF vars
  <2>1. PICK c \in CPU : spin_lock(c) \/ spin_unlock(c) \/ Step(c)
    BY DEF Next
  <2>2. acquire(c) \/ release(c)
    BY <2>1
    DEF Step, spin_lock, spin_unlock, holding_locked, holding_cpu,
        record_cpu, clear_cpu, Drain
  <2>3. CASE acquire(c)
    <3>1. owner = NULL /\ owner' = c
      BY <2>3 DEF acquire, Inv, LockState
    <3> QED
      BY <3>1 DEF Abstract!Transfer
  <2>4. CASE release(c)
    <3>1. owner = c /\ owner' = NULL
      BY <2>4 DEF release, Inv, MisuseCaught
    <3> QED
      BY <3>1 DEF Abstract!Transfer
  <2> QED
    BY <2>2, <2>3, <2>4
<1>3. Spec => []Inv
  BY InitInv, InvStep, PTL DEF Spec
<1> QED
  BY <1>1, <1>2, <1>3, PTL DEF Spec, Implements, Abstract!Discipline
=============================================================================
