----------------------------- MODULE ConsoleProofs -----------------------------
(* Proofs about Console, for every size of the ring, the line and the screen,   *)
(* and for any keys: what is typed is read, and the screen shows the line.      *)
EXTENDS Console, SequenceTheorems, WellFoundedInduction, TLAPS

(* What a function on sequences needs: a set of numbers with 0 and the          *)
(* successor of each member has them all.                                       *)
LEMMA NumbersByInduction ==
    ASSUME NEW S, S \subseteq Nat, 0 \in S, \A n \in S : n + 1 \in S
    PROVE  \A n \in Nat : n \in S
  <1> DEFINE T == Nat \ S
             R == OpToRel(<, Nat)
  <1>1. SUFFICES ASSUME T # {} PROVE FALSE
    OBVIOUS
  <1>2. PICK x \in T : \A y \in T : ~(<<y, x>> \in R)
    <2>1. IsWellFoundedOn(R, Nat)
      BY NatLessThanWellFounded
    <2>2. T \subseteq Nat
      OBVIOUS
    <2> HIDE DEF R, T
    <2> QED  BY <1>1, <2>1, <2>2, WFMin
  <1>3. \A y \in T : ~(y < x)
    BY <1>2 DEF OpToRel
  <1>4. x \in Nat /\ x # 0
    OBVIOUS
  <1>5. x - 1 \in S
    BY <1>3, <1>4
  <1> QED  BY <1>4, <1>5

(******************************** remainders *********************************)
(* A remainder is what its definition says, whatever the quotient. *)
LEMMA RemainderIs ==
    ASSUME NEW n \in Nat \ {0}, NEW k \in Int, NEW i \in 0..(n - 1)
    PROVE  (n * k + i) % n = i
  <1> DEFINE x == n * k + i
             q == x \div n
             r == x % n
  <1>1. x \in Int
    OBVIOUS
  <1>2. q \in Int /\ r \in 0..(n - 1) /\ x = n * q + r
    BY <1>1
  <1>3. n * (k - q) = r - i
    BY <1>2
  <1>4. ~(k - q >= 1)
    <2> SUFFICES ASSUME k - q >= 1 PROVE FALSE
      OBVIOUS
    <2>1. n * (k - q) >= n
      BY <1>2
    <2> QED  BY <2>1, <1>2, <1>3
  <1>5. ~(k - q <= -1)
    <2> SUFFICES ASSUME k - q <= -1 PROVE FALSE
      OBVIOUS
    <2>1. n * (k - q) <= -n
      BY <1>2
    <2> QED  BY <2>1, <1>2, <1>3
  <1>6. k = q
    BY <1>2, <1>4, <1>5
  <1> QED  BY <1>2, <1>6

(* Positions in a ring are at most one turn off. *)
LEMMA Around ==
    ASSUME NEW n \in Nat \ {0}, NEW i \in 0..(n - 1)
    PROVE  i % n = i /\ (i + n) % n = i /\ (i - n) % n = i
  <1>1. (n * 0 + i) % n = i /\ (n * 1 + i) % n = i /\ (n * (-1) + i) % n = i
    BY RemainderIs
  <1>2. n * 0 + i = i /\ n * 1 + i = i + n /\ n * (-1) + i = i - n
    OBVIOUS
  <1> QED  BY <1>1, <1>2

(* A remainder is no more than the number. *)
LEMMA RemainderBelow ==
    ASSUME NEW n \in Nat \ {0}, NEW a \in Nat
    PROVE  a % n \in 0..(n - 1) /\ a % n <= a
  <1> DEFINE q == a \div n
             r == a % n
  <1>1. q \in Int /\ r \in 0..(n - 1) /\ a = n * q + r
    OBVIOUS
  <1>2. ~(q <= -1)
    <2> SUFFICES ASSUME q <= -1 PROVE FALSE
      OBVIOUS
    <2>1. n * q <= -n
      BY <1>1
    <2> QED  BY <1>1, <2>1
  <1>3. n * q >= 0
    BY <1>1, <1>2
  <1> QED  BY <1>1, <1>3

(************************** the characters of a device ***********************)
Char == KeyChars \cup SerialChars \cup {NO}

\* One character more.
Taken(chosen, c, serial) == IF serial <=> c \in SerialChars THEN Append(chosen, c) ELSE chosen

\* What the recursion in Part comes to, up to the n-th character.
Filters(f, chars, serial, n) ==
    /\ f \in [0..n -> Seq(Char)] /\ f[0] = <<>>
    /\ \A k \in 1..n : f[k] = Taken(f[k - 1], chars[k], serial)

LEMMA TakenType ==
    ASSUME NEW s \in Seq(Char), NEW c \in Char, NEW serial \in BOOLEAN
    PROVE  Taken(s, c, serial) \in Seq(Char)
  BY DEF Taken

LEMMA FiltersExtend ==
    ASSUME NEW chars \in Seq(Char), NEW serial \in BOOLEAN, NEW n \in Nat, n + 1 <= Len(chars),
           NEW f, Filters(f, chars, serial, n)
    PROVE  \E g : Filters(g, chars, serial, n + 1)
  <1> DEFINE new == Taken(f[n], chars[n + 1], serial)
             g == [k \in 0..(n + 1) |-> IF k = n + 1 THEN new ELSE f[k]]
  <1>1. new \in Seq(Char)
    <2>1. f[n] \in Seq(Char) /\ chars[n + 1] \in Char
      BY DEF Filters
    <2> QED  BY <2>1, TakenType
  <1>2. f \in [0..n -> Seq(Char)] /\ f[0] = <<>>
    BY DEF Filters
  <1>3. g[n + 1] = new /\ \A k \in 0..n : g[k] = f[k]
    <2> HIDE DEF new
    <2> QED  OBVIOUS
  <1>4. g \in [0..(n + 1) -> Seq(Char)]
    <2> HIDE DEF new
    <2> QED  BY <1>1, <1>2
  <1>5. g[0] = <<>>
    BY <1>2, <1>3
  <1>6. ASSUME NEW k \in 1..(n + 1) PROVE g[k] = Taken(g[k - 1], chars[k], serial)
    <2>1. g[k - 1] = f[k - 1]
      <3>1. k - 1 \in 0..n
        OBVIOUS
      <3> HIDE DEF g
      <3> QED  BY <3>1, <1>3
    <2>2. CASE k = n + 1
      <3>1. g[k] = Taken(f[n], chars[n + 1], serial) /\ k - 1 = n
        BY <1>3, <2>2
      <3> HIDE DEF g
      <3> QED  BY <2>1, <2>2, <3>1
    <2>3. CASE k # n + 1
      <3>1. k \in 1..n /\ k \in 0..n
        BY <2>3
      <3>2. f[k] = Taken(f[k - 1], chars[k], serial)
        BY <3>1 DEF Filters
      <3>3. g[k] = f[k]
        <4> HIDE DEF g
        <4> QED  BY <1>3, <3>1
      <3> HIDE DEF g
      <3> QED  BY <2>1, <3>2, <3>3
    <2> QED  BY <2>2, <2>3
  <1> HIDE DEF g
  <1>7. Filters(g, chars, serial, n + 1)
    BY <1>4, <1>5, <1>6 DEF Filters
  <1> QED  BY <1>7

LEMMA FiltersExist ==
    ASSUME NEW chars \in Seq(Char), NEW serial \in BOOLEAN
    PROVE  \E f : Filters(f, chars, serial, Len(chars))
  <1> DEFINE S == {n \in Nat : n <= Len(chars) => \E f : Filters(f, chars, serial, n)}
  <1>1. 0 \in S
    <2> DEFINE f == [k \in 0..0 |-> <<>>]
    <2>1. f \in [0..0 -> Seq(Char)] /\ f[0] = <<>> /\ 1..0 = {}
      OBVIOUS
    <2> HIDE DEF f
    <2>2. Filters(f, chars, serial, 0)
      BY <2>1 DEF Filters
    <2> QED  BY <2>2
  <1>2. ASSUME NEW n \in S PROVE n + 1 \in S
    <2> SUFFICES ASSUME n + 1 <= Len(chars) PROVE \E g : Filters(g, chars, serial, n + 1)
      OBVIOUS
    <2>1. n \in Nat /\ n <= Len(chars)
      OBVIOUS
    <2>2. PICK f : Filters(f, chars, serial, n)
      BY <2>1
    <2> QED  BY <2>1, <2>2, FiltersExtend
  <1>3. Len(chars) \in S
    <2>1. S \subseteq Nat /\ Len(chars) \in Nat
      OBVIOUS
    <2> HIDE DEF S
    <2> QED  BY <1>1, <1>2, <2>1, NumbersByInduction
  <1> QED  BY <1>3

\* The recursion has one solution; a longer one has the same beginning.
LEMMA FiltersAgree ==
    ASSUME NEW chars \in Seq(Char), NEW more \in Seq(Char), NEW serial \in BOOLEAN,
           Len(chars) <= Len(more), \A k \in 1..Len(chars) : more[k] = chars[k],
           NEW f, Filters(f, chars, serial, Len(chars)),
           NEW g, Filters(g, more, serial, Len(more))
    PROVE  g[Len(chars)] = f[Len(chars)]
  <1> DEFINE S == {n \in Nat : n <= Len(chars) => g[n] = f[n]}
  <1>1. 0 \in S
    BY DEF Filters
  <1>2. ASSUME NEW n \in S PROVE n + 1 \in S
    <2> SUFFICES ASSUME n + 1 <= Len(chars) PROVE g[n + 1] = f[n + 1]
      OBVIOUS
    <2>1. n \in Nat /\ n + 1 \in 1..Len(chars) /\ n + 1 \in 1..Len(more) /\ (n + 1) - 1 = n
      OBVIOUS
    <2>2. g[n + 1] = Taken(g[n], more[n + 1], serial)
      BY <2>1 DEF Filters
    <2>3. f[n + 1] = Taken(f[n], chars[n + 1], serial)
      BY <2>1 DEF Filters
    <2>4. g[n] = f[n] /\ more[n + 1] = chars[n + 1]
      BY <2>1
    <2> QED  BY <2>2, <2>3, <2>4
  <1>3. Len(chars) \in S
    <2>1. S \subseteq Nat /\ Len(chars) \in Nat
      OBVIOUS
    <2> HIDE DEF S
    <2> QED  BY <1>1, <1>2, <2>1, NumbersByInduction
  <1> QED  BY <1>3

\* Part is the last value of the recursion.
LEMMA PartIs ==
    ASSUME NEW chars \in Seq(Char), NEW serial \in BOOLEAN
    PROVE  \E f : Filters(f, chars, serial, Len(chars)) /\ Part(chars, serial) = f[Len(chars)]
  <1> DEFINE L == Len(chars)
             body(f, k) == IF k = 0 THEN <<>> ELSE Taken(f[k - 1], chars[k], serial)
             Fits(f) == f = [k \in 0..L |-> body(f, k)]
             F == CHOOSE f : Fits(f)
  <1>1. PICK f : Filters(f, chars, serial, L)
    BY FiltersExist
  <1>2. Fits(f)
    <2>1. f = [k \in 0..L |-> f[k]]
      BY <1>1 DEF Filters
    <2>2. \A k \in 0..L : f[k] = body(f, k)
      BY <1>1 DEF Filters
    <2> HIDE DEF body
    <2> QED  BY <2>1, <2>2
  <1>3. Fits(F)
    <2> HIDE DEF Fits
    <2> QED  BY <1>2
  <1>4. Part(chars, serial) = F[L]
    BY DEF Part, Taken
  <1> HIDE DEF F
  <1>5. \A k \in 0..L : F[k] = body(F, k)
    <2> HIDE DEF body
    <2> QED  BY <1>3
  <1>6. F[0] = <<>> /\ \A k \in 1..L : F[k] = Taken(F[k - 1], chars[k], serial)
    <2>1. 0 \in 0..L /\ \A k \in 1..L : k \in 0..L /\ k # 0
      OBVIOUS
    <2>2. F[0] = body(F, 0) /\ \A k \in 1..L : F[k] = body(F, k)
      <3> HIDE DEF body
      <3> QED  BY <1>5, <2>1
    <2> QED  BY <2>1, <2>2
  <1> DEFINE S == {k \in Nat : k <= L => F[k] \in Seq(Char)}
  <1>7. 0 \in S
    <2>1. F[0] \in Seq(Char)
      BY <1>6
    <2> QED  BY <2>1
  <1>8. ASSUME NEW k \in S PROVE k + 1 \in S
    <2> SUFFICES ASSUME k + 1 <= L PROVE F[k + 1] \in Seq(Char)
      OBVIOUS
    <2>1. k + 1 \in 1..L /\ (k + 1) - 1 = k /\ F[k] \in Seq(Char) /\ chars[k + 1] \in Char
      OBVIOUS
    <2>2. F[k + 1] = Taken(F[k], chars[k + 1], serial)
      BY <1>6, <2>1
    <2> QED  BY <2>1, <2>2, TakenType
  <1>9. \A k \in 0..L : F[k] \in Seq(Char)
    <2>1. S \subseteq Nat
      OBVIOUS
    <2>2. \A k \in Nat : k \in S
      <3> HIDE DEF S
      <3> QED  BY <1>7, <1>8, <2>1, NumbersByInduction
    <2> QED  BY <2>2
  <1>10. F = [k \in 0..L |-> F[k]]
    <2> HIDE DEF body
    <2> QED  BY <1>3, <1>5
  <1>11. F \in [0..L -> Seq(Char)]
    BY <1>9, <1>10
  <1>12. Filters(F, chars, serial, L)
    BY <1>6, <1>11 DEF Filters
  <1> QED  BY <1>4, <1>12

\* One character more at the end is taken or not.
LEMMA PartAppend ==
    ASSUME NEW chars \in Seq(Char), NEW c \in Char, NEW serial \in BOOLEAN
    PROVE  Part(Append(chars, c), serial) = Taken(Part(chars, serial), c, serial)
  <1> DEFINE more == Append(chars, c)
             n == Len(chars)
  <1>1. more \in Seq(Char) /\ Len(more) = n + 1 /\ more[n + 1] = c /\ \A k \in 1..n : more[k] = chars[k]
    OBVIOUS
  <1>2. PICK f : Filters(f, chars, serial, n) /\ Part(chars, serial) = f[n]
    BY PartIs
  <1>3. PICK g : Filters(g, more, serial, Len(more)) /\ Part(more, serial) = g[Len(more)]
    BY <1>1, PartIs
  <1>4. g[n] = f[n]
    <2> HIDE DEF more
    <2> QED  BY <1>1, <1>2, <1>3, FiltersAgree
  <1>5. g[n + 1] = Taken(g[n], more[n + 1], serial)
    <2>1. n + 1 \in 1..Len(more) /\ (n + 1) - 1 = n
      BY <1>1
    <2> HIDE DEF more
    <2> QED  BY <2>1, <1>3 DEF Filters
  <1> HIDE DEF more
  <1>6. Part(more, serial) = Taken(Part(chars, serial), c, serial)
    BY <1>1, <1>2, <1>3, <1>4, <1>5
  <1> QED  BY <1>6 DEF more

LEMMA PartType ==
    ASSUME NEW chars \in Seq(Char), NEW serial \in BOOLEAN
    PROVE  Part(chars, serial) \in Seq(Char)
  <1>1. PICK f : Filters(f, chars, serial, Len(chars)) /\ Part(chars, serial) = f[Len(chars)]
    BY PartIs
  <1> QED  BY <1>1 DEF Filters

LEMMA PartEmpty ==
    ASSUME NEW serial \in BOOLEAN
    PROVE  Part(<<>>, serial) = <<>>
  <1>1. <<>> \in Seq(Char) /\ Len(<<>>) = 0
    OBVIOUS
  <1>2. PICK f : Filters(f, <<>>, serial, 0) /\ Part(<<>>, serial) = f[0]
    BY <1>1, PartIs
  <1> QED  BY <1>2 DEF Filters

(***************************** codes on their way ****************************)
AllFlags == {"CTL", "SHIFT", "CAPSLOCK", "E0ESC"}

\* cons_intr() drops what is no character.
Add(text, c) == IF c = NO THEN text ELSE Append(text, c)

Begins(s, t) == Len(s) <= Len(t) /\ \A m \in 1..Len(s) : s[m] = t[m]

\* st and ty are the driver's state and the text after each of the codes.
Decoding(st, ty, codes) ==
    /\ st \in [0..Len(codes) -> SUBSET AllFlags]
    /\ ty \in [0..Len(codes) -> Seq(Char)]
    /\ \A k \in 1..Len(codes) : /\ st[k] = NewShift(st[k - 1], codes[k])
                                /\ ty[k] = Add(ty[k - 1], kbd_proc_data(st[k - 1], codes[k]))
    /\ \A i, j \in 0..Len(codes) : i <= j => Begins(ty[i], ty[j])

\* From state flags and text before the codes, the driver comes to those after.
Decodes(codes, before, text, after, whole) ==
    \E st, ty : /\ Decoding(st, ty, codes)
                /\ st[0] = before /\ ty[0] = text
                /\ st[Len(codes)] = after /\ ty[Len(codes)] = whole

LEMMA CharcodeType ==
    ASSUME NEW flags, NEW data
    PROVE  charcode(flags, data) \in KeyChars \cup {NO}
  <1>1. normalmap(data) \in KeyChars \cup {NO}
    BY DEF normalmap, KeyChars
  <1>2. shiftmap(data) \in KeyChars \cup {NO}
    BY <1>1 DEF shiftmap, KeyChars
  <1>3. ctlmap(data) \in KeyChars \cup {NO}
    BY DEF ctlmap, KeyChars
  <1> DEFINE c == IF "CTL" \in flags THEN ctlmap(data)
                  ELSE IF "SHIFT" \in flags THEN shiftmap(data) ELSE normalmap(data)
  <1>4. c \in KeyChars \cup {NO}
    BY <1>1, <1>2, <1>3
  <1>5. charcode(flags, data) = IF "CAPSLOCK" \notin flags THEN c
                                ELSE CASE c = "d" -> "D" [] c = "D" -> "d" [] OTHER -> c
    BY DEF charcode
  <1> HIDE DEF c
  <1> QED  BY <1>4, <1>5 DEF KeyChars

LEMMA DriverType ==
    ASSUME NEW flags \in SUBSET AllFlags, NEW data
    PROVE  /\ NewShift(flags, data) \in SUBSET AllFlags
           /\ kbd_proc_data(flags, data) \in KeyChars \cup {NO}
  <1>1. \A key : shiftcode(key) \in SUBSET AllFlags /\ togglecode(key) \in SUBSET AllFlags
    BY DEF shiftcode, togglecode, AllFlags
  <1>2. NewShift(flags, data) \in SUBSET AllFlags
    <2> DEFINE key == Key(flags, data)
    <2>1. shiftcode(key) \in SUBSET AllFlags /\ togglecode(key) \in SUBSET AllFlags
      BY <1>1
    <2> HIDE DEF key
    <2>2. flags \cup {"E0ESC"} \in SUBSET AllFlags /\ flags \ (shiftcode(key) \cup {"E0ESC"}) \in SUBSET AllFlags
      BY DEF AllFlags
    <2>3. Xor((flags \ {"E0ESC"}) \cup shiftcode(key), togglecode(key)) \in SUBSET AllFlags
      BY <2>1 DEF Xor
    <2> QED  BY <2>2, <2>3 DEF NewShift, key
  <1>3. kbd_proc_data(flags, data) \in KeyChars \cup {NO}
    BY CharcodeType DEF kbd_proc_data
  <1> QED  BY <1>2, <1>3

LEMMA AddType ==
    ASSUME NEW t \in Seq(Char), NEW c \in KeyChars \cup {NO}
    PROVE  Add(t, c) \in Seq(Char) /\ Begins(t, Add(t, c))
  <1>1. c \in Char
    BY DEF Char
  <1>2. CASE c = NO
    BY <1>2 DEF Add, Begins
  <1>3. CASE c # NO
    <2>1. Add(t, c) = Append(t, c)
      BY <1>3 DEF Add
    <2>2. Append(t, c) \in Seq(Char) /\ Len(Append(t, c)) = Len(t) + 1 /\ \A m \in 1..Len(t) : Append(t, c)[m] = t[m]
      BY <1>1
    <2> QED  BY <2>1, <2>2 DEF Begins
  <1> QED  BY <1>2, <1>3

LEMMA BeginsTransitive ==
    ASSUME NEW r \in Seq(Char), NEW s \in Seq(Char), NEW t \in Seq(Char), Begins(r, s), Begins(s, t)
    PROVE  Begins(r, t)
  <1>1. Len(r) \in Nat /\ Len(s) \in Nat /\ Len(t) \in Nat
    OBVIOUS
  <1>2. Len(r) <= Len(s) /\ Len(s) <= Len(t)
    BY DEF Begins
  <1>3. ASSUME NEW m \in 1..Len(r) PROVE r[m] = t[m]
    <2>1. m \in 1..Len(s)
      BY <1>1, <1>2
    <2> QED  BY <2>1 DEF Begins
  <1> QED  BY <1>1, <1>2, <1>3 DEF Begins

\* Nothing on its way: nothing changes.
LEMMA DecodesNothing ==
    ASSUME NEW s \in SUBSET AllFlags, NEW t \in Seq(Char)
    PROVE  Decodes(<<>>, s, t, s, t)
  <1> DEFINE st == [k \in 0..0 |-> s]
             ty == [k \in 0..0 |-> t]
  <1>1. st \in [0..0 -> SUBSET AllFlags] /\ ty \in [0..0 -> Seq(Char)] /\ st[0] = s /\ ty[0] = t
    OBVIOUS
  <1>2. Len(<<>>) = 0 /\ 1..0 = {}
    OBVIOUS
  <1>3. Begins(t, t)
    BY DEF Begins
  <1>4. \A i, j \in 0..0 : Begins(ty[i], ty[j])
    BY <1>3
  <1> HIDE DEF st, ty
  <1>5. Decoding(st, ty, <<>>)
    BY <1>1, <1>2, <1>4 DEF Decoding
  <1> QED  BY <1>1, <1>2, <1>5 DEF Decodes

LEMMA NothingDecodes ==
    ASSUME NEW s, NEW t, NEW s1, NEW t1, Decodes(<<>>, s, t, s1, t1)
    PROVE  s1 = s /\ t1 = t
  <1>1. Len(<<>>) = 0
    OBVIOUS
  <1> QED  BY <1>1 DEF Decodes

\* What is on its way will only add to the text.
LEMMA DecodesAdds ==
    ASSUME NEW codes \in Seq(Nat), NEW s, NEW t, NEW s1, NEW t1, Decodes(codes, s, t, s1, t1)
    PROVE  s \in SUBSET AllFlags /\ t \in Seq(Char) /\ s1 \in SUBSET AllFlags /\ t1 \in Seq(Char) /\ Begins(t, t1)
  <1>1. PICK st, ty : /\ Decoding(st, ty, codes)
                      /\ st[0] = s /\ ty[0] = t /\ st[Len(codes)] = s1 /\ ty[Len(codes)] = t1
    BY DEF Decodes
  <1>2. Len(codes) \in Nat /\ 0 \in 0..Len(codes) /\ Len(codes) \in 0..Len(codes)
    OBVIOUS
  <1>3. st[0] \in SUBSET AllFlags /\ st[Len(codes)] \in SUBSET AllFlags
    <2>1. st \in [0..Len(codes) -> SUBSET AllFlags]
      BY <1>1 DEF Decoding
    <2> QED  BY <1>2, <2>1
  <1>4. ty[0] \in Seq(Char) /\ ty[Len(codes)] \in Seq(Char) /\ Begins(ty[0], ty[Len(codes)])
    <2>1. ty \in [0..Len(codes) -> Seq(Char)]
      BY <1>1 DEF Decoding
    <2>2. \A i, j \in 0..Len(codes) : i <= j => Begins(ty[i], ty[j])
      BY <1>1 DEF Decoding
    <2>3. 0 <= Len(codes)
      BY <1>2
    <2> QED  BY <1>2, <2>1, <2>2, <2>3
  <1> QED  BY <1>1, <1>3, <1>4

\* A key sends a code.
LEMMA DecodesMore ==
    ASSUME NEW codes \in Seq(Nat), NEW code \in Nat, NEW s, NEW t, NEW s1, NEW t1, Decodes(codes, s, t, s1, t1)
    PROVE  Decodes(Append(codes, code), s, t, NewShift(s1, code), Add(t1, kbd_proc_data(s1, code)))
  <1> DEFINE n == Len(codes)
             more == Append(codes, code)
             s2 == NewShift(s1, code)
             t2 == Add(t1, kbd_proc_data(s1, code))
  <1>1. PICK st, ty : /\ Decoding(st, ty, codes)
                      /\ st[0] = s /\ ty[0] = t /\ st[n] = s1 /\ ty[n] = t1
    BY DEF Decodes
  <1>2. s1 \in SUBSET AllFlags /\ t1 \in Seq(Char)
    BY DecodesAdds
  <1>3. s2 \in SUBSET AllFlags /\ t2 \in Seq(Char) /\ Begins(t1, t2)
    BY <1>2, DriverType, AddType
  <1> DEFINE st2 == [k \in 0..(n + 1) |-> IF k = n + 1 THEN s2 ELSE st[k]]
             ty2 == [k \in 0..(n + 1) |-> IF k = n + 1 THEN t2 ELSE ty[k]]
  <1>4. n \in Nat /\ Len(more) = n + 1 /\ more[n + 1] = code /\ \A k \in 1..n : more[k] = codes[k]
    OBVIOUS
  <1>5. st \in [0..n -> SUBSET AllFlags] /\ ty \in [0..n -> Seq(Char)]
    BY <1>1 DEF Decoding
  <1>6. st2 \in [0..(n + 1) -> SUBSET AllFlags] /\ ty2 \in [0..(n + 1) -> Seq(Char)]
    <2> HIDE DEF s2, t2, n
    <2> QED  BY <1>3, <1>4, <1>5
  <1>7. /\ st2[n + 1] = s2 /\ ty2[n + 1] = t2
        /\ \A k \in 0..n : st2[k] = st[k] /\ ty2[k] = ty[k]
    <2> HIDE DEF s2, t2, n
    <2> QED  BY <1>4
  <1> HIDE DEF st2, ty2, more
  <1>8. ASSUME NEW k \in 1..(n + 1)
        PROVE  /\ st2[k] = NewShift(st2[k - 1], more[k])
               /\ ty2[k] = Add(ty2[k - 1], kbd_proc_data(st2[k - 1], more[k]))
    <2>1. k - 1 \in 0..n /\ st2[k - 1] = st[k - 1] /\ ty2[k - 1] = ty[k - 1]
      BY <1>4, <1>7
    <2>2. CASE k = n + 1
      <3>1. k - 1 = n /\ st2[k - 1] = s1 /\ ty2[k - 1] = t1
        BY <1>1, <1>4, <2>1, <2>2
      <3> QED  BY <3>1, <2>2, <1>4, <1>7
    <2>3. CASE k # n + 1
      <3>1. k \in 1..n /\ k \in 0..n
        BY <1>4, <2>3
      <3>2. st[k] = NewShift(st[k - 1], codes[k]) /\ ty[k] = Add(ty[k - 1], kbd_proc_data(st[k - 1], codes[k]))
        BY <1>1, <3>1 DEF Decoding
      <3>3. st2[k] = st[k] /\ ty2[k] = ty[k] /\ more[k] = codes[k]
        BY <1>4, <1>7, <3>1
      <3> QED  BY <2>1, <3>2, <3>3
    <2> QED  BY <2>2, <2>3
  <1>9. ASSUME NEW i \in 0..(n + 1), NEW j \in 0..(n + 1), i <= j PROVE Begins(ty2[i], ty2[j])
    <2>1. CASE j \in 0..n
      <3>1. i \in 0..n
        BY <1>4, <1>9, <2>1
      <3>2. Begins(ty[i], ty[j])
        BY <1>1, <1>9, <2>1, <3>1 DEF Decoding
      <3> QED  BY <1>7, <2>1, <3>1, <3>2
    <2>2. CASE j = n + 1 /\ i \in 0..n
      <3>1. n \in 0..n /\ i <= n
        BY <1>4, <2>2
      <3>2. Begins(ty[i], ty[n]) /\ ty[i] \in Seq(Char)
        BY <1>1, <1>5, <2>2, <3>1 DEF Decoding
      <3>3. Begins(ty[i], t2)
        BY <1>1, <1>2, <1>3, <3>2, BeginsTransitive
      <3> QED  BY <1>7, <2>2, <3>3
    <2>3. CASE j = n + 1 /\ i = n + 1
      <3>1. Begins(t2, t2)
        BY DEF Begins
      <3> QED  BY <1>7, <2>3, <3>1
    <2> QED  BY <1>4, <2>1, <2>2, <2>3
  <1>10. Decoding(st2, ty2, more)
    BY <1>4, <1>6, <1>8, <1>9 DEF Decoding
  <1>11. st2[0] = s /\ ty2[0] = t
    BY <1>1, <1>4, <1>7
  <1>12. Decodes(more, s, t, s2, t2)
    <2> HIDE DEF s2, t2
    <2> QED  BY <1>4, <1>7, <1>10, <1>11 DEF Decodes
  <1> QED  BY <1>12 DEF more

\* The driver takes the first code.
LEMMA DecodesFirst ==
    ASSUME NEW codes \in Seq(Nat), codes # <<>>, NEW s, NEW t, NEW s1, NEW t1, Decodes(codes, s, t, s1, t1)
    PROVE  Decodes(Tail(codes), NewShift(s, Head(codes)), Add(t, kbd_proc_data(s, Head(codes))), s1, t1)
  <1> DEFINE n == Len(codes) - 1
             rest == Tail(codes)
  <1>1. PICK st, ty : /\ Decoding(st, ty, codes)
                      /\ st[0] = s /\ ty[0] = t /\ st[Len(codes)] = s1 /\ ty[Len(codes)] = t1
    BY DEF Decodes
  <1>2. n \in Nat /\ Len(codes) = n + 1 /\ Len(rest) = n /\ \A k \in 1..n : rest[k] = codes[k + 1]
    OBVIOUS
  <1>3. Head(codes) = codes[1]
    OBVIOUS
  <1> HIDE DEF n, rest
  <1> DEFINE st2 == [k \in 0..n |-> st[k + 1]]
             ty2 == [k \in 0..n |-> ty[k + 1]]
  <1>4. st \in [0..(n + 1) -> SUBSET AllFlags] /\ ty \in [0..(n + 1) -> Seq(Char)]
    BY <1>1, <1>2 DEF Decoding
  <1>5. st2 \in [0..n -> SUBSET AllFlags] /\ ty2 \in [0..n -> Seq(Char)]
    BY <1>2, <1>4
  <1>6. \A k \in 0..n : st2[k] = st[k + 1] /\ ty2[k] = ty[k + 1]
    OBVIOUS
  <1> HIDE DEF st2, ty2
  <1>7. ASSUME NEW k \in 1..n
        PROVE  /\ st2[k] = NewShift(st2[k - 1], rest[k])
               /\ ty2[k] = Add(ty2[k - 1], kbd_proc_data(st2[k - 1], rest[k]))
    <2>1. k \in 0..n /\ k - 1 \in 0..n /\ (k - 1) + 1 = k /\ k + 1 \in 1..Len(codes) /\ (k + 1) - 1 = k
      BY <1>2
    <2>2. /\ st[k + 1] = NewShift(st[k], codes[k + 1])
          /\ ty[k + 1] = Add(ty[k], kbd_proc_data(st[k], codes[k + 1]))
      BY <1>1, <2>1 DEF Decoding
    <2>3. st2[k] = st[k + 1] /\ ty2[k] = ty[k + 1] /\ st2[k - 1] = st[k] /\ ty2[k - 1] = ty[k] /\ rest[k] = codes[k + 1]
      BY <1>2, <1>6, <2>1
    <2> QED  BY <2>2, <2>3
  <1>8. ASSUME NEW i \in 0..n, NEW j \in 0..n, i <= j PROVE Begins(ty2[i], ty2[j])
    <2>1. i + 1 \in 0..Len(codes) /\ j + 1 \in 0..Len(codes) /\ i + 1 <= j + 1
      BY <1>2, <1>8
    <2>2. Begins(ty[i + 1], ty[j + 1])
      BY <1>1, <2>1 DEF Decoding
    <2> QED  BY <1>6, <2>2
  <1>9. Decoding(st2, ty2, rest)
    BY <1>2, <1>5, <1>7, <1>8 DEF Decoding
  <1>10. /\ st2[0] = NewShift(s, Head(codes))
         /\ ty2[0] = Add(t, kbd_proc_data(s, Head(codes)))
    <2>1. 1 \in 1..Len(codes) /\ 0 \in 0..n /\ 0 + 1 = 1 /\ 1 - 1 = 0
      BY <1>2
    <2>2. st[1] = NewShift(st[0], codes[1]) /\ ty[1] = Add(ty[0], kbd_proc_data(st[0], codes[1]))
      BY <1>1, <2>1 DEF Decoding
    <2>3. st2[0] = st[1] /\ ty2[0] = ty[1]
      BY <1>6, <2>1
    <2> QED  BY <1>1, <1>3, <2>2, <2>3
  <1>11. st2[n] = s1 /\ ty2[n] = t1
    BY <1>1, <1>2, <1>6
  <1> QED  BY <1>2, <1>9, <1>10, <1>11 DEF Decodes, rest

(*********************************** a key ***********************************)
KeyCode == (1..255) \ {E0, E0 - 128}

\* What a key that is pressed makes of the flags.
Pressed(flags, key) == Xor(flags \cup shiftcode(key), togglecode(key))

LEMMA FlagsType ==
    ASSUME NEW flags \in SUBSET AllFlags, "E0ESC" \notin flags, NEW key
    PROVE  /\ Pressed(flags, key) \in SUBSET AllFlags /\ "E0ESC" \notin Pressed(flags, key)
           /\ flags \ shiftcode(key) \in SUBSET AllFlags /\ "E0ESC" \notin flags \ shiftcode(key)
  <1>1. shiftcode(key) \subseteq {"CTL", "SHIFT"} /\ togglecode(key) \subseteq {"CAPSLOCK"}
    BY DEF shiftcode, togglecode
  <1> QED  BY <1>1 DEF Pressed, Xor, AllFlags

LEMMA OneCode ==
    ASSUME NEW codes \in Seq(Nat), NEW code \in Nat, NEW s, NEW t, NEW s1, NEW t1, Decodes(codes, s, t, s1, t1)
    PROVE  /\ codes \o <<code>> \in Seq(Nat)
           /\ Decodes(codes \o <<code>>, s, t, NewShift(s1, code), Add(t1, kbd_proc_data(s1, code)))
  <1>1. codes \o <<code>> = Append(codes, code)
    OBVIOUS
  <1>2. Append(codes, code) \in Seq(Nat)
    OBVIOUS
  <1>3. Decodes(Append(codes, code), s, t, NewShift(s1, code), Add(t1, kbd_proc_data(s1, code)))
    BY DecodesMore
  <1> QED  BY <1>1, <1>2, <1>3

LEMMA TwoCodes ==
    ASSUME NEW codes \in Seq(Nat), NEW c1 \in Nat, NEW c2 \in Nat, NEW s, NEW t, NEW s1, NEW t1,
           Decodes(codes, s, t, s1, t1)
    PROVE  /\ codes \o <<c1, c2>> \in Seq(Nat)
           /\ Decodes(codes \o <<c1, c2>>, s, t, NewShift(NewShift(s1, c1), c2),
                      Add(Add(t1, kbd_proc_data(s1, c1)), kbd_proc_data(NewShift(s1, c1), c2)))
  <1> DEFINE first == codes \o <<c1>>
             s2 == NewShift(s1, c1)
             t2 == Add(t1, kbd_proc_data(s1, c1))
  <1>1. first \in Seq(Nat) /\ Decodes(first, s, t, s2, t2)
    BY OneCode
  <1>2. codes \o <<c1, c2>> = first \o <<c2>>
    <2> DEFINE both == codes \o <<c1, c2>>
               last == first \o <<c2>>
               n == Len(codes)
    <2>1. both \in Seq(Nat) /\ Len(both) = n + 2 /\ both[n + 1] = c1 /\ both[n + 2] = c2
          /\ \A k \in 1..n : both[k] = codes[k]
      OBVIOUS
    <2>2. Len(first) = n + 1 /\ first[n + 1] = c1 /\ \A k \in 1..n : first[k] = codes[k]
      OBVIOUS
    <2>3. last \in Seq(Nat) /\ Len(last) = n + 2 /\ last[n + 2] = c2 /\ \A k \in 1..(n + 1) : last[k] = first[k]
      <3> HIDE DEF first
      <3> QED  BY <1>1, <2>2
    <2>4. n \in Nat
      OBVIOUS
    <2> HIDE DEF both, last, first, n
    <2>5. \A k \in 1..(n + 2) : both[k] = last[k]
      BY <2>1, <2>2, <2>3, <2>4
    <2>6. both = last
      BY <2>1, <2>3, <2>5, SeqEqual
    <2> QED  BY <2>6 DEF both, last
  <1> HIDE DEF first, s2, t2
  <1>3. first \o <<c2>> \in Seq(Nat) /\ Decodes(first \o <<c2>>, s, t, NewShift(s2, c2), Add(t2, kbd_proc_data(s2, c2)))
    BY <1>1, OneCode
  <1> QED  BY <1>2, <1>3 DEF s2, t2

\* The escape is a flag until the code that follows it.
LEMMA Escape ==
    ASSUME NEW flags \in SUBSET AllFlags, NEW t
    PROVE  NewShift(flags, E0) = flags \cup {"E0ESC"} /\ Add(t, kbd_proc_data(flags, E0)) = t
  BY DEF NewShift, kbd_proc_data, Released, E0, Add

\* A key that is pressed.
LEMMA MakeDecodes ==
    ASSUME NEW codes \in Seq(Nat), NEW key \in KeyCode, NEW s, NEW t,
           NEW flags \in SUBSET AllFlags, "E0ESC" \notin flags, NEW text, Decodes(codes, s, t, flags, text)
    PROVE  /\ codes \o Make(key) \in Seq(Nat)
           /\ Decodes(codes \o Make(key), s, t, Pressed(flags, key), Add(text, charcode(Pressed(flags, key), key)))
  <1>1. CASE key < 128
    <2>1. Make(key) = <<key>> /\ key \in Nat
      BY <1>1 DEF Make, KeyCode
    <2>2. ~Released(key) /\ key # E0
      BY <1>1, <2>1 DEF Released, E0
    <2>3. Key(flags, key) = key
      <3>1. key % 128 = key
        BY <1>1, <2>1
      <3> QED  BY <3>1 DEF Key
    <2>4. flags \ {"E0ESC"} = flags
      OBVIOUS
    <2>5. NewShift(flags, key) = Pressed(flags, key)
      BY <2>2, <2>3, <2>4 DEF NewShift, Pressed
    <2>6. kbd_proc_data(flags, key) = charcode(Pressed(flags, key), key)
      BY <2>2, <2>3, <2>5 DEF kbd_proc_data
    <2>7. /\ codes \o <<key>> \in Seq(Nat)
          /\ Decodes(codes \o <<key>>, s, t, NewShift(flags, key), Add(text, kbd_proc_data(flags, key)))
      BY <2>1, OneCode
    <2> QED  BY <2>1, <2>5, <2>6, <2>7
  <1>2. CASE key >= 128
    <2> DEFINE esc == flags \cup {"E0ESC"}
               code == key - 128
    <2>1. Make(key) = <<E0, code>> /\ code \in Nat /\ code < 128 /\ E0 \in Nat
      BY <1>2 DEF Make, KeyCode, E0
    <2>2. ~Released(code) /\ code # E0
      BY <2>1 DEF Released, E0
    <2>3. Key(esc, code) = key
      <3>1. code % 128 = code /\ code + 128 = key
        <4>1. code \in 0..127 /\ code + 128 = key
          BY <1>2 DEF KeyCode
        <4> HIDE DEF code
        <4> QED  BY <4>1
      <3> QED  BY <3>1 DEF Key
    <2>4. esc \ {"E0ESC"} = flags
      OBVIOUS
    <2>5. NewShift(flags, E0) = esc /\ Add(text, kbd_proc_data(flags, E0)) = text
      BY Escape
    <2> HIDE DEF esc, code
    <2>6. NewShift(esc, code) = Pressed(flags, key)
      BY <2>2, <2>3, <2>4 DEF NewShift, Pressed
    <2>7. kbd_proc_data(esc, code) = charcode(Pressed(flags, key), key)
      BY <2>2, <2>3, <2>6 DEF kbd_proc_data
    <2>8. /\ codes \o <<E0, code>> \in Seq(Nat)
          /\ Decodes(codes \o <<E0, code>>, s, t, NewShift(NewShift(flags, E0), code),
                     Add(Add(text, kbd_proc_data(flags, E0)), kbd_proc_data(NewShift(flags, E0), code)))
      BY <2>1, TwoCodes
    <2> QED  BY <2>1, <2>5, <2>6, <2>7, <2>8
  <1> QED  BY <1>1, <1>2 DEF KeyCode

\* A key that is released.
LEMMA BreakDecodes ==
    ASSUME NEW codes \in Seq(Nat), NEW key \in KeyCode, NEW s, NEW t,
           NEW flags \in SUBSET AllFlags, "E0ESC" \notin flags, NEW text, Decodes(codes, s, t, flags, text)
    PROVE  /\ codes \o Break(key) \in Seq(Nat)
           /\ Decodes(codes \o Break(key), s, t, flags \ shiftcode(key), text)
  <1>1. CASE key < 128
    <2> DEFINE code == key + 128
    <2>1. Break(key) = <<code>> /\ code \in Nat /\ code >= 128
      BY <1>1 DEF Break, KeyCode
    <2>2. Released(code) /\ code # E0
      BY <2>1, <1>1 DEF Released, E0, KeyCode
    <2>3. Key(flags, code) = key
      <3>1. code % 128 = key
        BY <1>1 DEF KeyCode
      <3> QED  BY <3>1 DEF Key
    <2> HIDE DEF code
    <2>4. NewShift(flags, code) = flags \ shiftcode(key)
      <3>1. NewShift(flags, code) = flags \ (shiftcode(key) \cup {"E0ESC"})
        BY <2>2, <2>3 DEF NewShift
      <3> QED  BY <3>1
    <2>5. Add(text, kbd_proc_data(flags, code)) = text
      BY <2>2 DEF kbd_proc_data, Add
    <2>6. /\ codes \o <<code>> \in Seq(Nat)
          /\ Decodes(codes \o <<code>>, s, t, NewShift(flags, code), Add(text, kbd_proc_data(flags, code)))
      BY <2>1, OneCode
    <2> QED  BY <2>1, <2>4, <2>5, <2>6
  <1>2. CASE key >= 128
    <2> DEFINE esc == flags \cup {"E0ESC"}
    <2>1. Break(key) = <<E0, key>> /\ key \in Nat /\ E0 \in Nat
      BY <1>2 DEF Break, KeyCode, E0
    <2>2. Released(key) /\ key # E0
      BY <1>2 DEF Released, E0, KeyCode
    <2>3. Key(esc, key) = key
      <3>1. (key % 128) + 128 = key
        BY <1>2 DEF KeyCode
      <3> QED  BY <3>1 DEF Key
    <2>4. NewShift(flags, E0) = esc /\ Add(text, kbd_proc_data(flags, E0)) = text
      BY Escape
    <2>5. esc \ (shiftcode(key) \cup {"E0ESC"}) = flags \ shiftcode(key)
      OBVIOUS
    <2> HIDE DEF esc
    <2>6. NewShift(esc, key) = flags \ shiftcode(key)
      BY <2>2, <2>3, <2>5 DEF NewShift
    <2>7. Add(text, kbd_proc_data(esc, key)) = text
      BY <2>2 DEF kbd_proc_data, Add
    <2>8. /\ codes \o <<E0, key>> \in Seq(Nat)
          /\ Decodes(codes \o <<E0, key>>, s, t, NewShift(NewShift(flags, E0), key),
                     Add(Add(text, kbd_proc_data(flags, E0)), kbd_proc_data(NewShift(flags, E0), key)))
      BY <2>1, TwoCodes
    <2> QED  BY <2>1, <2>4, <2>6, <2>7, <2>8
  <1> QED  BY <1>1, <1>2 DEF KeyCode

(********************************** the ring *********************************)
RingType ==
    /\ rpos \in 0..(CONSBUFSIZE - 1) /\ wpos \in 0..(CONSBUFSIZE - 1)
    /\ buf \in [0..(CONSBUFSIZE - 1) -> Char]
    /\ got \in Seq(Char)

\* How far one position is ahead of another, and where that many further is.
LEMMA RingPlaces ==
    ASSUME NEW n \in Nat \ {0}, NEW r \in 0..(n - 1), NEW w \in 0..(n - 1)
    PROVE  /\ (w - r) % n = IF r <= w THEN w - r ELSE (w - r) + n
           /\ (r + w) % n = IF r + w < n THEN r + w ELSE (r + w) - n
           /\ (w + 1) % n = IF w + 1 < n THEN w + 1 ELSE 0
  <1>1. (w - r) % n = IF r <= w THEN w - r ELSE (w - r) + n
    <2>1. CASE r <= w
      <3>1. w - r \in 0..(n - 1)
        BY <2>1
      <3>2. (w - r) % n = w - r
        BY <3>1, Around
      <3> QED  BY <2>1, <3>2
    <2>2. CASE r > w
      <3> DEFINE i == (w - r) + n
      <3>1. i \in 0..(n - 1) /\ i - n = w - r
        BY <2>2
      <3> HIDE DEF i
      <3>2. (i - n) % n = i
        BY <3>1, Around
      <3>3. (w - r) % n = (w - r) + n
        BY <3>1, <3>2 DEF i
      <3> QED  BY <2>2, <3>3
    <2> QED  BY <2>1, <2>2
  <1>2. (r + w) % n = IF r + w < n THEN r + w ELSE (r + w) - n
    <2>1. CASE r + w < n
      <3>1. r + w \in 0..(n - 1)
        BY <2>1
      <3>2. (r + w) % n = r + w
        BY <3>1, Around
      <3> QED  BY <2>1, <3>2
    <2>2. CASE r + w >= n
      <3> DEFINE i == (r + w) - n
      <3>1. i \in 0..(n - 1) /\ i + n = r + w
        BY <2>2
      <3> HIDE DEF i
      <3>2. (i + n) % n = i
        BY <3>1, Around
      <3>3. (r + w) % n = (r + w) - n
        BY <3>1, <3>2 DEF i
      <3> QED  BY <2>2, <3>3
    <2> QED  BY <2>1, <2>2
  <1>3. (w + 1) % n = IF w + 1 < n THEN w + 1 ELSE 0
    <2>1. CASE w + 1 < n
      <3>1. w + 1 \in 0..(n - 1)
        BY <2>1
      <3>2. (w + 1) % n = w + 1
        BY <3>1, Around
      <3> QED  BY <2>1, <3>2
    <2>2. CASE w + 1 >= n
      <3>1. w + 1 = 0 + n /\ 0 \in 0..(n - 1)
        BY <2>2
      <3>2. (0 + n) % n = 0
        BY <3>1, Around
      <3> QED  BY <2>2, <3>1, <3>2
    <2> QED  BY <2>1, <2>2
  <1> QED  BY <1>1, <1>2, <1>3

Waits == (wpos - rpos) % CONSBUFSIZE
Place(k) == (rpos + k - 1) % CONSBUFSIZE

\* The characters that wait: their number, and the places they have.
LEMMA RingIs ==
    ASSUME RingType
    PROVE  /\ CONSBUFSIZE \in Nat \ {0}
           /\ Waits = IF rpos <= wpos THEN wpos - rpos ELSE (wpos - rpos) + CONSBUFSIZE
           /\ Waits \in 0..(CONSBUFSIZE - 1)
           /\ \A k \in 1..CONSBUFSIZE :
                 Place(k) = IF rpos + k - 1 < CONSBUFSIZE THEN rpos + k - 1 ELSE (rpos + k - 1) - CONSBUFSIZE
           /\ Ring = [k \in 1..Waits |-> buf[Place(k)]]
           /\ Ring \in Seq(Char) /\ Len(Ring) = Waits /\ In \in Seq(Char)
  <1>1. CONSBUFSIZE \in Nat \ {0}
    BY ConsoleAssumption
  <1>2. rpos \in 0..(CONSBUFSIZE - 1) /\ wpos \in 0..(CONSBUFSIZE - 1)
    BY DEF RingType
  <1>3. Waits = IF rpos <= wpos THEN wpos - rpos ELSE (wpos - rpos) + CONSBUFSIZE
    BY <1>1, <1>2, RingPlaces DEF Waits
  <1>4. Waits \in 0..(CONSBUFSIZE - 1)
    BY <1>1, <1>2, <1>3
  <1>5. ASSUME NEW k \in 1..CONSBUFSIZE
        PROVE  Place(k) = IF rpos + k - 1 < CONSBUFSIZE THEN rpos + k - 1 ELSE (rpos + k - 1) - CONSBUFSIZE
    <2>1. k - 1 \in 0..(CONSBUFSIZE - 1) /\ rpos + (k - 1) = rpos + k - 1
      BY <1>1, <1>2
    <2>2. (rpos + (k - 1)) % CONSBUFSIZE = IF rpos + (k - 1) < CONSBUFSIZE THEN rpos + (k - 1)
                                           ELSE (rpos + (k - 1)) - CONSBUFSIZE
      BY <1>1, <1>2, <2>1, RingPlaces
    <2> QED  BY <2>1, <2>2 DEF Place
  <1>6. Ring = [k \in 1..Waits |-> buf[Place(k)]]
    BY DEF Ring, Waits, Place
  <1>7. \A k \in 1..Waits : buf[Place(k)] \in Char
    <2> SUFFICES ASSUME NEW k \in 1..Waits PROVE buf[Place(k)] \in Char
      OBVIOUS
    <2>1. k \in 1..CONSBUFSIZE
      BY <1>1, <1>4
    <2>2. Place(k) \in 0..(CONSBUFSIZE - 1)
      BY <1>1, <1>2, <1>5, <2>1
    <2> QED  BY <2>2 DEF RingType
  <1>8. Ring \in Seq(Char) /\ Len(Ring) = Waits
    <2>1. Waits \in Nat
      BY <1>1, <1>4
    <2>2. Ring \in [1..Waits -> Char]
      BY <1>6, <1>7
    <2> QED  BY <2>1, <2>2
  <1>9. In \in Seq(Char)
    BY <1>8 DEF In, RingType
  <1> QED  BY <1>1, <1>3, <1>4, <1>5, <1>6, <1>8, <1>9

\* cons_intr() puts a character behind the others, unless the ring is full.
LEMMA RingPut ==
    ASSUME RingType, NEW c \in Char, c # NO, Put(c), rpos' = rpos, got' = got
    PROVE  RingType' /\ (~overrun' => In' = Append(In, c))
  <1> DEFINE n == CONSBUFSIZE
             d == Waits
  <1>0. /\ n \in Nat \ {0} /\ d \in 0..(n - 1)
        /\ rpos \in 0..(n - 1) /\ wpos \in 0..(n - 1) /\ buf \in [0..(n - 1) -> Char]
    BY RingIs DEF RingType
  <1>1. buf' = [buf EXCEPT ![wpos] = c] /\ wpos' = (wpos + 1) % n /\ overrun' = (overrun \/ wpos' = rpos)
    BY DEF Put
  <1>2. wpos' = IF wpos + 1 < n THEN wpos + 1 ELSE 0
    BY <1>0, <1>1, RingPlaces
  <1>3. RingType'
    <2>1. wpos' \in 0..(n - 1)
      BY <1>0, <1>2
    <2>2. buf' \in [0..(n - 1) -> Char]
      BY <1>0, <1>1
    <2> QED  BY <2>1, <2>2, <1>0 DEF RingType
  <1>4. SUFFICES ASSUME ~overrun' PROVE In' = Append(In, c)
    BY <1>3
  <1>5. wpos' # rpos
    BY <1>1, <1>4
  <1>6. d = IF rpos <= wpos THEN wpos - rpos ELSE (wpos - rpos) + n
    BY RingIs
  <1>7. Waits' = IF rpos <= wpos' THEN wpos' - rpos ELSE (wpos' - rpos) + n
    <2>1. Waits' = (wpos' - rpos') % n
      BY DEF Waits
    <2>2. wpos' \in 0..(n - 1)
      BY <1>0, <1>2
    <2> QED  BY <1>0, <2>1, <2>2, RingPlaces
  <1>8. Waits' = d + 1
    <2> HIDE DEF d
    <2> QED  BY <1>0, <1>2, <1>5, <1>6, <1>7
  <1>9. ASSUME NEW k \in 1..d PROVE Place(k) \in 0..(n - 1) /\ Place(k) # wpos
    <2>1. Place(k) = IF rpos + k - 1 < n THEN rpos + k - 1 ELSE (rpos + k - 1) - n
      <3>1. k \in 1..n
        BY <1>0
      <3> QED  BY <3>1, RingIs
    <2> HIDE DEF d
    <2> QED  BY <1>0, <1>6, <2>1
  <1>10. Place(d + 1) = wpos /\ d + 1 \in 1..n
    <2>1. d + 1 \in 1..n
      BY <1>0
    <2>2. Place(d + 1) = IF rpos + (d + 1) - 1 < n THEN rpos + (d + 1) - 1 ELSE (rpos + (d + 1) - 1) - n
      BY <2>1, RingIs
    <2> HIDE DEF d
    <2> QED  BY <1>0, <1>6, <2>1, <2>2
  <1>11. \A k : Place(k)' = (rpos + k - 1) % n
    BY DEF Place
  <1>12. Ring' = [k \in 1..(d + 1) |-> buf'[Place(k)]]
    <2>1. Ring' = [k \in 1..Waits' |-> buf'[Place(k)]]
      BY DEF Ring, Waits, Place
    <2> QED  BY <2>1, <1>8
  <1>13. Ring' = Append(Ring, c)
    <2>1. Ring \in Seq(Char) /\ Len(Ring) = d
      BY RingIs
    <2>4. /\ Append(Ring, c) \in Seq(Char) /\ Len(Append(Ring, c)) = d + 1
          /\ Append(Ring, c)[d + 1] = c /\ \A k \in 1..d : Append(Ring, c)[k] = Ring[k]
      <3> HIDE DEF d
      <3> QED  BY <2>1
    <2>2. Ring' \in Seq(Char) /\ Len(Ring') = d + 1
      <3>1. (Ring \in Seq(Char) /\ Len(Ring) = Waits)'
        BY <1>3, RingIs, PTL
      <3> QED  BY <3>1, <1>8
    <2>3. ASSUME NEW k \in 1..(d + 1) PROVE Ring'[k] = Append(Ring, c)[k]
      <3>1. Ring'[k] = buf'[Place(k)]
        BY <1>12
      <3>2. CASE k \in 1..d
        <4>1. Ring'[k] = buf[Place(k)]
          BY <1>0, <1>1, <1>9, <3>1, <3>2
        <4>2. Ring[k] = buf[Place(k)]
          BY <3>2, RingIs
        <4>3. Append(Ring, c)[k] = Ring[k]
          BY <2>4, <3>2
        <4> QED  BY <4>1, <4>2, <4>3
      <3>3. CASE k = d + 1
        <4>1. buf'[wpos] = c
          BY <1>0, <1>1
        <4>2. Ring'[k] = c
          BY <1>10, <3>1, <3>3, <4>1
        <4>3. Append(Ring, c)[k] = c
          BY <2>4, <3>3
        <4> QED  BY <4>2, <4>3
      <3>4. k \in 1..d \/ k = d + 1
        <4> HIDE DEF d
        <4> QED  BY <1>0
      <3> QED  BY <3>2, <3>3, <3>4
    <2> HIDE DEF d
    <2> QED  BY <2>2, <2>3, <2>4, SeqEqual
  <1>14. got \o Append(Ring, c) = Append(got \o Ring, c)
    <2>1. got \in Seq(Char) /\ Ring \in Seq(Char)
      BY RingIs DEF RingType
    <2> QED  BY <2>1
  <1> QED  BY <1>13, <1>14 DEF In

\* cons_getc() takes the first one.
LEMMA RingGet ==
    ASSUME RingType, rpos # wpos, rpos' = (rpos + 1) % CONSBUFSIZE, got' = Append(got, buf[rpos]),
           wpos' = wpos, buf' = buf
    PROVE  RingType' /\ In' = In
  <1> DEFINE n == CONSBUFSIZE
             d == Waits
  <1>0. /\ n \in Nat \ {0} /\ d \in 0..(n - 1)
        /\ rpos \in 0..(n - 1) /\ wpos \in 0..(n - 1) /\ buf \in [0..(n - 1) -> Char]
        /\ got \in Seq(Char)
    BY RingIs DEF RingType
  <1>1. rpos' = IF rpos + 1 < n THEN rpos + 1 ELSE 0
    BY <1>0, RingPlaces
  <1>2. RingType'
    <2>1. rpos' \in 0..(n - 1)
      BY <1>0, <1>1
    <2>2. got' \in Seq(Char)
      BY <1>0
    <2> QED  BY <2>1, <2>2, <1>0 DEF RingType
  <1>3. d = IF rpos <= wpos THEN wpos - rpos ELSE (wpos - rpos) + n
    BY RingIs
  <1>4. Waits' = d - 1 /\ d >= 1
    <2>1. Waits' = IF rpos' <= wpos' THEN wpos' - rpos' ELSE (wpos' - rpos') + n
      <3>1. (Waits = IF rpos <= wpos THEN wpos - rpos ELSE (wpos - rpos) + CONSBUFSIZE)'
        BY <1>2, RingIs, PTL
      <3> QED  BY <3>1
    <2> HIDE DEF d
    <2> QED  BY <1>0, <1>1, <1>3, <2>1
  <1>p. (\A k \in 1..CONSBUFSIZE :
            Place(k) = IF rpos + k - 1 < CONSBUFSIZE THEN rpos + k - 1 ELSE (rpos + k - 1) - CONSBUFSIZE)'
    BY <1>2, RingIs, PTL
  <1>5. ASSUME NEW k \in 1..(d - 1) PROVE Place(k)' = Place(k + 1)
    <2>1. k \in 1..n /\ k + 1 \in 1..n
      BY <1>0
    <2>2. Place(k + 1) = IF rpos + (k + 1) - 1 < n THEN rpos + (k + 1) - 1 ELSE (rpos + (k + 1) - 1) - n
      BY <2>1, RingIs
    <2>3. Place(k)' = IF rpos' + k - 1 < n THEN rpos' + k - 1 ELSE (rpos' + k - 1) - n
      <3> QED  BY <2>1, <1>p
    <2> HIDE DEF d
    <2> QED  BY <1>0, <1>1, <1>3, <2>1, <2>2, <2>3
  <1>6. Ring \in Seq(Char) /\ Len(Ring) = d /\ Ring = [k \in 1..d |-> buf[Place(k)]]
    BY RingIs
  <1>7. Ring' \in Seq(Char) /\ Len(Ring') = d - 1
    <2>1. (Ring \in Seq(Char) /\ Len(Ring) = Waits)'
      BY <1>2, RingIs, PTL
    <2> QED  BY <2>1, <1>4
  <1>8. Ring' = [k \in 1..(d - 1) |-> buf[Place(k)']]
    <2>1. Ring' = [k \in 1..Waits' |-> buf'[Place(k)']]
      BY DEF Ring, Waits, Place
    <2> QED  BY <2>1, <1>4
  <1>9. Ring[1] = buf[rpos]
    <2>1. Place(1) = IF rpos + 1 - 1 < n THEN rpos + 1 - 1 ELSE (rpos + 1 - 1) - n
      <3>1. 1 \in 1..n
        BY <1>0
      <3> QED  BY <3>1, RingIs
    <2>2. Place(1) = rpos
      BY <1>0, <2>1
    <2>3. 1 \in 1..d
      BY <1>0, <1>4
    <2> QED  BY <1>6, <2>2, <2>3
  <1>10. ASSUME NEW k \in 1..(d - 1) PROVE Ring'[k] = Ring[k + 1]
    <2>1. k + 1 \in 1..d
      BY <1>0
    <2>2. Ring[k + 1] = buf[Place(k + 1)]
      BY <1>6, <2>1
    <2>3. Ring'[k] = buf[Place(k)']
      BY <1>8
    <2> QED  BY <2>2, <2>3, <1>5
  <1>11. got' \o Ring' = got \o Ring
    <2> DEFINE now == got' \o Ring'
               before == got \o Ring
               g == Len(got)
    <2>0. g \in Nat /\ d \in Nat /\ d >= 1
      BY <1>0, <1>4
    <2>1. before \in Seq(Char) /\ Len(before) = g + d
          /\ (\A k \in 1..g : before[k] = got[k]) /\ (\A k \in 1..d : before[g + k] = Ring[k])
      <3> HIDE DEF d
      <3> QED  BY <1>0, <1>6
    <2>2. Len(got') = g + 1 /\ got'[g + 1] = buf[rpos] /\ (\A k \in 1..g : got'[k] = got[k]) /\ got' \in Seq(Char)
      <3>1. buf[rpos] \in Char
        BY <1>0
      <3> QED  BY <1>0, <3>1
    <2>3. now \in Seq(Char) /\ Len(now) = (g + 1) + (d - 1)
          /\ (\A k \in 1..(g + 1) : now[k] = got'[k]) /\ (\A k \in 1..(d - 1) : now[(g + 1) + k] = Ring'[k])
      <3>1. Ring' \in Seq(Char) /\ Len(Ring') = d - 1 /\ d - 1 \in Nat
        BY <1>7, <2>0
      <3>2. got' \in Seq(Char) /\ Len(got') = g + 1
        BY <2>2
      <3> HIDE DEF d, g
      <3>3. Len(now) = Len(got') + Len(Ring') /\ now \in Seq(Char)
        BY <3>1, <3>2, SMTT(60)
      <3>4. \A k \in 1..Len(got') : now[k] = got'[k]
        BY <3>1, <3>2
      <3>5. \A k \in 1..Len(Ring') : now[Len(got') + k] = Ring'[k]
        BY <3>1, <3>2
      <3> QED  BY <2>0, <3>1, <3>2, <3>3, <3>4, <3>5
    <2> HIDE DEF now, before, g, d
    <2>4. ASSUME NEW k \in 1..(g + d) PROVE now[k] = before[k]
      <3>1. CASE k \in 1..g
        <4>1. now[k] = got'[k]
          <5>1. k \in 1..(g + 1)
            BY <2>0, <3>1
          <5> QED  BY <2>3, <5>1
        <4> QED  BY <4>1, <2>1, <2>2, <3>1
      <3>2. CASE k = g + 1
        <4>1. now[k] = buf[rpos]
          BY <2>0, <2>2, <2>3, <3>2
        <4>2. before[k] = Ring[1]
          BY <2>0, <2>1, <3>2
        <4> QED  BY <4>1, <4>2, <1>9
      <3>3. CASE k > g + 1
        <4> DEFINE j == k - (g + 1)
        <4>1. j \in 1..(d - 1) /\ k = (g + 1) + j /\ j + 1 \in 1..d /\ k = g + (j + 1)
          BY <2>0, <3>3
        <4> HIDE DEF j
        <4>2. now[k] = Ring'[j]
          BY <2>3, <4>1
        <4>3. before[k] = Ring[j + 1]
          BY <2>1, <4>1
        <4> QED  BY <1>10, <4>1, <4>2, <4>3
      <3> QED  BY <2>0, <3>1, <3>2, <3>3
    <2>5. now = before
      <3>1. Len(now) = Len(before) /\ Len(before) = g + d
        BY <2>0, <2>1, <2>3
      <3> QED  BY <2>1, <2>3, <2>4, <3>1, SeqEqual
    <2> QED  BY <2>5 DEF now, before
  <1> QED  BY <1>2, <1>11 DEF In

(********************************* the input *********************************)
\* One key for each flag: kbd_proc_data() ends SHIFT when one of two is released.
OneOfEach ==
    /\ Modifiers \subseteq {LEFT_CTL, RIGHT_CTL, LEFT_SHIFT, RIGHT_SHIFT}
    /\ \A k, l \in Modifiers : shiftcode(k) = shiftcode(l) => k = l
    /\ \A k \in Taps : shiftcode(k) = {}

\* What the keys that are down stand for.
Flags == (UNION {shiftcode(k) : k \in held}) \cup (IF caps THEN {"CAPSLOCK"} ELSE {})

DevicesType ==
    /\ held \subseteq Modifiers /\ caps \in BOOLEAN
    /\ kq \in Seq(Nat) /\ (sq = <<>> \/ \E c \in SerialChars : sq = <<c>>)

\* What waits in the ring and what the devices still have is what was typed.
Arrives ==
    /\ FromSerial(In) \o sq = sent
    /\ Decodes(kq, shift, FromKeyboard(In), Flags, typed)

InputInv == RingType /\ DevicesType /\ (overrun \/ Arrives)

LEMMA KeyCodes == OneOfEach => Modifiers \subseteq KeyCode /\ Taps \subseteq KeyCode
  BY KeyAssumption DEF KeyCode

LEMMA FlagsAreFlags == Flags \in SUBSET AllFlags /\ "E0ESC" \notin Flags
  <1>1. \A k : shiftcode(k) \subseteq {"CTL", "SHIFT"}
    BY DEF shiftcode
  <1> QED  BY <1>1 DEF Flags, AllFlags

\* The devices' characters are told apart.
LEMMA FromDevice ==
    ASSUME NEW chars \in Seq(Char)
    PROVE  /\ \A c \in SerialChars : /\ c \in Char /\ c # NO
                                     /\ FromSerial(Append(chars, c)) = Append(FromSerial(chars), c)
                                     /\ FromKeyboard(Append(chars, c)) = FromKeyboard(chars)
           /\ \A c \in KeyChars : /\ c \in Char
                                  /\ FromSerial(Append(chars, c)) = FromSerial(chars)
                                  /\ FromKeyboard(Append(chars, c)) = Append(FromKeyboard(chars), c)
           /\ FromSerial(chars) \in Seq(Char) /\ FromKeyboard(chars) \in Seq(Char)
  <1>1. ASSUME NEW c \in SerialChars
        PROVE  /\ c \in Char /\ c # NO
               /\ FromSerial(Append(chars, c)) = Append(FromSerial(chars), c)
               /\ FromKeyboard(Append(chars, c)) = FromKeyboard(chars)
    <2>1. c \in Char /\ c # NO
      BY KeyAssumption DEF Char
    <2>2. /\ Part(Append(chars, c), TRUE) = Taken(Part(chars, TRUE), c, TRUE)
          /\ Part(Append(chars, c), FALSE) = Taken(Part(chars, FALSE), c, FALSE)
      BY <2>1, PartAppend
    <2> QED  BY <2>1, <2>2 DEF FromSerial, FromKeyboard, Taken
  <1>2. ASSUME NEW c \in KeyChars
        PROVE  /\ c \in Char
               /\ FromSerial(Append(chars, c)) = FromSerial(chars)
               /\ FromKeyboard(Append(chars, c)) = Append(FromKeyboard(chars), c)
    <2>1. c \in Char /\ c \notin SerialChars
      BY KeyAssumption DEF Char
    <2>2. /\ Part(Append(chars, c), TRUE) = Taken(Part(chars, TRUE), c, TRUE)
          /\ Part(Append(chars, c), FALSE) = Taken(Part(chars, FALSE), c, FALSE)
      BY <2>1, PartAppend
    <2> QED  BY <2>1, <2>2 DEF FromSerial, FromKeyboard, Taken
  <1>3. FromSerial(chars) \in Seq(Char) /\ FromKeyboard(chars) \in Seq(Char)
    BY PartType DEF FromSerial, FromKeyboard
  <1> QED  BY <1>1, <1>2, <1>3

LEMMA InputInit == Init => InputInv
  <1> SUFFICES ASSUME Init PROVE InputInv
    OBVIOUS
  <1>1. /\ kq = <<>> /\ sq = <<>> /\ shift = {} /\ rpos = 0 /\ wpos = 0
        /\ held = {} /\ caps = FALSE /\ typed = <<>> /\ sent = <<>> /\ got = <<>>
    BY DEF Init
  <1>2. buf = [p \in 0..(CONSBUFSIZE - 1) |-> NO]
    BY DEF Init
  <1>3. RingType
    <2>1. CONSBUFSIZE \in Nat \ {0} /\ NO \in Char
      BY ConsoleAssumption DEF Char
    <2>2. buf \in [0..(CONSBUFSIZE - 1) -> Char]
      BY <1>2, <2>1
    <2>3. 0 \in 0..(CONSBUFSIZE - 1)
      BY <2>1
    <2>4. got \in Seq(Char)
      BY <1>1
    <2> QED  BY <1>1, <2>2, <2>3, <2>4 DEF RingType
  <1>4. DevicesType
    <2>1. held \subseteq Modifiers /\ caps \in BOOLEAN
      BY <1>1
    <2>2. kq \in Seq(Nat)
      BY <1>1
    <2> QED  BY <1>1, <2>1, <2>2 DEF DevicesType
  <1>5. In = <<>>
    <2>1. Ring \in Seq(Char) /\ Len(Ring) = Waits
      BY <1>3, RingIs
    <2>2. Waits = IF rpos <= wpos THEN wpos - rpos ELSE (wpos - rpos) + CONSBUFSIZE
      BY <1>3, RingIs
    <2>3. Waits = 0
      BY <1>1, <2>2
    <2>4. Ring = <<>>
      BY <2>1, <2>3
    <2> QED  BY <1>1, <2>4 DEF In
  <1>6. FromSerial(In) = <<>> /\ FromKeyboard(In) = <<>>
    BY <1>5, PartEmpty DEF FromSerial, FromKeyboard
  <1>7. FromSerial(In) \o sq = sent
    BY <1>1, <1>6
  <1>8. Flags = {}
    BY <1>1 DEF Flags
  <1>9. Decodes(<<>>, {}, <<>>, {}, <<>>)
    <2>1. {} \in SUBSET AllFlags /\ <<>> \in Seq(Char)
      OBVIOUS
    <2> QED  BY <2>1, DecodesNothing
  <1>10. Decodes(kq, shift, FromKeyboard(In), Flags, typed)
    BY <1>1, <1>6, <1>8, <1>9
  <1> QED  BY <1>3, <1>4, <1>7, <1>10 DEF InputInv, Arrives

\* What is not the ring's leaves what came in alone.
LEMMA InputFrame ==
    ASSUME InputInv, UNCHANGED ringVars
    PROVE  RingType' /\ In' = In /\ FromSerial(In)' = FromSerial(In) /\ FromKeyboard(In)' = FromKeyboard(In)
           /\ overrun' = overrun /\ shift' = shift
  <1>1. /\ rpos' = rpos /\ wpos' = wpos /\ buf' = buf /\ got' = got /\ overrun' = overrun /\ shift' = shift
    BY DEF ringVars
  <1>2. RingType'
    BY <1>1 DEF InputInv, RingType
  <1>3. In' = In
    BY <1>1 DEF In, Ring
  <1>4. FromSerial(In)' = FromSerial(In) /\ FromKeyboard(In)' = FromKeyboard(In)
    BY <1>3 DEF FromSerial, FromKeyboard, Part
  <1> QED  BY <1>1, <1>2, <1>3, <1>4

LEMMA PressKeeps ==
    ASSUME OneOfEach, InputInv, NEW key \in Modifiers, Press(key)
    PROVE  InputInv'
  <1>1. /\ key \notin held /\ held' = held \cup {key} /\ caps' = caps /\ typed' = typed
        /\ kq' = kq \o Make(key) /\ sq' = sq /\ sent' = sent /\ UNCHANGED ringVars
    BY DEF Press, Type
  <1>2. key \in KeyCode /\ kq \in Seq(Nat)
    BY KeyCodes DEF InputInv, DevicesType
  <1>3. DevicesType'
    <2>1. Make(key) \in Seq(Nat)
      BY <1>2 DEF Make, KeyCode, E0
    <2>2. kq \o Make(key) \in Seq(Nat)
      BY <1>2, <2>1
    <2> QED  BY <1>1, <2>2 DEF InputInv, DevicesType
  <1>4. CASE overrun
    BY <1>1, <1>3, <1>4, InputFrame DEF InputInv
  <1>5. CASE Arrives
    <2>1. Pressed(Flags, key) = Flags \cup shiftcode(key) /\ charcode(Pressed(Flags, key), key) = NO
      <3>1. key \in {LEFT_CTL, RIGHT_CTL, LEFT_SHIFT, RIGHT_SHIFT}
        BY DEF OneOfEach
      <3>2. togglecode(key) = {}
        BY <3>1 DEF togglecode, LEFT_CTL, RIGHT_CTL, LEFT_SHIFT, RIGHT_SHIFT, CAPS_LOCK
      <3>3. normalmap(key) = NO /\ shiftmap(key) = NO /\ ctlmap(key) = NO
        BY <3>1 DEF normalmap, shiftmap, ctlmap, LEFT_CTL, RIGHT_CTL, LEFT_SHIFT, RIGHT_SHIFT,
                    KEY_D, ENTER, BACKSPACE, UP
      <3>4. charcode(Pressed(Flags, key), key) = NO
        BY <3>3 DEF charcode, NO
      <3> QED  BY <3>2, <3>4 DEF Pressed, Xor
    <2>2. Flags' = Flags \cup shiftcode(key)
      BY <1>1 DEF Flags
    <2>3. Decodes(kq, shift, FromKeyboard(In), Flags, typed)
      BY <1>5 DEF Arrives
    <2>4. Decodes(kq \o Make(key), shift, FromKeyboard(In), Pressed(Flags, key), Add(typed, charcode(Pressed(Flags, key), key)))
      BY <1>2, <2>3, FlagsAreFlags, MakeDecodes
    <2>5. Decodes(kq \o Make(key), shift, FromKeyboard(In), Flags', typed)
      BY <2>1, <2>2, <2>4 DEF Add
    <2>6. Decodes(kq', shift', FromKeyboard(In)', Flags', typed')
      BY <1>1, <2>5, InputFrame
    <2>7. (FromSerial(In) \o sq = sent)'
      BY <1>1, <1>5, InputFrame DEF Arrives
    <2>8. Arrives'
      BY <2>6, <2>7 DEF Arrives
    <2> QED  BY <1>1, <1>3, <2>8, InputFrame DEF InputInv
  <1> QED  BY <1>4, <1>5 DEF InputInv

LEMMA ReleaseKeeps ==
    ASSUME OneOfEach, InputInv, NEW key \in Modifiers, Release(key)
    PROVE  InputInv'
  <1>1. /\ key \in held /\ held' = held \ {key} /\ caps' = caps /\ typed' = typed
        /\ kq' = kq \o Break(key) /\ sq' = sq /\ sent' = sent /\ UNCHANGED ringVars
    BY DEF Release, Type
  <1>2. key \in KeyCode /\ kq \in Seq(Nat)
    BY KeyCodes DEF InputInv, DevicesType
  <1>3. DevicesType'
    <2>1. Break(key) \in Seq(Nat)
      BY <1>2 DEF Break, KeyCode, E0
    <2>2. kq \o Break(key) \in Seq(Nat)
      BY <1>2, <2>1
    <2> QED  BY <1>1, <2>2 DEF InputInv, DevicesType
  <1>4. CASE overrun
    BY <1>1, <1>3, <1>4, InputFrame DEF InputInv
  <1>5. CASE Arrives
    <2>2. Flags' = Flags \ shiftcode(key)
      <3>1. \A k \in held : k # key => shiftcode(k) \cap shiftcode(key) = {}
        <4> SUFFICES ASSUME NEW k \in held, k # key PROVE shiftcode(k) \cap shiftcode(key) = {}
          OBVIOUS
        <4>1. k \in Modifiers
          BY DEF InputInv, DevicesType
        <4>2. shiftcode(k) # shiftcode(key)
          BY <4>1 DEF OneOfEach
        <4>3. \A j : shiftcode(j) \in {{"CTL"}, {"SHIFT"}, {}}
          BY DEF shiftcode
        <4> QED  BY <4>2, <4>3
      <3>2. "CAPSLOCK" \notin shiftcode(key)
        BY DEF shiftcode
      <3>3. Flags' = (UNION {shiftcode(k) : k \in held \ {key}}) \cup (IF caps THEN {"CAPSLOCK"} ELSE {})
        BY <1>1 DEF Flags
      <3> QED  BY <3>1, <3>2, <3>3 DEF Flags
    <2>3. Decodes(kq, shift, FromKeyboard(In), Flags, typed)
      BY <1>5 DEF Arrives
    <2>4. Decodes(kq \o Break(key), shift, FromKeyboard(In), Flags \ shiftcode(key), typed)
      BY <1>2, <2>3, FlagsAreFlags, BreakDecodes
    <2>6. Decodes(kq', shift', FromKeyboard(In)', Flags', typed')
      BY <1>1, <2>2, <2>4, InputFrame
    <2>7. (FromSerial(In) \o sq = sent)'
      BY <1>1, <1>5, InputFrame DEF Arrives
    <2>8. Arrives'
      BY <2>6, <2>7 DEF Arrives
    <2> QED  BY <1>1, <1>3, <2>8, InputFrame DEF InputInv
  <1> QED  BY <1>4, <1>5 DEF InputInv

LEMMA TapKeeps ==
    ASSUME OneOfEach, InputInv, NEW key \in Taps, Tap(key)
    PROVE  InputInv'
  <1>1. /\ held' = held /\ caps' = (IF key = CAPS_LOCK THEN ~caps ELSE caps)
        /\ typed' = (IF Meant(key) = NO THEN typed ELSE Append(typed, Meant(key)))
        /\ kq' = kq \o (Make(key) \o Break(key)) /\ sq' = sq /\ sent' = sent /\ UNCHANGED ringVars
    BY DEF Tap, Type
  <1>2. key \in KeyCode /\ kq \in Seq(Nat)
    BY KeyCodes DEF InputInv, DevicesType
  <1>m. Make(key) \in Seq(Nat) /\ Break(key) \in Seq(Nat)
    BY <1>2 DEF Make, Break, KeyCode, E0
  <1>q. kq \o (Make(key) \o Break(key)) = (kq \o Make(key)) \o Break(key)
    <2> DEFINE m == Make(key)
               b == Break(key)
    <2> HIDE DEF m, b
    <2>1. m \in Seq(Nat) /\ b \in Seq(Nat)
      BY <1>m DEF m, b
    <2>2. kq \o (m \o b) = (kq \o m) \o b
      BY <1>2, <2>1, ConcatAssociative, SMTT(60)
    <2> QED  BY <2>2 DEF m, b
  <1>3. DevicesType'
    <2>1. Make(key) \o Break(key) \in Seq(Nat)
      BY <1>m
    <2>2. kq \o (Make(key) \o Break(key)) \in Seq(Nat)
      BY <1>2, <2>1
    <2>3. caps' \in BOOLEAN /\ held' \subseteq Modifiers
      BY <1>1 DEF InputInv, DevicesType
    <2> QED  BY <1>1, <2>2, <2>3 DEF InputInv, DevicesType
  <1>4. CASE overrun
    BY <1>1, <1>3, <1>4, InputFrame DEF InputInv
  <1>5. CASE Arrives
    <2>1. shiftcode(key) = {}
      BY DEF OneOfEach
    <2>2. Flags' = Pressed(Flags, key)
      <3>1. CASE key = CAPS_LOCK
        <4>1. togglecode(key) = {"CAPSLOCK"}
          BY <3>1 DEF togglecode
        <4>2. \A k : "CAPSLOCK" \notin shiftcode(k)
          BY DEF shiftcode
        <4>3. caps \in BOOLEAN /\ caps' = ~caps /\ held' = held
          BY <1>1, <3>1 DEF InputInv, DevicesType
        <4> DEFINE rest == UNION {shiftcode(k) : k \in held}
        <4>4. "CAPSLOCK" \notin rest
          BY <4>2
        <4>5. Flags = rest \cup (IF caps THEN {"CAPSLOCK"} ELSE {})
          BY DEF Flags
        <4>6. Flags' = rest \cup (IF caps' THEN {"CAPSLOCK"} ELSE {})
          BY <4>3 DEF Flags
        <4> HIDE DEF rest
        <4> QED  BY <2>1, <4>1, <4>3, <4>4, <4>5, <4>6 DEF Pressed, Xor
      <3>2. CASE key # CAPS_LOCK
        <4>1. togglecode(key) = {}
          BY <3>2 DEF togglecode
        <4>2. Flags' = Flags
          BY <1>1, <3>2 DEF Flags
        <4> QED  BY <2>1, <4>1, <4>2 DEF Pressed, Xor
      <3> QED  BY <3>1, <3>2
    <2>3. charcode(Pressed(Flags, key), key) = Meant(key)
      <3>1. CASE key = CAPS_LOCK
        <4>1. normalmap(key) = NO /\ shiftmap(key) = NO /\ ctlmap(key) = NO
          BY <3>1 DEF normalmap, shiftmap, ctlmap, CAPS_LOCK, KEY_D, ENTER, BACKSPACE, UP
        <4>2. \A flags : charcode(flags, key) = NO
          BY <4>1 DEF charcode, NO
        <4> QED  BY <4>2 DEF Meant
      <3>2. CASE key # CAPS_LOCK
        <4>1. togglecode(key) = {}
          BY <3>2 DEF togglecode
        <4>2. Pressed(Flags, key) = Flags
          BY <2>1, <4>1 DEF Pressed, Xor
        <4> QED  BY <4>2 DEF Meant, Flags
      <3> QED  BY <3>1, <3>2
    <2>4. typed' = Add(typed, charcode(Pressed(Flags, key), key))
      BY <1>1, <2>3 DEF Add
    <2>5. Decodes(kq, shift, FromKeyboard(In), Flags, typed)
      BY <1>5 DEF Arrives
    <2>6. /\ kq \o Make(key) \in Seq(Nat)
          /\ Decodes(kq \o Make(key), shift, FromKeyboard(In), Pressed(Flags, key), typed')
      BY <1>2, <2>4, <2>5, FlagsAreFlags, MakeDecodes
    <2>7. Pressed(Flags, key) \in SUBSET AllFlags /\ "E0ESC" \notin Pressed(Flags, key)
      BY FlagsAreFlags, FlagsType
    <2>8. Decodes((kq \o Make(key)) \o Break(key), shift, FromKeyboard(In), Pressed(Flags, key) \ shiftcode(key), typed')
      BY <1>2, <2>6, <2>7, BreakDecodes
    <2>9. Pressed(Flags, key) \ shiftcode(key) = Flags'
      BY <2>1, <2>2
    <2>10. Decodes(kq', shift', FromKeyboard(In)', Flags', typed')
      BY <1>1, <1>q, <2>8, <2>9, InputFrame
    <2>11. (FromSerial(In) \o sq = sent)'
      BY <1>1, <1>5, InputFrame DEF Arrives
    <2>12. Arrives'
      BY <2>10, <2>11 DEF Arrives
    <2> QED  BY <1>1, <1>3, <2>12, InputFrame DEF InputInv
  <1> QED  BY <1>4, <1>5 DEF InputInv

LEMMA SerialInKeeps ==
    ASSUME InputInv, NEW c \in SerialChars, SerialIn(c)
    PROVE  InputInv'
  <1>1. /\ sq = <<>> /\ sq' = <<c>> /\ sent' = Append(sent, c)
        /\ kq' = kq /\ held' = held /\ caps' = caps /\ typed' = typed /\ UNCHANGED ringVars
    BY DEF SerialIn
  <1>2. DevicesType'
    BY <1>1 DEF InputInv, DevicesType
  <1>3. CASE overrun
    BY <1>1, <1>2, <1>3, InputFrame DEF InputInv
  <1>4. CASE Arrives
    <2>1. In \in Seq(Char)
      BY RingIs DEF InputInv
    <2>2. FromSerial(In) \in Seq(Char) /\ c \in Char
      BY <2>1, FromDevice
    <2>3. FromSerial(In) = sent
      <3>1. FromSerial(In) \o <<>> = sent
        BY <1>1, <1>4 DEF Arrives
      <3> QED  BY <2>2, <3>1
    <2>4. FromSerial(In) \o <<c>> = Append(sent, c)
      BY <2>2, <2>3
    <2>5. Flags' = Flags
      BY <1>1 DEF Flags
    <2>6. Arrives'
      BY <1>1, <1>4, <2>4, <2>5, InputFrame DEF Arrives
    <2> QED  BY <1>1, <1>2, <2>6, InputFrame DEF InputInv
  <1> QED  BY <1>3, <1>4 DEF InputInv

\* A character of the serial port comes into the ring.
LEMMA SerialIntrKeeps ==
    ASSUME InputInv, serial_intr
    PROVE  InputInv'
  <1>1. PICK c \in SerialChars : sq = <<c>>
    BY DEF InputInv, DevicesType, serial_intr
  <1>2. /\ Put(c) /\ sq' = <<>> /\ rpos' = rpos /\ got' = got /\ shift' = shift
        /\ kq' = kq /\ held' = held /\ caps' = caps /\ typed' = typed /\ sent' = sent
    <2>1. Head(<<c>>) = c /\ Tail(<<c>>) = <<>>
      OBVIOUS
    <2> QED  BY <1>1, <2>1 DEF serial_intr
  <1>3. DevicesType'
    BY <1>2 DEF InputInv, DevicesType
  <1>4. RingType /\ In \in Seq(Char)
    BY RingIs DEF InputInv
  <1>5. c \in Char /\ c # NO
    BY <1>4, FromDevice
  <1>6. RingType' /\ (~overrun' => In' = Append(In, c))
    BY <1>2, <1>4, <1>5, RingPut
  <1>7. CASE overrun'
    BY <1>3, <1>6, <1>7 DEF InputInv
  <1>8. CASE ~overrun'
    <2>1. ~overrun
      BY <1>2, <1>5, <1>8 DEF Put
    <2>2. Arrives
      BY <2>1 DEF InputInv
    <2>3. In' = Append(In, c)
      BY <1>6, <1>8
    <2>4. FromSerial(In)' = Append(FromSerial(In), c) /\ FromKeyboard(In)' = FromKeyboard(In)
      <3>1. /\ FromSerial(Append(In, c)) = Append(FromSerial(In), c)
            /\ FromKeyboard(Append(In, c)) = FromKeyboard(In)
        BY <1>4, FromDevice
      <3>2. FromSerial(In)' = FromSerial(Append(In, c)) /\ FromKeyboard(In)' = FromKeyboard(Append(In, c))
        BY <2>3 DEF FromSerial, FromKeyboard, Part
      <3> QED  BY <3>1, <3>2
    <2>5. Append(FromSerial(In), c) \o <<>> = FromSerial(In) \o <<c>>
      <3>1. FromSerial(In) \in Seq(Char)
        BY <1>4, FromDevice
      <3> QED  BY <1>5, <3>1
    <2>6. (FromSerial(In) \o sq = sent)'
      BY <1>1, <1>2, <2>2, <2>4, <2>5 DEF Arrives
    <2>7. Flags' = Flags
      BY <1>2 DEF Flags
    <2>8. Arrives'
      BY <1>2, <2>2, <2>4, <2>6, <2>7 DEF Arrives
    <2> QED  BY <1>3, <1>6, <2>8 DEF InputInv
  <1> QED  BY <1>7, <1>8

\* The driver takes a code from the keyboard.
LEMMA KbdIntrKeeps ==
    ASSUME InputInv, kbd_intr
    PROVE  InputInv'
  <1> DEFINE c == kbd_proc_data(shift, Head(kq))
  <1>1. /\ kq # <<>> /\ Put(c) /\ shift' = NewShift(shift, Head(kq)) /\ kq' = Tail(kq)
        /\ rpos' = rpos /\ got' = got
        /\ sq' = sq /\ held' = held /\ caps' = caps /\ typed' = typed /\ sent' = sent
    BY DEF kbd_intr
  <1>2. c \in KeyChars \cup {NO}
    BY CharcodeType DEF kbd_proc_data
  <1> HIDE DEF c
  <1>3. DevicesType'
    <2>1. kq \in Seq(Nat)
      BY DEF InputInv, DevicesType
    <2>2. Tail(kq) \in Seq(Nat)
      BY <1>1, <2>1
    <2> QED  BY <1>1, <2>2 DEF InputInv, DevicesType
  <1>4. RingType /\ In \in Seq(Char) /\ c \in Char
    BY <1>2, RingIs DEF InputInv, Char
  <1>5. RingType' /\ (~overrun' => ~overrun /\ In' = IF c = NO THEN In ELSE Append(In, c))
    <2>1. CASE c = NO
      <3>1. buf' = buf /\ wpos' = wpos /\ overrun' = overrun
        BY <1>1, <2>1 DEF Put
      <3> QED  BY <1>1, <1>4, <2>1, <3>1 DEF RingType, In, Ring
    <2>2. CASE c # NO
      <3>1. overrun' = (overrun \/ wpos' = rpos)
        BY <1>1, <2>2 DEF Put
      <3>2. RingType' /\ (~overrun' => In' = Append(In, c))
        BY <1>1, <1>4, <2>2, RingPut
      <3> QED  BY <2>2, <3>1, <3>2
    <2> QED  BY <2>1, <2>2
  <1>6. CASE overrun'
    BY <1>3, <1>5, <1>6 DEF InputInv
  <1>7. CASE ~overrun'
    <2>1. Arrives /\ In' = IF c = NO THEN In ELSE Append(In, c)
      BY <1>5, <1>7 DEF InputInv
    <2>2. FromSerial(In)' = FromSerial(In) /\ FromKeyboard(In)' = Add(FromKeyboard(In), c)
      <3>1. CASE c = NO
        BY <2>1, <3>1 DEF FromSerial, FromKeyboard, Part, Add
      <3>2. CASE c # NO
        <4>1. /\ FromSerial(Append(In, c)) = FromSerial(In)
              /\ FromKeyboard(Append(In, c)) = Append(FromKeyboard(In), c)
          BY <1>2, <1>4, <3>2, FromDevice
        <4>2. FromSerial(In)' = FromSerial(Append(In, c)) /\ FromKeyboard(In)' = FromKeyboard(Append(In, c))
          BY <2>1, <3>2 DEF FromSerial, FromKeyboard, Part
        <4> QED  BY <3>2, <4>1, <4>2 DEF Add
      <3> QED  BY <3>1, <3>2
    <2>3. Decodes(Tail(kq), NewShift(shift, Head(kq)), Add(FromKeyboard(In), c), Flags, typed)
      <3>1. kq \in Seq(Nat) /\ Decodes(kq, shift, FromKeyboard(In), Flags, typed)
        BY <2>1 DEF Arrives, InputInv, DevicesType
      <3> QED  BY <1>1, <3>1, DecodesFirst DEF c
    <2>4. Flags' = Flags
      BY <1>1 DEF Flags
    <2>5. Decodes(kq', shift', FromKeyboard(In)', Flags', typed')
      BY <1>1, <2>2, <2>3, <2>4
    <2>6. (FromSerial(In) \o sq = sent)'
      BY <1>1, <2>1, <2>2 DEF Arrives
    <2>7. Arrives'
      BY <2>5, <2>6 DEF Arrives
    <2> QED  BY <1>3, <1>5, <2>7 DEF InputInv
  <1> QED  BY <1>6, <1>7

\* A character moves from the ring to the reader.
LEMMA GetcKeeps ==
    ASSUME InputInv, cons_getc
    PROVE  InputInv'
  <1>1. /\ kq' = kq /\ sq' = sq /\ held' = held /\ caps' = caps /\ typed' = typed /\ sent' = sent
        /\ shift' = shift /\ buf' = buf /\ wpos' = wpos /\ overrun' = overrun
    BY DEF cons_getc, deviceVars
  <1>2. DevicesType' /\ Flags' = Flags
    BY <1>1 DEF InputInv, DevicesType, Flags
  <1>3. RingType' /\ In' = In
    <2>1. CASE rpos = wpos
      <3>1. got' = got /\ rpos' = rpos
        BY <2>1 DEF cons_getc
      <3> QED  BY <1>1, <3>1 DEF InputInv, RingType, In, Ring
    <2>2. CASE rpos # wpos
      <3>1. got' = Append(got, buf[rpos]) /\ rpos' = (rpos + 1) % CONSBUFSIZE
        BY <2>2 DEF cons_getc
      <3> QED  BY <1>1, <2>2, <3>1, RingGet DEF InputInv
    <2> QED  BY <2>1, <2>2
  <1>4. FromSerial(In)' = FromSerial(In) /\ FromKeyboard(In)' = FromKeyboard(In)
    BY <1>3 DEF FromSerial, FromKeyboard, Part
  <1>5. Arrives => Arrives'
    BY <1>1, <1>2, <1>4 DEF Arrives
  <1> QED  BY <1>1, <1>2, <1>3, <1>5 DEF InputInv

\* Nothing else touches the devices and the ring.
LEMMA OthersKeep ==
    ASSUME InputInv, UNCHANGED <<deviceVars, ringVars>>
    PROVE  InputInv'
  <1>1. /\ kq' = kq /\ sq' = sq /\ held' = held /\ caps' = caps /\ typed' = typed /\ sent' = sent /\ UNCHANGED ringVars
    BY DEF deviceVars
  <1>2. DevicesType' /\ Flags' = Flags
    BY <1>1 DEF InputInv, DevicesType, Flags
  <1>3. Arrives => Arrives'
    BY <1>1, <1>2, InputFrame DEF Arrives
  <1> QED  BY <1>1, <1>2, <1>3, InputFrame DEF InputInv

LEMMA InputStep ==
    ASSUME OneOfEach, InputInv, [Next]_vars
    PROVE  InputInv'
  <1>1. ASSUME NEW key \in Modifiers, Press(key) \/ Release(key) PROVE InputInv'
    BY <1>1, PressKeeps, ReleaseKeeps
  <1>2. ASSUME NEW key \in Taps, Tap(key) PROVE InputInv'
    BY <1>2, TapKeeps
  <1>3. ASSUME NEW c \in SerialChars, SerialIn(c) PROVE InputInv'
    BY <1>3, SerialInKeeps
  <1>4. ASSUME NEW c \in Outputs, cprintf(c) PROVE InputInv'
    BY <1>4, OthersKeep DEF cprintf
  <1>5. ASSUME NEW env \in {"kernel", "user"}, readline(env) PROVE InputInv'
    BY <1>5, OthersKeep DEF readline
  <1>6. CASE Poll
    BY <1>6, SerialIntrKeeps, KbdIntrKeeps, GetcKeeps DEF Poll
  <1>7. CASE UNCHANGED vars
    <2>1. UNCHANGED <<deviceVars, ringVars>>
      BY <1>7 DEF vars, deviceVars, ringVars
    <2> QED  BY <2>1, OthersKeep
  <1> QED  BY <1>1, <1>2, <1>3, <1>4, <1>5, <1>6, <1>7 DEF Next

(* InputIsStream: as long as the ring has room, the characters of the serial    *)
(* line and those that were typed arrive completely and in their order.         *)
(* (cons_intr, kbd_proc_data, cons_getc)                                        *)
THEOREM InputArrives ==
    ASSUME OneOfEach
    PROVE  Spec => []InputIsStream
  <1>1. Init => InputInv
    BY InputInit
  <1>2. InputInv /\ [Next]_vars => InputInv'
    BY InputStep
  <1>3. InputInv => InputIsStream
    <2> SUFFICES ASSUME InputInv, ~overrun PROVE InputIsStream
      BY DEF InputIsStream
    <2>1. Arrives /\ kq \in Seq(Nat)
      BY DEF InputInv, DevicesType
    <2>2. Decodes(kq, shift, FromKeyboard(In), Flags, typed)
      BY <2>1 DEF Arrives
    <2>3. FromKeyboard(In) \in Seq(Char) /\ typed \in Seq(Char) /\ Begins(FromKeyboard(In), typed)
      BY <2>1, <2>2, DecodesAdds
    <2>4. IsPrefix(FromKeyboard(In), typed)
      <3> DEFINE a == FromKeyboard(In)
      <3>1. a \in Seq(Char) /\ typed \in Seq(Char) /\ Len(a) <= Len(typed) /\ \A m \in 1..Len(a) : a[m] = typed[m]
        BY <2>3 DEF Begins
      <3> HIDE DEF a
      <3>2. SubSeq(a, 1, Len(a)) = SubSeq(typed, 1, Len(a))
        BY <3>1
      <3>3. IsPrefix(a, typed)
        BY <3>1, <3>2 DEF IsPrefix
      <3> QED  BY <3>3 DEF a
    <2>5. ASSUME kq = <<>> PROVE FromKeyboard(In) = typed
      <3>1. Decodes(<<>>, shift, FromKeyboard(In), Flags, typed)
        BY <2>2, <2>5
      <3> QED  BY <3>1, NothingDecodes
    <2> QED  BY <2>1, <2>4, <2>5 DEF InputIsStream, Arrives
  <1> QED  BY <1>1, <1>2, <1>3, PTL DEF Spec

(********************************* the screen ********************************)
LineChar == {"d", "D", "x", "KEY_UP", "DEL"}
Glyph == LineChar \cup {" ", Prompt} \cup Outputs
ScreenOf(b, q) == [buf |-> b, pos |-> q]
Cells == [0..(CRT_SIZE - 1) -> Glyph]

LEMMA ScreenSize == CRT_SIZE \in Nat \ {0} /\ CRT_COLS \in 1..CRT_SIZE
  <1>1. CRT_COLS \in Nat \ {0} /\ CRT_ROWS \in Nat \ {0}
    BY ConsoleAssumption
  <1>2. CRT_COLS * CRT_ROWS \in Nat /\ CRT_COLS * CRT_ROWS >= CRT_COLS
    BY <1>1
  <1> QED  BY <1>1, <1>2 DEF CRT_SIZE

\* Behind the cursor nothing changes but that it may move up a row.
LEMMA ScrollIs ==
    ASSUME NEW b \in Cells, NEW q \in Nat, q < CRT_SIZE + CRT_COLS
    PROVE  \E b2 \in Cells, q2 \in 0..(CRT_SIZE - 1) :
              /\ Scroll(ScreenOf(b, q)) = ScreenOf(b2, q2)
              /\ q2 <= q
              /\ \A p \in 0..(q2 - 1) : p + (q - q2) < CRT_SIZE => b2[p] = b[p + (q - q2)]
  <1> DEFINE n == CRT_SIZE
             m == CRT_COLS
             up == [p \in 0..(n - 1) |-> IF p + m < n THEN b[p + m] ELSE " "]
  <1>1. n \in Nat \ {0} /\ m \in 1..n /\ b \in [0..(n - 1) -> Glyph]
    BY ScreenSize DEF Cells
  <1>2. CASE q < n
    <2> HIDE DEF up
    <2>1. Scroll(ScreenOf(b, q)) = ScreenOf(b, q)
      <3>1. ScreenOf(b, q).pos = q
        BY DEF ScreenOf
      <3> QED  BY <1>2, <3>1 DEF Scroll
    <2>2. q \in 0..(n - 1) /\ q <= q /\ \A p \in 0..(q - 1) : p + (q - q) < n => b[p] = b[p + (q - q)]
      BY <1>1, <1>2
    <2> QED  BY <2>1, <2>2
  <1>3. CASE q >= n
    <2>1. Scroll(ScreenOf(b, q)) = ScreenOf(up, q - m)
      <3>1. ScreenOf(b, q).pos = q /\ ScreenOf(b, q).buf = b /\ ~(q < CRT_SIZE)
        BY <1>1, <1>3 DEF ScreenOf
      <3>2. Scroll(ScreenOf(b, q)) = [buf |-> up, pos |-> q - m]
        BY <3>1, Zenon DEF Scroll
      <3> QED  BY <3>2 DEF ScreenOf
    <2>2. up \in Cells
      <3>1. \A p \in 0..(n - 1) : (IF p + m < n THEN b[p + m] ELSE " ") \in Glyph
        <4> SUFFICES ASSUME NEW p \in 0..(n - 1), p + m < n PROVE b[p + m] \in Glyph
          BY DEF Glyph
        <4>1. p + m \in 0..(n - 1)
          BY <1>1
        <4> QED  BY <1>1, <4>1
      <3> QED  BY <3>1 DEF Cells
    <2>3. q - m \in 0..(n - 1) /\ q - m <= q /\ q - (q - m) = m
      BY <1>1, <1>3
    <2>4. ASSUME NEW p \in 0..((q - m) - 1), p + m < n PROVE up[p] = b[p + m]
      <3>1. p \in 0..(n - 1)
        BY <1>1, <2>3
      <3> QED  BY <2>4, <3>1
    <2> HIDE DEF up
    <2> QED  BY <2>1, <2>2, <2>3, <2>4
  <1> HIDE DEF up
  <1>4. q < n \/ q >= n
    BY <1>1
  <1> HIDE DEF n, m
  <1> QED  BY <1>2, <1>3, <1>4 DEF n

\* The characters before the cursor are the end of a text.
Shows(b, q, text) ==
    \A k \in Nat : k < q /\ k < Len(text) => b[q - 1 - k] = text[Len(text) - k]

LEMMA WriteShows ==
    ASSUME NEW b \in Cells, NEW q \in 0..(CRT_SIZE - 1), NEW c \in Glyph,
           NEW text \in Seq(Glyph), Shows(b, q, text)
    PROVE  \E b2 \in Cells, q2 \in 0..(CRT_SIZE - 1) :
              Write(ScreenOf(b, q), c) = ScreenOf(b2, q2) /\ Shows(b2, q2, Append(text, c))
  <1> DEFINE n == CRT_SIZE
             w == [b EXCEPT ![q] = c]
             L == Len(text)
             more == Append(text, c)
  <1>1. n \in Nat \ {0} /\ CRT_COLS \in 1..n /\ q \in 0..(n - 1) /\ b \in [0..(n - 1) -> Glyph]
    BY ScreenSize DEF Cells
  <1>2. w \in Cells /\ w[q] = c /\ \A p \in 0..(n - 1) : p # q => w[p] = b[p]
    BY <1>1 DEF Cells
  <1>3. Write(ScreenOf(b, q), c) = Scroll(ScreenOf(w, q + 1))
    BY DEF Write, ScreenOf
  <1>4. q + 1 \in Nat /\ q + 1 < n + CRT_COLS
    BY <1>1
  <1> HIDE DEF w
  <1>5. PICK b2 \in Cells, q2 \in 0..(n - 1) :
           /\ Scroll(ScreenOf(w, q + 1)) = ScreenOf(b2, q2) /\ q2 <= q + 1
           /\ \A p \in 0..(q2 - 1) : p + ((q + 1) - q2) < n => b2[p] = w[p + ((q + 1) - q2)]
    BY <1>2, <1>4, ScrollIs
  <1>6. L \in Nat /\ Len(more) = L + 1 /\ more[L + 1] = c /\ \A i \in 1..L : more[i] = text[i]
    OBVIOUS
  <1>7. ASSUME NEW k \in Nat, k < q2, k < L + 1 PROVE b2[q2 - 1 - k] = more[(L + 1) - k]
    <2>1. q2 - 1 - k \in 0..(q2 - 1) /\ (q2 - 1 - k) + ((q + 1) - q2) = q - k /\ q - k < n /\ q - k >= 0
      BY <1>1, <1>5, <1>7
    <2>2. b2[q2 - 1 - k] = w[q - k]
      BY <1>5, <2>1
    <2>3. CASE k = 0
      <3>1. q - k = q /\ (L + 1) - k = L + 1
        BY <1>1, <1>6, <2>3
      <3> QED  BY <1>2, <1>6, <2>2, <3>1
    <2>4. CASE k # 0
      <3>1. k - 1 \in Nat /\ k - 1 < q /\ k - 1 < L /\ q - 1 - (k - 1) = q - k /\ L - (k - 1) = (L + 1) - k
        BY <1>1, <1>5, <1>6, <1>7, <2>1, <2>4
      <3>2. b[q - k] = text[(L + 1) - k]
        BY <3>1 DEF Shows
      <3>3. q - k \in 0..(n - 1) /\ q - k # q /\ (L + 1) - k \in 1..L
        BY <1>1, <1>6, <1>7, <2>1, <2>4, SMTT(60)
      <3>4. w[q - k] = b[q - k] /\ more[(L + 1) - k] = text[(L + 1) - k]
        BY <1>2, <1>6, <3>3
      <3> QED  BY <2>2, <3>2, <3>4
    <2> QED  BY <2>3, <2>4
  <1> HIDE DEF more, L
  <1>8. Shows(b2, q2, more)
    BY <1>6, <1>7 DEF Shows
  <1> QED  BY <1>3, <1>5, <1>8 DEF more

LEMMA FrontIs ==
    ASSUME NEW S, NEW s \in Seq(S), s # <<>>
    PROVE  /\ Front(s) \in Seq(S) /\ Len(Front(s)) = Len(s) - 1
           /\ \A i \in 1..(Len(s) - 1) : Front(s)[i] = s[i]
  <1> DEFINE l == Len(s) - 1
  <1>1. Len(s) \in Nat /\ Len(s) # 0
    OBVIOUS
  <1>2. l \in Nat /\ l \in 0..Len(s) /\ l <= Len(s)
    BY <1>1
  <1>3. Front(s) = SubSeq(s, 1, l)
    BY DEF Front
  <1> HIDE DEF l
  <1>4. SubSeq(s, 1, l) \in Seq(S) /\ Len(SubSeq(s, 1, l)) = l
    BY <1>2
  <1>5. \A i \in 1..l : SubSeq(s, 1, l)[i] = s[i]
    BY <1>1, <1>2
  <1> QED  BY <1>3, <1>4, <1>5 DEF l

LEMMA BackspaceShows ==
    ASSUME NEW b \in Cells, NEW q \in 0..(CRT_SIZE - 1), NEW text \in Seq(Glyph), text # <<>>, Shows(b, q, text)
    PROVE  \E b2 \in Cells, q2 \in 0..(CRT_SIZE - 1) :
              cga_putc(ScreenOf(b, q), "BS") = ScreenOf(b2, q2) /\ Shows(b2, q2, Front(text))
  <1> DEFINE n == CRT_SIZE
             L == Len(text)
             less == Front(text)
             w == [b EXCEPT ![q - 1] = " "]
  <1>1. n \in Nat \ {0} /\ q \in 0..(n - 1) /\ b \in [0..(n - 1) -> Glyph]
    BY ScreenSize DEF Cells
  <1>2. L \in Nat /\ Len(less) = L - 1 /\ \A i \in 1..(L - 1) : less[i] = text[i]
    BY FrontIs
  <1>3. CASE q = 0
    <2>1. cga_putc(ScreenOf(b, q), "BS") = ScreenOf(b, q)
      BY <1>3 DEF cga_putc, ScreenOf
    <2>2. Shows(b, q, less)
      BY <1>3 DEF Shows
    <2> QED  BY <2>1, <2>2
  <1>4. CASE q # 0
    <2>1. cga_putc(ScreenOf(b, q), "BS") = ScreenOf(w, q - 1)
      BY <1>4 DEF cga_putc, ScreenOf
    <2>2. q - 1 \in 0..(n - 1) /\ " " \in Glyph
      <3>1. q - 1 \in 0..(n - 1)
        BY <1>1, <1>4
      <3>2. " " \in Glyph
        BY DEF Glyph
      <3> QED  BY <3>1, <3>2
    <2>3. w \in Cells /\ \A p \in 0..(n - 1) : p # q - 1 => w[p] = b[p]
      BY <1>1, <2>2 DEF Cells
    <2> HIDE DEF w
    <2>4. ASSUME NEW k \in Nat, k < q - 1, k < L - 1 PROVE w[(q - 1) - 1 - k] = less[(L - 1) - k]
      <3>1. /\ k + 1 \in Nat /\ k + 1 < q /\ k + 1 < L
            /\ q - 1 - (k + 1) = (q - 1) - 1 - k /\ L - (k + 1) = (L - 1) - k
        BY <1>1, <1>2, <2>4
      <3>2. b[(q - 1) - 1 - k] = text[(L - 1) - k]
        BY <3>1 DEF Shows
      <3>3. (q - 1) - 1 - k \in 0..(n - 1) /\ (q - 1) - 1 - k # q - 1 /\ (L - 1) - k \in 1..(L - 1)
        BY <1>1, <1>2, <2>4
      <3> QED  BY <1>2, <2>3, <3>2, <3>3
    <2> HIDE DEF less, L
    <2>5. Shows(w, q - 1, less)
      BY <1>2, <2>4 DEF Shows
    <2> QED  BY <2>1, <2>2, <2>3, <2>5 DEF less
  <1> QED  BY <1>3, <1>4

\* Whatever is printed, the cursor stays on the screen.
LEMMA WriteStays ==
    ASSUME NEW b \in Cells, NEW q \in 0..(CRT_SIZE - 1), NEW c \in Glyph
    PROVE  \E b2 \in Cells, q2 \in 0..(CRT_SIZE - 1) : Write(ScreenOf(b, q), c) = ScreenOf(b2, q2)
  <1>1. <<>> \in Seq(Glyph) /\ Len(<<>>) = 0
    OBVIOUS
  <1>2. Shows(b, q, <<>>)
    BY <1>1 DEF Shows
  <1>3. PICK b2 \in Cells, q2 \in 0..(CRT_SIZE - 1) :
           Write(ScreenOf(b, q), c) = ScreenOf(b2, q2) /\ Shows(b2, q2, Append(<<>>, c))
    BY <1>1, <1>2, WriteShows, ZenonT(60)
  <1> QED  BY <1>3

LEMMA PutcStays ==
    ASSUME NEW b \in Cells, NEW q \in 0..(CRT_SIZE - 1), NEW c \in Glyph \cup {"NL"}
    PROVE  \E b2 \in Cells, q2 \in 0..(CRT_SIZE - 1) : cga_putc(ScreenOf(b, q), c) = ScreenOf(b2, q2)
  <1> DEFINE s == ScreenOf(b, q)
             Goal == \E b2 \in Cells, q2 \in 0..(CRT_SIZE - 1) : cga_putc(s, c) = ScreenOf(b2, q2)
  <1>1. CRT_SIZE \in Nat \ {0} /\ CRT_COLS \in 1..CRT_SIZE
    BY ScreenSize
  <1>2. q % CRT_COLS \in 0..(CRT_COLS - 1) /\ q % CRT_COLS <= q
    <2>1. CRT_COLS \in Nat \ {0} /\ q \in Nat
      BY <1>1
    <2> QED  BY <2>1, RemainderBelow
  <1>3. CASE c = "BS"
    <2>1. CASE q = 0
      BY <1>3, <2>1 DEF cga_putc, ScreenOf
    <2>2. CASE q # 0
      <3>1. cga_putc(s, c) = ScreenOf([b EXCEPT ![q - 1] = " "], q - 1)
        BY <1>3, <2>2 DEF cga_putc, ScreenOf
      <3>2. [b EXCEPT ![q - 1] = " "] \in Cells
        BY DEF Cells, Glyph
      <3>3. q - 1 \in 0..(CRT_SIZE - 1)
        BY <1>1, <2>2
      <3> QED  BY <3>1, <3>2, <3>3
    <2> QED  BY <2>1, <2>2
  <1>4. CASE c = "NL"
    <2> DEFINE r == q % CRT_COLS
               q3 == q + CRT_COLS - r
    <2>1. cga_putc(s, c) = Scroll(ScreenOf(b, q3))
      BY <1>4 DEF cga_putc, ScreenOf
    <2> HIDE DEF r
    <2>2. r \in 0..(CRT_COLS - 1) /\ r <= q
      BY <1>2 DEF r
    <2>3. q3 \in Nat /\ q3 < CRT_SIZE + CRT_COLS
      BY <1>1, <2>2
    <2> HIDE DEF q3
    <2> QED  BY <2>1, <2>3, ScrollIs
  <1>5. CASE c = "CR"
    <2>1. cga_putc(s, c) = ScreenOf(b, q - (q % CRT_COLS))
      BY <1>5 DEF cga_putc, ScreenOf
    <2>2. q - (q % CRT_COLS) \in 0..(CRT_SIZE - 1)
      BY <1>1, <1>2
    <2> QED  BY <2>1, <2>2
  <1>6. CASE c = "HT"
    <2>0. " " \in Glyph
      BY DEF Glyph
    <2>1. PICK b1 \in Cells, q1 \in 0..(CRT_SIZE - 1) : Write(s, " ") = ScreenOf(b1, q1)
      BY <2>0, WriteStays
    <2>2. PICK b2 \in Cells, q2 \in 0..(CRT_SIZE - 1) : Write(ScreenOf(b1, q1), " ") = ScreenOf(b2, q2)
      BY <2>0, WriteStays
    <2>3. PICK b3 \in Cells, q3 \in 0..(CRT_SIZE - 1) : Write(ScreenOf(b2, q2), " ") = ScreenOf(b3, q3)
      BY <2>0, WriteStays
    <2>4. PICK b4 \in Cells, q4 \in 0..(CRT_SIZE - 1) : Write(ScreenOf(b3, q3), " ") = ScreenOf(b4, q4)
      BY <2>0, WriteStays
    <2>5. PICK b5 \in Cells, q5 \in 0..(CRT_SIZE - 1) : Write(ScreenOf(b4, q4), " ") = ScreenOf(b5, q5)
      BY <2>0, WriteStays
    <2>6. cga_putc(s, c) = Write(Write(Write(Write(Write(s, " "), " "), " "), " "), " ")
      BY <1>6 DEF cga_putc
    <2>7. cga_putc(s, c) = ScreenOf(b5, q5)
      BY <2>1, <2>2, <2>3, <2>4, <2>5, <2>6
    <2> QED  BY <2>7
  <1>7. CASE c \notin {"BS", "NL", "CR", "HT"}
    <2>1. c \in Glyph /\ cga_putc(s, c) = Write(s, c)
      BY <1>7 DEF cga_putc
    <2> QED  BY <2>1, WriteStays
  <1> QED  BY <1>3, <1>4, <1>5, <1>6, <1>7

Text == <<Prompt>> \o line

\* The screen part of the invariant: the cursor is on the screen, and what is
\* before it is the end of the prompt and the line.
ScreenInv ==
    /\ crt_pos \in 0..(CRT_SIZE - 1) /\ crt_buf \in Cells
    /\ line \in Seq(LineChar) /\ pc \in {"idle", "read", "kbd"}
    /\ pc # "idle" => Shows(crt_buf, crt_pos, Text)

LEMMA LineTexts ==
    ASSUME NEW l \in Seq(LineChar)
    PROVE  /\ <<Prompt>> \o l \in Seq(Glyph) /\ <<Prompt>> \o l # <<>>
           /\ \A c \in LineChar : <<Prompt>> \o Append(l, c) = Append(<<Prompt>> \o l, c)
           /\ l # <<>> => /\ Front(l) \in Seq(LineChar)
                          /\ <<Prompt>> \o Front(l) = Front(<<Prompt>> \o l)
  <1> DEFINE t == <<Prompt>> \o l
  <1>1. LineChar \subseteq Glyph /\ Prompt \in Glyph
    BY DEF Glyph
  <1>2. l \in Seq(Glyph) /\ <<Prompt>> \in Seq(Glyph)
    BY <1>1
  <1>3. t \in Seq(Glyph) /\ Len(t) = 1 + Len(l) /\ t[1] = Prompt /\ \A i \in 1..Len(l) : t[1 + i] = l[i]
    BY <1>2
  <1>4. t # <<>>
    BY <1>3
  <1>5. \A c \in LineChar : <<Prompt>> \o Append(l, c) = Append(t, c)
    BY <1>1, <1>2
  <1>6. ASSUME l # <<>> PROVE Front(l) \in Seq(LineChar) /\ <<Prompt>> \o Front(l) = Front(t)
    <2> DEFINE f == Front(l)
               ft == Front(t)
    <2>1. f \in Seq(LineChar) /\ Len(f) = Len(l) - 1 /\ \A i \in 1..(Len(l) - 1) : f[i] = l[i]
      BY <1>6, FrontIs
    <2> HIDE DEF t
    <2>2. ft \in Seq(Glyph) /\ Len(ft) = Len(t) - 1 /\ \A i \in 1..(Len(t) - 1) : ft[i] = t[i]
      BY <1>3, <1>4, FrontIs
    <2> HIDE DEF f, ft
    <2>3. f \in Seq(Glyph)
      BY <1>1, <2>1
    <2>4. /\ <<Prompt>> \o f \in Seq(Glyph) /\ Len(<<Prompt>> \o f) = 1 + Len(f)
          /\ (<<Prompt>> \o f)[1] = Prompt /\ \A i \in 1..Len(f) : (<<Prompt>> \o f)[1 + i] = f[i]
      BY <1>2, <2>3
    <2>5. Len(l) \in Nat \ {0}
      BY <1>6
    <2>6. Len(<<Prompt>> \o f) = Len(ft) /\ Len(ft) = Len(l)
      BY <1>3, <2>1, <2>2, <2>4, <2>5
    <2>7. ASSUME NEW i \in 1..Len(l) PROVE (<<Prompt>> \o f)[i] = ft[i]
      <3>1. ft[i] = t[i]
        BY <1>3, <2>2, <2>5
      <3>2. CASE i = 1
        BY <1>3, <2>4, <3>1, <3>2
      <3>3. CASE i # 1
        <4>1. i - 1 \in 1..Len(f) /\ i - 1 \in 1..Len(l) /\ i - 1 \in 1..(Len(l) - 1) /\ 1 + (i - 1) = i
          BY <2>1, <2>5, <3>3
        <4>2. (<<Prompt>> \o f)[i] = f[i - 1]
          BY <2>4, <4>1
        <4>3. t[i] = l[i - 1]
          BY <1>3, <4>1
        <4> QED  BY <2>1, <3>1, <4>1, <4>2, <4>3
      <3> QED  BY <3>2, <3>3
    <2>8. <<Prompt>> \o f = ft
      <3> DEFINE g == <<Prompt>> \o f
      <3>1. g \in Seq(Glyph) /\ Len(g) = Len(ft) /\ \A i \in 1..Len(g) : g[i] = ft[i]
        BY <2>4, <2>6, <2>7
      <3> HIDE DEF g
      <3>2. g = ft
        BY <2>2, <3>1
      <3> QED  BY <3>2 DEF g
    <2> QED  BY <2>1, <2>8 DEF f, ft
  <1> QED  BY <1>3, <1>4, <1>5, <1>6

LEMMA PutcIs ==
    ASSUME NEW c, c # NO, cputchar(c), NEW b2, NEW q2,
           cga_putc(ScreenOf(crt_buf, crt_pos), c) = ScreenOf(b2, q2)
    PROVE  crt_buf' = b2 /\ crt_pos' = q2
  <1>1. Screen = ScreenOf(crt_buf, crt_pos)
    BY DEF Screen, ScreenOf
  <1>2. crt_buf' = cga_putc(Screen, c).buf /\ crt_pos' = cga_putc(Screen, c).pos
    BY DEF cputchar
  <1>3. ScreenOf(b2, q2).buf = b2 /\ ScreenOf(b2, q2).pos = q2
    BY DEF ScreenOf
  <1> QED  BY <1>1, <1>2, <1>3

LEMMA NothingPut ==
    ASSUME cputchar(NO)
    PROVE  crt_buf' = crt_buf /\ crt_pos' = crt_pos
  BY DEF cputchar, Screen

\* A character of a line, or the prompt, is written where the cursor is.
LEMMA PutcWrites ==
    ASSUME NEW s, NEW c \in LineChar \cup {Prompt}
    PROVE  cga_putc(s, c) = Write(s, c) /\ c # NO /\ c \in Glyph
  BY DEF cga_putc, LineChar, Prompt, NO, Glyph

LEMMA ScreenInit == Init => ScreenInv
  <1>0. 0 \in 0..(CRT_SIZE - 1)
    BY ScreenSize
  <1> SUFFICES ASSUME Init PROVE ScreenInv
    OBVIOUS
  <1>1. " " \in Glyph /\ CRT_SIZE \in Nat \ {0}
    BY ScreenSize DEF Glyph
  <1>2. crt_buf \in Cells
    BY <1>1 DEF Init, Cells
  <1>3. crt_pos = 0 /\ pc = "idle" /\ line = <<>>
    BY DEF Init
  <1>4. crt_pos \in 0..(CRT_SIZE - 1)
    BY <1>0, <1>3, Zenon
  <1> QED  BY <1>2, <1>3, <1>4 DEF ScreenInv

\* The prompt.
LEMMA PromptKeeps ==
    ASSUME ScreenInv, NEW env, readline(env)
    PROVE  ScreenInv'
  <1>1. crt_pos \in 0..(CRT_SIZE - 1) /\ crt_buf \in Cells
    BY DEF ScreenInv
  <1>2. <<>> \in Seq(Glyph) /\ Shows(crt_buf, crt_pos, <<>>)
    <2>1. <<>> \in Seq(Glyph) /\ Len(<<>>) = 0
      OBVIOUS
    <2> QED  BY <2>1 DEF Shows
  <1>3. Prompt \in Glyph /\ Prompt # NO /\ cga_putc(ScreenOf(crt_buf, crt_pos), Prompt) = Write(ScreenOf(crt_buf, crt_pos), Prompt)
    BY PutcWrites
  <1>4. PICK b2 \in Cells, q2 \in 0..(CRT_SIZE - 1) :
           Write(ScreenOf(crt_buf, crt_pos), Prompt) = ScreenOf(b2, q2) /\ Shows(b2, q2, Append(<<>>, Prompt))
    BY <1>1, <1>2, <1>3, WriteShows
  <1>5. cputchar(Prompt) /\ line' = <<>> /\ pc' = "read"
    BY DEF readline
  <1>6. crt_buf' = b2 /\ crt_pos' = q2
    BY <1>3, <1>4, <1>5, PutcIs
  <1>7. Text' = Append(<<>>, Prompt)
    BY <1>5 DEF Text
  <1> QED  BY <1>4, <1>5, <1>6, <1>7 DEF ScreenInv

\* What is printed between the lines.
LEMMA OutputKeeps ==
    ASSUME ScreenInv, NEW c \in Outputs, cprintf(c)
    PROVE  ScreenInv'
  <1>1. crt_pos \in 0..(CRT_SIZE - 1) /\ crt_buf \in Cells
    BY DEF ScreenInv
  <1>2. cputchar(c) /\ line' = line /\ pc' = pc /\ pc = "idle"
    BY DEF cprintf, readVars
  <1>3. crt_pos' \in 0..(CRT_SIZE - 1) /\ crt_buf' \in Cells
    <2>1. CASE c = NO
      BY <1>1, <1>2, <2>1, NothingPut
    <2>2. CASE c # NO
      <3>1. c \in Glyph \cup {"NL"}
        BY DEF Glyph
      <3>2. PICK b2 \in Cells, q2 \in 0..(CRT_SIZE - 1) : cga_putc(ScreenOf(crt_buf, crt_pos), c) = ScreenOf(b2, q2)
        BY <1>1, <3>1, PutcStays
      <3>3. crt_buf' = b2 /\ crt_pos' = q2
        BY <1>2, <2>2, <3>2, PutcIs
      <3> QED  BY <3>3
    <2> QED  BY <2>1, <2>2
  <1> QED  BY <1>2, <1>3 DEF ScreenInv

\* What readline() makes of a character.
LEMMA EditingIs ==
    ASSUME NEW c
    PROVE  \/ Editing(c).pc = "idle" /\ Editing(c).echo = NO /\ Editing(c).line = <<>>
           \/ Editing(c).pc = "idle" /\ Editing(c).echo = "NL" /\ Editing(c).line = line
           \/ Editing(c).pc = "read" /\ Editing(c).echo = NO /\ Editing(c).line = line
           \/ line # <<>> /\ Editing(c).pc = "read" /\ Editing(c).echo = "BS" /\ Editing(c).line = Front(line)
           \/ c \in LineChar /\ Editing(c).pc = "read" /\ Editing(c).echo = c /\ Editing(c).line = Append(line, c)
  <1> DEFINE P1 == c = E_EOF
             P2 == c \in {"BS", "DEL"} /\ line # <<>>
             P3 == AtLeastBlank(c) /\ ~(c = "DEL" /\ line # <<>>) /\ Len(line) < BUFLEN - 1
             P4 == c \in {"NL", "CR"}
  <1>1. CASE P1
    <2>1. Editing(c) = [line |-> <<>>, echo |-> NO, pc |-> "idle"]
      BY <1>1 DEF Editing, E_EOF, AtLeastBlank
    <2> QED  BY <2>1
  <1>2. CASE P2
    <2>1. Editing(c) = [line |-> Front(line), echo |-> "BS", pc |-> "read"]
      BY <1>2 DEF Editing, E_EOF, AtLeastBlank
    <2> QED  BY <1>2, <2>1
  <1>3. CASE P3 /\ ~P1 /\ ~P2
    <2>1. Editing(c) = [line |-> Append(line, c), echo |-> c, pc |-> "read"]
      BY <1>3 DEF Editing, E_EOF, AtLeastBlank
    <2>2. c \in LineChar
      BY <1>3 DEF AtLeastBlank, LineChar
    <2> QED  BY <2>1, <2>2
  <1>4. CASE P4
    <2>1. Editing(c) = [line |-> line, echo |-> "NL", pc |-> "idle"]
      BY <1>4 DEF Editing, E_EOF, AtLeastBlank
    <2> QED  BY <2>1
  <1>5. CASE ~P1 /\ ~P2 /\ ~P3 /\ ~P4
    <2>1. Editing(c) = [line |-> line, echo |-> NO, pc |-> "read"]
      BY <1>5 DEF Editing
    <2> QED  BY <2>1
  <1> QED  BY <1>1, <1>2, <1>3, <1>4, <1>5

\* A character is read: the line and its echo change together.
LEMMA EchoKeeps ==
    ASSUME ScreenInv, pc # "idle", NEW c,
           line' = Editing(c).line, pc' = Editing(c).pc, cputchar(Editing(c).echo)
    PROVE  ScreenInv'
  <1> DEFINE e == Editing(c)
  <1>1. /\ crt_pos \in 0..(CRT_SIZE - 1) /\ crt_buf \in Cells /\ line \in Seq(LineChar)
        /\ Shows(crt_buf, crt_pos, Text)
    BY DEF ScreenInv
  <1>2. Text \in Seq(Glyph) /\ Text # <<>>
    BY <1>1, LineTexts DEF Text
  <1>0. ASSUME e.echo = NO PROVE crt_buf' = crt_buf /\ crt_pos' = crt_pos
    BY <1>0, NothingPut
  <1>3. CASE e.echo = NO /\ e.line = line /\ e.pc = "read"
    <2>1. line' = line /\ pc' = "read" /\ Text' = Text
      BY <1>3 DEF Text
    <2> QED  BY <1>1, <1>0, <1>3, <2>1 DEF ScreenInv
  <1>8. CASE e.echo = NO /\ e.line = <<>> /\ e.pc = "idle"
    <2>1. line' \in Seq(LineChar) /\ pc' = "idle"
      BY <1>8
    <2> QED  BY <1>1, <1>0, <1>8, <2>1 DEF ScreenInv
  <1>4. ASSUME e.echo = "NL", e.line = line, e.pc = "idle" PROVE ScreenInv'
    <2>1. "NL" \in Glyph \cup {"NL"} /\ "NL" # NO
      BY DEF NO
    <2>2. PICK b2 \in Cells, q2 \in 0..(CRT_SIZE - 1) : cga_putc(ScreenOf(crt_buf, crt_pos), "NL") = ScreenOf(b2, q2)
      BY <1>1, <2>1, PutcStays
    <2>3. cputchar("NL")
      BY <1>4
    <2>4. crt_buf' = b2 /\ crt_pos' = q2
      BY <2>1, <2>2, <2>3, PutcIs
    <2> QED  BY <1>1, <1>4, <2>4 DEF ScreenInv
  <1>5. ASSUME line # <<>>, e.echo = "BS", e.line = Front(line), e.pc = "read" PROVE ScreenInv'
    <2>1. Front(line) \in Seq(LineChar) /\ <<Prompt>> \o Front(line) = Front(Text)
      BY <1>1, <1>5, LineTexts DEF Text
    <2>2. PICK b2 \in Cells, q2 \in 0..(CRT_SIZE - 1) :
             cga_putc(ScreenOf(crt_buf, crt_pos), "BS") = ScreenOf(b2, q2) /\ Shows(b2, q2, Front(Text))
      BY <1>1, <1>2, BackspaceShows
    <2>3. cputchar("BS") /\ "BS" # NO
      BY <1>5 DEF NO
    <2>4. crt_buf' = b2 /\ crt_pos' = q2
      BY <2>2, <2>3, PutcIs
    <2>5. Text' = Front(Text) /\ line' \in Seq(LineChar)
      BY <1>5, <2>1 DEF Text
    <2> QED  BY <1>5, <2>2, <2>4, <2>5 DEF ScreenInv
  <1>6. ASSUME c \in LineChar, e.echo = c, e.line = Append(line, c), e.pc = "read" PROVE ScreenInv'
    <2>1. Append(line, c) \in Seq(LineChar) /\ <<Prompt>> \o Append(line, c) = Append(Text, c)
      BY <1>1, <1>6, LineTexts DEF Text
    <2>2. c \in Glyph /\ c # NO /\ cga_putc(ScreenOf(crt_buf, crt_pos), c) = Write(ScreenOf(crt_buf, crt_pos), c)
      BY <1>6, PutcWrites
    <2>3. PICK b2 \in Cells, q2 \in 0..(CRT_SIZE - 1) :
             Write(ScreenOf(crt_buf, crt_pos), c) = ScreenOf(b2, q2) /\ Shows(b2, q2, Append(Text, c))
      BY <1>1, <1>2, <2>2, WriteShows
    <2>4. cputchar(c)
      BY <1>6
    <2>5. crt_buf' = b2 /\ crt_pos' = q2
      BY <2>2, <2>3, <2>4, PutcIs
    <2>6. Text' = Append(Text, c) /\ line' \in Seq(LineChar)
      BY <1>6, <2>1 DEF Text
    <2> QED  BY <1>6, <2>3, <2>5, <2>6 DEF ScreenInv
  <1>7. \/ e.pc = "idle" /\ e.echo = NO /\ e.line = <<>>
        \/ e.pc = "idle" /\ e.echo = "NL" /\ e.line = line
        \/ e.pc = "read" /\ e.echo = NO /\ e.line = line
        \/ line # <<>> /\ e.pc = "read" /\ e.echo = "BS" /\ e.line = Front(line)
        \/ c \in LineChar /\ e.pc = "read" /\ e.echo = c /\ e.line = Append(line, c)
    BY EditingIs
  <1> HIDE DEF e
  <1>9. CASE e.echo = "NL" /\ e.line = line /\ e.pc = "idle"
    BY <1>4, <1>9
  <1>10. CASE line # <<>> /\ e.echo = "BS" /\ e.line = Front(line) /\ e.pc = "read"
    BY <1>5, <1>10
  <1>11. CASE c \in LineChar /\ e.echo = c /\ e.line = Append(line, c) /\ e.pc = "read"
    BY <1>6, <1>11
  <1> QED  BY <1>3, <1>7, <1>8, <1>9, <1>10, <1>11

LEMMA GetcEchoes ==
    ASSUME ScreenInv, cons_getc
    PROVE  ScreenInv'
  <1>1. pc # "idle"
    BY DEF cons_getc, SerialDone
  <1>2. CASE rpos = wpos
    <2>1. pc' = "read" /\ line' = line /\ crt_buf' = crt_buf /\ crt_pos' = crt_pos
      BY <1>2 DEF cons_getc, screenVars
    <2>2. Text' = Text
      BY <2>1 DEF Text
    <2> QED  BY <1>1, <2>1, <2>2 DEF ScreenInv
  <1>3. CASE rpos # wpos
    <2> DEFINE c == getchar(buf[rpos])
    <2>1. line' = Editing(c).line /\ pc' = Editing(c).pc /\ cputchar(Editing(c).echo)
      BY <1>3 DEF cons_getc
    <2> HIDE DEF c
    <2> QED  BY <1>1, <2>1, EchoKeeps
  <1> QED  BY <1>2, <1>3

\* Nothing else touches the screen or the line.
LEMMA ScreenStays ==
    ASSUME ScreenInv, UNCHANGED <<screenVars, line>>, pc' = pc \/ (pc # "idle" /\ pc' = "kbd")
    PROVE  ScreenInv'
  <1>1. crt_buf' = crt_buf /\ crt_pos' = crt_pos /\ line' = line
    BY DEF screenVars
  <1>2. Text' = Text
    BY <1>1 DEF Text
  <1> QED  BY <1>1, <1>2 DEF ScreenInv

LEMMA ScreenStep ==
    ASSUME ScreenInv, [Next]_vars
    PROVE  ScreenInv'
  <1>1. ASSUME NEW key, Press(key) \/ Release(key) \/ Tap(key) PROVE ScreenInv'
    <2>1. UNCHANGED <<screenVars, line>> /\ pc' = pc
      BY <1>1 DEF Press, Release, Tap, Type, readVars
    <2> QED  BY <2>1, ScreenStays
  <1>2. ASSUME NEW c, SerialIn(c) PROVE ScreenInv'
    <2>1. UNCHANGED <<screenVars, line>> /\ pc' = pc
      BY <1>2 DEF SerialIn, readVars
    <2> QED  BY <2>1, ScreenStays
  <1>3. ASSUME NEW c \in Outputs, cprintf(c) PROVE ScreenInv'
    BY <1>3, OutputKeeps
  <1>4. ASSUME NEW env, readline(env) PROVE ScreenInv'
    BY <1>4, PromptKeeps
  <1>5. CASE serial_intr
    <2>1. UNCHANGED <<screenVars, line>> /\ pc' = pc
      BY <1>5 DEF serial_intr, readVars
    <2> QED  BY <2>1, ScreenStays
  <1>6. CASE kbd_intr
    <2>1. UNCHANGED <<screenVars, line>> /\ pc # "idle" /\ pc' = "kbd"
      BY <1>6 DEF kbd_intr, SerialDone
    <2> QED  BY <2>1, ScreenStays
  <1>7. CASE cons_getc
    BY <1>7, GetcEchoes
  <1>8. CASE UNCHANGED vars
    <2>1. UNCHANGED <<screenVars, line>> /\ pc' = pc
      BY <1>8 DEF vars, screenVars
    <2> QED  BY <2>1, ScreenStays
  <1> QED  BY <1>1, <1>2, <1>3, <1>4, <1>5, <1>6, <1>7, <1>8 DEF Next, Poll

(* EchoShowsLine: whatever was printed before, typed and deleted, the          *)
(* characters before the cursor are the end of the prompt and the line.        *)
(* (readline's echo, cga_putc)                                                 *)
THEOREM EchoIsTheLine == Spec => []EchoShowsLine
  <1>1. Init => ScreenInv
    BY ScreenInit
  <1>2. ScreenInv /\ [Next]_vars => ScreenInv'
    BY ScreenStep
  <1>3. ScreenInv => EchoShowsLine
    <2> DEFINE shown == IF crt_pos < Len(Text) THEN crt_pos ELSE Len(Text)
    <2> SUFFICES ASSUME ScreenInv, pc # "idle"
                 PROVE  \A k \in 0..(shown - 1) : crt_buf[crt_pos - 1 - k] = Text[Len(Text) - k]
      BY Zenon DEF EchoShowsLine, Text
    <2> TAKE k \in 0..(shown - 1)
    <2>1. crt_pos \in 0..(CRT_SIZE - 1) /\ line \in Seq(LineChar) /\ Shows(crt_buf, crt_pos, Text)
      BY DEF ScreenInv
    <2>2. Len(Text) \in Nat
      BY <2>1, LineTexts DEF Text
    <2>3. k \in Nat /\ k < crt_pos /\ k < Len(Text)
      BY <2>1, <2>2
    <2> QED  BY <2>1, <2>3 DEF Shows
  <1> QED  BY <1>1, <1>2, <1>3, PTL DEF Spec
=============================================================================
