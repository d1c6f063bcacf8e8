--------------------------------- MODULE Text ---------------------------------
(*****************************************************************************)
(* The library code under every program and the kernel: memmove() with its   *)
(* string instructions, numbers through vprintfmt() and vsnprintf(),         *)
(* strtol(), and the option parser of args.c.  Each job runs by itself; the state of a job is  *)
(* the record m, and pc is where it is.                                      *)
(*****************************************************************************)
EXTENDS Integers, Sequences

CONSTANTS
    MEM,          \* addresses are 0..MEM-1
    WORD,         \* bytes that one movsl moves
    IntBits,      \* bits of an int
    LongBits,     \* bits of a long long
    Formats,      \* [flags, width, precision, conv] as characters; conv is no o, c, e or s
    Numbers,      \* arguments for them: [long, value]
    Sizes,        \* values of n for vsnprintf()
    CommandLines  \* argument vectors: sequences of sequences of characters

VARIABLES job, pc, m
vars == <<job, pc, m>>

Goto(where, state) == pc' = where /\ m' = state /\ UNCHANGED job

(****************************** memmove() ************************************)
MoveInit ==
    /\ job = "memmove" /\ pc = "call"
    /\ \E s \in 0..(MEM - 1), d \in 0..(MEM - 1), n \in 0..MEM :
         /\ s + n <= MEM /\ d + n <= MEM
         /\ m = [s |-> s, d |-> d, n |-> n, mem |-> [a \in 0..(MEM - 1) |-> a],
                 src |-> s, dst |-> d, step |-> 1, left |-> 0]

\* Mistake: the test for an overlap has an end that is one byte short.
OverlapShort(s, d, n) == s < d /\ s + n > d + 1
\* The source reaches into the destination from below: move from the end.
Overlap(s, d, n) == s < d /\ s + n > d

\* Whole words are moved when both addresses and the count are multiples.
memmove ==
    /\ job = "memmove" /\ pc = "call"
    /\ LET back == Overlap(m.s, m.d, m.n)
           from == IF back THEN m.s + m.n ELSE m.s
           to == IF back THEN m.d + m.n ELSE m.d
           unit == IF from % WORD = 0 /\ to % WORD = 0 /\ m.n % WORD = 0 THEN WORD ELSE 1
       IN  Goto("rep", [m EXCEPT !.s = IF back THEN from - unit ELSE from, !.d = IF back THEN to - unit ELSE to,
                                 !.step = IF back THEN -unit ELSE unit, !.left = m.n \div unit])

\* One turn of rep movs: all bytes of a unit are read before they are written.
rep_movs ==
    /\ job = "memmove" /\ pc = "rep"
    /\ IF m.left = 0 THEN Goto("done", m)
       ELSE LET unit == IF m.step < 0 THEN -m.step ELSE m.step
            IN  Goto("rep", [m EXCEPT !.s = @ + m.step, !.d = @ + m.step, !.left = @ - 1,
                       !.mem = [a \in DOMAIN @ |-> IF a >= m.d /\ a < m.d + unit THEN @[m.s + (a - m.d)] ELSE @[a]]])

(******************************* vprintfmt() *********************************)
Min2(a, b) == IF a < b THEN a ELSE b
Digit == <<"0", "1", "2", "3", "4", "5", "6", "7", "8", "9", "a", "b", "c", "d", "e", "f">>
Decimal == {Digit[i] : i \in 1..10}
ValueOf(ch) == (CHOOSE i \in 1..16 : Digit[i] = ch) - 1
Pad(ch, n) == [i \in 1..(IF n > 0 THEN n ELSE 0) |-> ch]

\* getint(&aq, 3) reads 64 bits whatever the caller passed.  An int comes in a
\* register whose upper half the caller leaves undefined.
Register(arg) ==
    IF arg.long THEN {arg.value % 2^LongBits}
    ELSE {(arg.value % 2^IntBits) + 2^IntBits * upper : upper \in 0..(2^(LongBits - IntBits) - 1)}
getint(arg) == Register(arg)
getuint(arg) == Register(arg)

\* The digits, most significant first, behind the padding for the width.
DigitsOf(base) ==
    LET f[num \in 0..(2^LongBits - 1)] == (IF num >= base THEN f[num \div base] ELSE <<>>) \o <<Digit[(num % base) + 1]>> IN f
printnum(num, base, width, padc) ==
    LET digits == DigitsOf(base)[num] IN Pad(padc, width - Len(digits)) \o digits

\* Mistake: the place for the null is not kept.
PutsOneMore(s, chars) ==
    [s EXCEPT !.out = @ \o chars, !.cnt = @ + Len(chars),
              !.buf = @ \o SubSeq(chars, 1, Min2(Len(chars), s.n - Len(@)))]
\* Characters to the buffer of vsnprintf(), counted also when there is no room.
sprintputch(s, chars) ==
    [s EXCEPT !.out = @ \o chars, !.cnt = @ + Len(chars),
              !.buf = @ \o SubSeq(chars, 1, Min2(Len(chars), s.n - 1 - Len(@)))]

\* The format of one conversion between two characters of text.
Spelled(f) == <<"<", "%">> \o f.flags \o f.width \o f.precision \o <<f.conv, ">">>
PrintInit ==
    /\ job = "print" /\ pc = "call"
    /\ \E f \in Formats, a \in Numbers, n \in Sizes :
         m = [f |-> f, fmt |-> Spelled(f), arg |-> a, n |-> n, out |-> <<>>, buf |-> <<>>, cnt |-> 0,
              padc |-> " ", width |-> -1, precision |-> -1, mark |-> 0]

vsnprintf ==
    /\ job = "print" /\ pc = "call"
    /\ Goto(IF m.n < 1 THEN "invalid" ELSE "text", m)

Ch == Head(m.fmt)
Rest == [m EXCEPT !.fmt = Tail(@)]

\* Up to a percent sign or the end; there the null is written.
text ==
    /\ job = "print" /\ pc = "text"
    /\ IF m.fmt = <<>> THEN Goto("done", m)
       ELSE IF Ch = "%"
       THEN Goto("reswitch", [Rest EXCEPT !.padc = " ", !.width = -1, !.precision = -1, !.mark = Len(m.fmt) - 1])
       ELSE Goto("text", sprintputch(Rest, <<Ch>>))

\* The number that begins here, and what is behind it.
NumberLen == LET runs == {k \in 1..Len(m.fmt) : \A j \in 1..k : m.fmt[j] \in Decimal}
             IN  CHOOSE k \in runs : \A j \in runs : j <= k
NumberAt(len) == LET f[k \in 0..len] == IF k = 0 THEN 0 ELSE f[k - 1] * 10 + ValueOf(m.fmt[k]) IN f[len]
\* The first number is the width, the next the precision.
process_precision(s, number) == IF s.width < 0 THEN [s EXCEPT !.width = number, !.precision = -1]
                                ELSE [s EXCEPT !.precision = number]

\* The int that a * takes.
Star == 2
flag ==
    /\ job = "print" /\ pc = "reswitch" /\ m.fmt # <<>>
    /\ \/ Ch \in {"-", "0"} /\ Goto("reswitch", [Rest EXCEPT !.padc = Ch])
       \/ /\ Ch \in Decimal \ {"0"}
          /\ Goto("reswitch", process_precision([m EXCEPT !.fmt = SubSeq(@, NumberLen + 1, Len(@))], NumberAt(NumberLen)))
       \/ Ch = "*" /\ Goto("reswitch", process_precision(Rest, Star))
       \/ Ch = "." /\ Goto("reswitch", [Rest EXCEPT !.width = IF @ < 0 THEN 0 ELSE @])
       \/ Ch \in {"l", "#"} /\ Goto("reswitch", Rest)

Number(num, base, sign) == Goto("text", sprintputch(Rest, sign \o printnum(num, base, m.width, m.padc)))

\* The conversions of numbers; a pointer fills its register.
conversion ==
    /\ job = "print" /\ pc = "reswitch" /\ m.fmt # <<>>
    /\ \/ /\ Ch = "d"
          /\ \E num \in getint(m.arg) :
               IF num >= 2^(LongBits - 1) THEN Number((-num) % 2^LongBits, 10, <<"-">>) ELSE Number(num, 10, <<>>)
       \/ /\ Ch \in {"u", "x"}
          /\ \E num \in getuint(m.arg) : Number(num, IF Ch = "u" THEN 10 ELSE 16, <<>>)
       \/ Ch = "p" /\ m.arg.long /\ Number(m.arg.value % 2^LongBits, 16, <<"0", "x">>)
       \/ Ch = "%" /\ Goto("text", sprintputch(Rest, <<"%">>))

\* All letters that vprintfmt() knows.
Conversions == {"d", "u", "x", "p", "o", "c", "e", "s", "%"}

\* An unknown letter, or the end: the percent sign, and on from behind it.
literally ==
    /\ job = "print" /\ pc = "reswitch"
    /\ m.fmt = <<>> \/ Ch \notin ({"-", ".", "*", "l", "#"} \cup Conversions \cup Decimal)
    /\ Goto("text", [sprintputch(m, <<"%">>) EXCEPT !.fmt = SubSeq(Spelled(m.f), Len(Spelled(m.f)) - m.mark + 1, Len(Spelled(m.f)))])

\* strtol(): blanks, a sign, for base 16 a prefix, and then digits below base.
strtol(s, base) ==
    LET from(p, k) == SubSeq(p, k + 1, Len(p))
        blanks == CHOOSE k \in 0..Len(s) : /\ \A j \in 1..k : s[j] = " "
                                           /\ k < Len(s) => s[k + 1] # " "
        signed == from(s, blanks)
        neg == signed # <<>> /\ signed[1] = "-"
        unsigned == IF neg \/ (signed # <<>> /\ signed[1] = "+") THEN Tail(signed) ELSE signed
        number == IF base = 16 /\ Len(unsigned) > 1 /\ unsigned[1] = "0" /\ unsigned[2] = "x"
                  THEN from(unsigned, 2) ELSE unsigned
        good(ch) == (\E i \in 1..16 : Digit[i] = ch) /\ ValueOf(ch) < base
        val[k \in 0..Len(number)] == IF k = 0 \/ (\E j \in 1..k : ~good(number[j])) THEN IF k = 0 THEN 0 ELSE val[k - 1]
                                     ELSE val[k - 1] * base + ValueOf(number[k])
    IN  IF neg THEN -val[Len(number)] ELSE val[Len(number)]

(********************************* args.c ************************************)
\* curarg is the rest of the word whose options are being read; given what the
\* calls have returned so far, in order.
None == <<"none">>
ArgsInit ==
    /\ job = "args" /\ pc = "run"
    /\ \E line \in CommandLines :
         m = [line |-> line, argv |-> line, open |-> Len(line) > 1, curarg |-> <<>>, argvalue |-> None, given |-> <<>>]

Shifted(s) == [s EXCEPT !.argv = <<@[1]>> \o SubSeq(@, 3, Len(@))]
Ended(s) == [s EXCEPT !.open = FALSE]
IsOptions(w) == Len(w) > 1 /\ w[1] = "-"

\* The next letter of the word curarg, which is not empty.
NextLetter(s) == [s EXCEPT !.curarg = Tail(@), !.given = Append(@, <<"option", Head(s.curarg)>>)]
argnext ==
    /\ job = "args" /\ pc = "run" /\ m.open
    /\ LET s == [m EXCEPT !.argvalue = None]
       IN  IF s.curarg # <<>> THEN Goto("run", NextLetter(s))
           ELSE IF Len(s.argv) = 1 \/ ~IsOptions(s.argv[2]) THEN Goto("run", Ended(s))
           ELSE IF s.argv[2] = <<"-", "-">> THEN Goto("run", Ended([Shifted(s) EXCEPT !.given = Append(@, <<"end">>)]))
           ELSE Goto("run", NextLetter([Shifted(s) EXCEPT !.curarg = Tail(s.argv[2])]))

\* Mistake: the word stays in the vector.
ValueStays(s) ==
    IF s.curarg # <<>> THEN [s EXCEPT !.argvalue = s.curarg, !.curarg = <<>>, !.given = Append(@, <<"rest", s.curarg>>)]
    ELSE IF Len(s.argv) > 1 THEN [s EXCEPT !.argvalue = s.argv[2], !.given = Append(@, <<"word", s.argv[2]>>)]
    ELSE [Ended(s) EXCEPT !.argvalue = None]
\* The rest of the word, or else the next word, whatever it is.
argnextvalue(s) ==
    IF s.curarg # <<>> THEN [s EXCEPT !.argvalue = s.curarg, !.curarg = <<>>, !.given = Append(@, <<"rest", s.curarg>>)]
    ELSE IF Len(s.argv) > 1 THEN [Shifted(s) EXCEPT !.argvalue = s.argv[2], !.given = Append(@, <<"word", s.argv[2]>>)]
    ELSE [Ended(s) EXCEPT !.argvalue = None]
argvalue ==
    /\ job = "args" /\ pc = "run" /\ m.open
    /\ m.argvalue = None
    /\ Goto("run", argnextvalue(m))
\* A program may ask for another value where one was given already.
another_value == job = "args" /\ pc = "run" /\ m.open /\ m.argvalue # None /\ Goto("run", argnextvalue(m))

-------------------------------------------------------------------------------
Init == MoveInit \/ PrintInit \/ ArgsInit
Next == \/ memmove \/ rep_movs
        \/ vsnprintf \/ text \/ flag \/ conversion \/ literally
        \/ argnext \/ argvalue \/ another_value
Spec == Init /\ [][Next]_vars

(* memmove() moves: the destination holds what the source held before, however *)
(* the two overlap and whether bytes or words are moved, and nothing else has  *)
(* changed.                                                                    *)
MoveCopies ==
    job = "memmove" /\ pc = "done" =>
        \A a \in 0..(MEM - 1) :
            m.mem[a] = IF a >= m.dst /\ a < m.dst + m.n THEN m.src + (a - m.dst) ELSE a

(* A number that was formatted is read back by strtol(), padded or not, unless *)
(* the padding comes behind the sign or the prefix or is made of minus signs.  *)
(* A long comes back whole.  Of an int only what it is modulo 2^IntBits can be *)
(* relied on: the upper half that was printed is anything.  And whatever the   *)
(* size of the buffer, it holds a prefix with a place left for the null, and   *)
(* the count tells the whole length.                                           *)
NumberReadsBack ==
    job = "print" /\ pc = "done" =>
      /\ m.buf = SubSeq(m.out, 1, Min2(Len(m.out), m.n - 1))
      /\ Len(m.buf) < m.n /\ m.cnt = Len(m.out)
      /\ LET shown == SubSeq(m.out, 2, Len(m.out) - 1)
             read == strtol(shown, IF m.f.conv \in {"d", "u"} THEN 10 ELSE 16)
             split == \E k \in {2, 3} : k <= Len(shown) /\ shown[k] = " " /\ shown[k - 1] \in {"-", "x"}
         IN  m.f.conv \in {"d", "u", "x", "p"} /\ m.padc # "-" /\ ~split =>
                /\ (read - m.arg.value) % 2^(IF m.arg.long THEN LongBits ELSE IntBits) = 0
                /\ m.arg.long /\ (m.f.conv = "d" \/ m.arg.value >= 0) => read = m.arg.value

(* %d: "(signed) decimal".  An int that is formatted with it is the int that   *)
(* strtol() reads.  It does not hold: getint() reads a long of which the       *)
(* caller has set the lower half, so not even the sign is sure to be there.    *)
SignedDecimal ==
    job = "print" /\ pc = "done" /\ m.f = [flags |-> <<>>, width |-> <<>>, precision |-> <<>>, conv |-> "d"] =>
        strtol(SubSeq(m.out, 2, Len(m.out) - 1), 10) = m.arg.value

(* Words put together again from what argnext(), argvalue() and argnextvalue() *)
(* returned and what is left are the words of the command line: nothing is     *)
(* lost and nothing is given twice, and the program's name stays.              *)
Letters(g) == IF g[1] = "option" THEN <<g[2]>> ELSE IF g[1] = "end" THEN <<"-">> ELSE g[2]
ArgsConserved ==
    job = "args" =>
        LET flat(words) == LET f[k \in 0..Len(words)] == IF k = 0 THEN <<>> ELSE f[k - 1] \o words[k] IN f[Len(words)]
            noDash(w) == SelectSeq(w, LAMBDA ch : ch # "-")
            given == [k \in DOMAIN m.given |-> Letters(m.given[k])]
        IN  /\ m.argv[1] = m.line[1]
            /\ noDash(flat(given) \o m.curarg \o flat(Tail(m.argv))) = noDash(flat(Tail(m.line)))
            /\ \A k \in 1..(Len(m.argv) - 1) : m.argv[Len(m.argv) + 1 - k] = m.line[Len(m.line) + 1 - k]
===============================================================================
