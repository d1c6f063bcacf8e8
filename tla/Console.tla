-------------------------------- MODULE Console --------------------------------
(* A line from the keyboard: kern/console.c from scan codes to the input ring  *)
(* and from characters to the screen, and readline() of lib/readline.c with    *)
(* the getchar() of the kernel and the one of lib/console.c.                   *)
(*                                                                             *)
(* Keyboard and serial interrupts are not dispatched, so that devices are      *)
(* polled: every cons_getc() empties both into the ring and takes one          *)
(* character.  Keys are hit at any time, between two accesses too.             *)
EXTENDS Integers, Sequences, SequencesExt, FiniteSets

CONSTANTS
    CONSBUFSIZE, BUFLEN, CRT_COLS, CRT_ROWS,
    Modifiers, Taps,    \* scan codes of the keys that are used (without E0)
    SerialChars,        \* characters that come from the serial port
    Outputs,            \* characters that programs print
    KbdQueue,           \* codes that the keyboard controller keeps
    MaxStrokes,         \* bound on keys pressed and serial characters
    MaxLines            \* bound on calls of readline()

ASSUME ConsoleAssumption ==
    /\ CONSBUFSIZE \in Nat \ {0} /\ BUFLEN \in Nat \ {0}
    /\ CRT_COLS \in Nat \ {0} /\ CRT_ROWS \in Nat \ {0}
    /\ KbdQueue \in Nat /\ MaxStrokes \in Nat /\ MaxLines \in Nat

VARIABLES
    kq, sq,             \* scan codes and characters that the devices hold
    shift,              \* static uint32_t shift of kbd_proc_data(), as a set
    buf, rpos, wpos,    \* cons
    crt_buf, crt_pos,
    pc,                 \* idle, or in readline(): read, kbd
    who, line,          \* whose readline(): "kernel" or "user"; buf[0..i-1]
    lines, strokes,
    held, caps,         \* history: modifier keys that are down, the state of Caps Lock
    typed, sent,        \* history: what was typed on the keyboard, on the serial line
    got,                \* history: what cons_getc() has returned
    overrun             \* history: the ring has wrapped around onto unread characters
vars == <<kq, sq, shift, buf, rpos, wpos, crt_buf, crt_pos, pc, who, line, lines, strokes,
          held, caps, typed, sent, got, overrun>>

deviceVars == <<kq, sq, held, caps, typed, sent, strokes>>
ringVars == <<shift, buf, rpos, wpos, got, overrun>>
screenVars == <<crt_buf, crt_pos>>
readVars == <<pc, who, line, lines>>

CRT_SIZE == CRT_COLS * CRT_ROWS
NO == "NO"
E_EOF == "EOF"

(********************************** key codes ********************************)
\* A key that sends E0 first has its code with 128 added.
KEY_D == 32
ENTER == 28
BACKSPACE == 14
CAPS_LOCK == 58
LEFT_SHIFT == 42
RIGHT_SHIFT == 54
LEFT_CTL == 29
RIGHT_CTL == 157
UP == 200

shiftcode(data) ==
    CASE data \in {LEFT_CTL, RIGHT_CTL} -> {"CTL"}
      [] data \in {LEFT_SHIFT, RIGHT_SHIFT} -> {"SHIFT"}
      [] OTHER -> {}
togglecode(data) == IF data = CAPS_LOCK THEN {"CAPSLOCK"} ELSE {}

normalmap(data) ==
    CASE data = KEY_D -> "d" [] data = ENTER -> "NL" [] data = BACKSPACE -> "BS"
      [] data = UP -> "KEY_UP" [] OTHER -> NO
shiftmap(data) == IF data = KEY_D THEN "D" ELSE normalmap(data)
ctlmap(data) ==
    CASE data = KEY_D -> "^D" [] data = ENTER -> "CR" [] data = UP -> "KEY_UP" [] OTHER -> NO

\* charcode[shift & (CTL | SHIFT)], and Caps Lock for letters.
charcode(flags, data) ==
    LET c == IF "CTL" \in flags THEN ctlmap(data)
             ELSE IF "SHIFT" \in flags THEN shiftmap(data) ELSE normalmap(data)
    IN  IF "CAPSLOCK" \notin flags THEN c
        ELSE CASE c = "d" -> "D" [] c = "D" -> "d" [] OTHER -> c

(******************************** the keyboard *******************************)
E0 == 224
Released(code) == code >= 128
Make(key) == IF key >= 128 THEN <<E0, key - 128>> ELSE <<key>>
Break(key) == IF key >= 128 THEN <<E0, key>> ELSE <<key + 128>>

\* What the tables have.
KeyChars == {"d", "D", "NL", "BS", "KEY_UP", "^D", "CR"}

\* No key has the code E0 or is released by it, and the two devices' characters
\* are told apart.
ASSUME KeyAssumption ==
    /\ (Modifiers \cup Taps) \subseteq (1..255) \ {E0, E0 - 128}
    /\ SerialChars \cap (KeyChars \cup {NO}) = {}

\* What the keys that are down make of a key, whatever the driver thinks.
Meant(key) ==
    charcode((UNION {shiftcode(k) : k \in held}) \cup (IF caps THEN {"CAPSLOCK"} ELSE {}), key)

\* Nobody types after the last line of the model.
Watched == pc # "idle" \/ lines < MaxLines
Type(codes) ==
    /\ Watched /\ Len(kq) + Len(codes) <= KbdQueue
    /\ kq' = kq \o codes
    /\ UNCHANGED <<sq, sent, ringVars, screenVars, readVars>>

Press(key) ==
    /\ key \notin held /\ strokes < MaxStrokes
    /\ Type(Make(key))
    /\ held' = held \cup {key} /\ strokes' = strokes + 1
    /\ UNCHANGED <<caps, typed>>
Release(key) ==
    /\ key \in held /\ Type(Break(key))
    /\ held' = held \ {key}
    /\ UNCHANGED <<caps, typed, strokes>>
Tap(key) ==
    /\ strokes < MaxStrokes
    /\ Type(Make(key) \o Break(key))
    /\ strokes' = strokes + 1
    /\ caps' = IF key = CAPS_LOCK THEN ~caps ELSE caps
    /\ typed' = IF Meant(key) = NO THEN typed ELSE Append(typed, Meant(key))
    /\ UNCHANGED held

\* The FIFO of the serial port is turned off: it holds one character.
SerialIn(c) ==
    /\ Watched /\ sq = <<>> /\ strokes < MaxStrokes
    /\ sq' = <<c>> /\ sent' = Append(sent, c) /\ strokes' = strokes + 1
    /\ UNCHANGED <<kq, held, caps, typed, ringVars, screenVars, readVars>>

(****************************** kern/console.c *******************************)
Xor(A, B) == (A \cup B) \ (A \cap B)

Key(flags, data) == IF "E0ESC" \in flags THEN (data % 128) + 128 ELSE data % 128
\* Mistake: the release of a key leaves the escape for the next one.
ReleaseKeepsE0(flags, data) ==
    IF data = E0 THEN flags \cup {"E0ESC"}
    ELSE IF Released(data) THEN flags \ shiftcode(Key(flags, data))
    ELSE LET key == Key(flags, data) IN Xor((flags \ {"E0ESC"}) \cup shiftcode(key), togglecode(key))
\* kbd_proc_data(), one scan code: the driver's new state...
NewShift(flags, data) ==
    IF data = E0 THEN flags \cup {"E0ESC"}
    ELSE IF Released(data) THEN flags \ (shiftcode(Key(flags, data)) \cup {"E0ESC"})
    ELSE LET key == Key(flags, data) IN Xor((flags \ {"E0ESC"}) \cup shiftcode(key), togglecode(key))
\* ... and the character, if this code makes one.
kbd_proc_data(flags, data) ==
    IF Released(data) THEN NO ELSE charcode(NewShift(flags, data), Key(flags, data))

\* cons_intr() puts a character into the ring; nothing asks whether there is room.
Put(c) ==
    IF c = NO THEN UNCHANGED <<buf, wpos, overrun>>
    ELSE /\ buf' = [buf EXCEPT ![wpos] = c]
         /\ wpos' = (wpos + 1) % CONSBUFSIZE
         /\ overrun' = (overrun \/ wpos' = rpos)

(********************************* the screen ********************************)
\* The screen moves up a row when the cursor has left it.
Scroll(s) ==
    IF s.pos < CRT_SIZE THEN s
    ELSE [buf |-> [p \in 0..(CRT_SIZE - 1) |->
                     IF p + CRT_COLS < CRT_SIZE THEN s.buf[p + CRT_COLS] ELSE " "],
          pos |-> s.pos - CRT_COLS]

Write(s, c) == Scroll([buf |-> [s.buf EXCEPT ![s.pos] = c], pos |-> s.pos + 1])

\* Mistake: a backspace does not go back over the edge of the screen.
StopsAtTheEdge(s, c) ==
    CASE c = "BS" -> IF s.pos % CRT_COLS = 0 THEN s
                     ELSE [buf |-> [s.buf EXCEPT ![s.pos - 1] = " "], pos |-> s.pos - 1]
      [] c = "NL" -> Scroll([s EXCEPT !.pos = @ + CRT_COLS - (@ % CRT_COLS)])
      [] OTHER -> Write(s, c)
\* '\t' is five spaces, each of them put by a call of its own.
cga_putc(s, c) ==
    CASE c = "BS" -> IF s.pos = 0 THEN s ELSE [buf |-> [s.buf EXCEPT ![s.pos - 1] = " "], pos |-> s.pos - 1]
      [] c = "NL" -> Scroll([s EXCEPT !.pos = @ + CRT_COLS - (@ % CRT_COLS)])
      [] c = "CR" -> [s EXCEPT !.pos = @ - (@ % CRT_COLS)]
      [] c = "HT" -> Write(Write(Write(Write(Write(s, " "), " "), " "), " "), " ")
      [] OTHER -> Write(s, c)

Screen == [buf |-> crt_buf, pos |-> crt_pos]
cputchar(c) ==
    LET s == IF c = NO THEN Screen ELSE cga_putc(Screen, c) IN crt_buf' = s.buf /\ crt_pos' = s.pos

(********************************* readline() ********************************)
Prompt == ">"

\* What is printed before the first line is asked for.
cprintf(c) ==
    /\ pc = "idle" /\ lines = 0
    /\ cputchar(c)
    /\ UNCHANGED <<deviceVars, ringVars, readVars>>

readline(env) ==
    /\ pc = "idle" /\ lines < MaxLines
    /\ pc' = "read" /\ who' = env /\ line' = <<>> /\ lines' = lines + 1
    /\ cputchar(Prompt)
    /\ UNCHANGED <<deviceVars, ringVars>>

\* In a program, ^D ends the input.
getchar(c) == IF who = "user" /\ c = "^D" THEN E_EOF ELSE c

AtLeastBlank(c) == c \in {"d", "D", "x", "KEY_UP", "DEL"}

\* Mistake: a line that fills the buffer takes no more characters, its end included.
FullTakesNothing(c) ==
    CASE c = E_EOF -> [line |-> <<>>, echo |-> NO, pc |-> "idle"]
      [] c \in {"BS", "DEL"} /\ line # <<>> -> [line |-> Front(line), echo |-> "BS", pc |-> "read"]
      [] Len(line) >= BUFLEN - 1 -> [line |-> line, echo |-> NO, pc |-> "read"]
      [] AtLeastBlank(c) /\ Len(line) < BUFLEN - 1 -> [line |-> Append(line, c), echo |-> c, pc |-> "read"]
      [] c \in {"NL", "CR"} -> [line |-> line, echo |-> "NL", pc |-> "idle"]
      [] OTHER -> [line |-> line, echo |-> NO, pc |-> "read"]
\* One character: what it does to the line, what is echoed, whether it is the end.
Editing(c) ==
    CASE c = E_EOF -> [line |-> <<>>, echo |-> NO, pc |-> "idle"]
      [] c \in {"BS", "DEL"} /\ line # <<>> -> [line |-> Front(line), echo |-> "BS", pc |-> "read"]
      [] AtLeastBlank(c) /\ ~(c = "DEL" /\ line # <<>>) /\ Len(line) < BUFLEN - 1 ->
            [line |-> Append(line, c), echo |-> c, pc |-> "read"]
      [] c \in {"NL", "CR"} -> [line |-> line, echo |-> "NL", pc |-> "idle"]
      [] OTHER -> [line |-> line, echo |-> NO, pc |-> "read"]

\* cons_getc() empties the serial port, then the keyboard, into the ring.
serial_intr ==
    /\ pc = "read" /\ sq # <<>>
    /\ Put(Head(sq)) /\ sq' = Tail(sq)
    /\ UNCHANGED <<kq, held, caps, typed, sent, strokes, shift, rpos, got, screenVars, readVars>>

SerialDone == pc = "kbd" \/ (pc = "read" /\ sq = <<>>)
kbd_intr ==
    /\ SerialDone /\ kq # <<>>
    /\ Put(kbd_proc_data(shift, Head(kq)))
    /\ shift' = NewShift(shift, Head(kq))
    /\ kq' = Tail(kq) /\ pc' = "kbd"
    /\ UNCHANGED <<sq, held, caps, typed, sent, strokes, rpos, got, screenVars, who, line, lines>>

\* Then it takes the next character of the ring, if there is one, to readline().
cons_getc ==
    /\ SerialDone /\ kq = <<>>
    /\ IF rpos = wpos THEN pc' = "read" /\ UNCHANGED <<line, got, rpos, screenVars>>
       ELSE LET e == Editing(getchar(buf[rpos])) IN
            /\ got' = Append(got, buf[rpos])
            /\ rpos' = (rpos + 1) % CONSBUFSIZE
            /\ line' = e.line /\ pc' = e.pc
            /\ cputchar(e.echo)
    /\ UNCHANGED <<deviceVars, shift, buf, wpos, overrun, who, lines>>

Poll == serial_intr \/ kbd_intr \/ cons_getc

Init ==
    /\ kq = <<>> /\ sq = <<>> /\ shift = {}
    /\ buf = [p \in 0..(CONSBUFSIZE - 1) |-> NO] /\ rpos = 0 /\ wpos = 0
    /\ crt_buf = [p \in 0..(CRT_SIZE - 1) |-> " "] /\ crt_pos = 0
    /\ pc = "idle" /\ who = "kernel" /\ line = <<>> /\ lines = 0 /\ strokes = 0
    /\ held = {} /\ caps = FALSE /\ typed = <<>> /\ sent = <<>> /\ got = <<>> /\ overrun = FALSE

Next ==
    \/ \E k \in Modifiers : Press(k) \/ Release(k)
    \/ \E k \in Taps : Tap(k)
    \/ \E c \in SerialChars : SerialIn(c)
    \/ \E c \in Outputs : cprintf(c)
    \/ \E env \in {"kernel", "user"} : readline(env)
    \/ Poll

Spec == Init /\ [][Next]_vars

\* The monitor polls in a loop; a program polls and yields, and is run again.
FairSpec == Spec /\ WF_vars(Poll)

-------------------------------------------------------------------------------
TypeOK ==
    /\ rpos \in 0..(CONSBUFSIZE - 1) /\ wpos \in 0..(CONSBUFSIZE - 1)
    /\ crt_pos \in 0..(CRT_SIZE - 1)
    /\ pc \in {"idle", "read", "kbd"} /\ Len(line) < BUFLEN

Ring == [k \in 1..((wpos - rpos) % CONSBUFSIZE) |-> buf[(rpos + k - 1) % CONSBUFSIZE]]
In == got \o Ring
\* The characters of the serial line, or the others.
Part(chars, serial) ==
    LET part[k \in 0..Len(chars)] ==
            IF k = 0 THEN <<>>
            ELSE IF serial <=> chars[k] \in SerialChars THEN Append(part[k - 1], chars[k])
            ELSE part[k - 1]
    IN  part[Len(chars)]
FromSerial(chars) == Part(chars, TRUE)
FromKeyboard(chars) == Part(chars, FALSE)
\* Typed, and not yet taken from the ring.
Waiting == SubSeq(typed, Len(FromKeyboard(got)) + 1, Len(typed))

(* What was typed arrives as it was meant and in order, from each of the two   *)
(* devices: modifiers are pressed and released around keys and across E0       *)
(* sequences, and codes are decoded long after the keys were hit.  Only when   *)
(* more than CONSBUFSIZE - 1 characters wait is input lost (cons_intr).        *)
InputIsStream ==
    overrun \/ /\ FromSerial(In) \o sq = sent
               /\ IsPrefix(FromKeyboard(In), typed)
               /\ kq = <<>> => FromKeyboard(In) = typed

(* The user sees what will be read: the characters before the cursor are the   *)
(* end of the prompt and the line, at the edge and at the bottom of the screen *)
(* and after deleting across both.  (readline's echo, cga_putc)                *)
EchoShowsLine ==
    pc # "idle" =>
        LET text == <<Prompt>> \o line
            shown == IF crt_pos < Len(text) THEN crt_pos ELSE Len(text)
        IN  \A k \in 0..(shown - 1) : crt_buf[crt_pos - 1 - k] = text[Len(text) - k]

(* A line that is ended is returned, also when it was too long for buf or the  *)
(* characters came in faster than they were read.                              *)
LineReturned ==
    (pc # "idle" /\ ~overrun /\ {"NL", "CR"} \cap Range(Waiting) # {}) ~> (pc = "idle" \/ overrun)
===============================================================================
