------------------------------- MODULE Console ------------------------------
(***************************************************************************)
(* Console input: the scan codes of the keyboard (kbd.c), the line editing *)
(* of consoleintr() and the ring input.buf[] that consoleread() takes      *)
(* lines from.  Everything here runs under cons.lock, which sleep() gives  *)
(* up; the lock itself is in Trap.                                         *)
(*                                                                         *)
(* Letters are one character "x".  The indices r, w and e are unsigned and *)
(* wrap around at UINT, a multiple of INPUT_BUF as 2^32 is.                *)
(***************************************************************************)
EXTENDS Integers, Sequences, FiniteSets

CONSTANTS Proc, None,
          INPUT_BUF, UINT,
          Keys,        \* the keys of the keyboard that are used
          MaxRead      \* the largest n of a read

ASSUME ConsoleConstants ==
    /\ INPUT_BUF \in Nat \ {0} /\ UINT \in Nat /\ UINT > INPUT_BUF /\ UINT % INPUT_BUF = 0
    /\ Keys \subseteq {"letter", "d", "u", "h", "enter", "shift", "ctl", "rctl", "caps"}

VARIABLES wire, down,       \* bytes the keyboard has sent, modifiers held down
          shift,            \* kbdgetc()'s static shift
          buf, r, w, e,     \* input
          pc, target, n,    \* per reader
          killed, lock

vars == <<wire, down, shift, buf, r, w, e, pc, target, n, killed, lock>>

Char == {"x", "\n", "^D"}
Modifiers == {"shift", "ctl", "rctl", "caps"}

Init ==
    /\ wire = <<>> /\ down = {} /\ shift = {}
    /\ buf = [i \in 0 .. INPUT_BUF - 1 |-> "x"] /\ r = 0 /\ w = 0 /\ e = 0
    /\ pc = [p \in Proc |-> "user"]
    /\ target = [p \in Proc |-> 0] /\ n = [p \in Proc |-> 0]
    /\ killed = [p \in Proc |-> FALSE] /\ lock = None

Wrap(i) == i % UINT
Distance(i, j) == (i - j) % UINT

-----------------------------------------------------------------------------
(* kbd.c                                                                   *)

\* The keyboard sends an escape byte before the codes of the right control
\* key, and sets the top bit when a key is released.  The release of a key
\* that is no modifier changes nothing and is left out.
Byte(k, up) ==
    (IF k = "rctl" THEN <<[key |-> "E0", up |-> FALSE]>> ELSE <<>>)
    \o <<[key |-> IF k = "rctl" THEN "ctl" ELSE k, up |-> up]>>

Tap(k) ==
    /\ wire = <<>> /\ k \notin Modifiers
    /\ wire' = Byte(k, FALSE)
    /\ UNCHANGED <<down, shift, buf, r, w, e, pc, target, n, killed, lock>>

Press(k) ==
    /\ wire = <<>> /\ k \in Modifiers \ down
    /\ down' = down \cup {k} /\ wire' = Byte(k, FALSE)
    /\ UNCHANGED <<shift, buf, r, w, e, pc, target, n, killed, lock>>

LetGo(k) ==
    /\ wire = <<>> /\ k \in down
    /\ down' = down \ {k} /\ wire' = Byte(k, TRUE)
    /\ UNCHANGED <<shift, buf, r, w, e, pc, target, n, killed, lock>>

\* shiftcode[] and togglecode[], the same for an escaped control key.
shiftcode(k) == CASE k = "ctl" -> {"CTL"} [] k = "shift" -> {"SHIFT"} [] OTHER -> {}
togglecode(k) == IF k = "caps" THEN {"CAPSLOCK"} ELSE {}

\* What a byte leaves in shift: E0 is remembered, a release clears its
\* modifier, a press sets or toggles it; both forget the escape.
ShiftAfter(b) ==
    IF b.key = "E0" THEN shift \cup {"E0ESC"}
    ELSE IF b.up THEN shift \ (shiftcode(b.key) \cup {"E0ESC"})
    ELSE LET s == (shift \ {"E0ESC"}) \cup shiftcode(b.key)
         IN (s \ togglecode(b.key)) \cup (togglecode(b.key) \ s)

\* charcode[shift & (CTL | SHIFT)][data]; "" is 0, no character.
charcode(k, s) ==
    CASE k = "enter" -> "\n"
      [] k \in {"d", "u", "h"} /\ "CTL" \in s ->
            (CASE k = "d" -> "^D" [] k = "u" -> "^U" [] OTHER -> "^H")
      [] k \in {"letter", "d", "u", "h"} -> "x"
      [] OTHER -> ""

kbdgetc(b) == IF b.key = "E0" \/ b.up THEN "" ELSE charcode(b.key, ShiftAfter(b))

-----------------------------------------------------------------------------
(* consoleintr()                                                           *)

FullNever == FALSE
Full == Distance(e, r) >= INPUT_BUF

\* wakeup(&input.r)
wakeupNobody == pc
wakeup == [p \in Proc |-> IF pc[p] = "asleep" THEN "woken" ELSE pc[p]]

\* The default case: a character that ends a line, or fills the ring, makes
\* it readable.
store(c) ==
    IF Full THEN UNCHANGED <<buf, w, e, pc>>
    ELSE /\ buf' = [buf EXCEPT ![e % INPUT_BUF] = c]
         /\ e' = Wrap(e + 1)
         /\ IF c \in {"\n", "^D"} \/ e' = Wrap(r + INPUT_BUF)
            THEN w' = e' /\ pc' = wakeup
            ELSE UNCHANGED <<w, pc>>

\* What ^U leaves of the edited line: nothing, back to a newline or to w.
killLine ==
    LET kept == {i \in 0 .. Distance(e, w) :
                    /\ i = 0 \/ buf[Wrap(w + i - 1) % INPUT_BUF] = "\n"
                    /\ \A j \in i .. Distance(e, w) - 1 : buf[Wrap(w + j) % INPUT_BUF] # "\n"}
    IN Wrap(w + CHOOSE i \in kept : \A j \in kept : j <= i)

backspace == IF e = w THEN e ELSE Wrap(e - 1)

kbdintr ==
    /\ wire # <<>> /\ lock = None
    /\ wire' = Tail(wire) /\ shift' = ShiftAfter(Head(wire))
    /\ LET c == kbdgetc(Head(wire)) IN
          CASE c = "" -> UNCHANGED <<buf, w, e, pc>>
            [] c = "^U" -> e' = killLine /\ UNCHANGED <<buf, w, pc>>
            [] c = "^H" -> e' = backspace /\ UNCHANGED <<buf, w, pc>>
            [] OTHER -> store(c)
    /\ UNCHANGED <<down, r, target, n, killed, lock>>

-----------------------------------------------------------------------------
(* consoleread()                                                           *)

Goto(p, label) == pc' = [pc EXCEPT ![p] = label]

Read(p) == \E k \in 1 .. MaxRead :
    /\ pc[p] = "user" /\ lock = None /\ lock' = p
    /\ Goto(p, "reading")
    /\ target' = [target EXCEPT ![p] = k] /\ n' = [n EXCEPT ![p] = k]
    /\ UNCHANGED <<wire, down, shift, buf, r, w, e, killed>>

\* The locals target and n are gone when the call returns.
Return(p) ==
    /\ Goto(p, "user") /\ lock' = None
    /\ target' = [target EXCEPT ![p] = 0] /\ n' = [n EXCEPT ![p] = 0]

\* Nothing to read: sleep, unless killed.
ReadWait(p) ==
    /\ pc[p] = "reading" /\ r = w
    /\ IF killed[p] THEN Return(p)
       ELSE Goto(p, "asleep") /\ lock' = None /\ UNCHANGED <<target, n>>
    /\ UNCHANGED <<wire, down, shift, buf, r, w, e, killed>>

Relock(p) ==
    /\ pc[p] = "woken" /\ lock = None /\ lock' = p
    /\ Goto(p, "reading")
    /\ UNCHANGED <<wire, down, shift, buf, r, w, e, target, n, killed>>

\* The index after a ^D: what was read before it is returned first, and the
\* ^D is left for the next read.
AfterEof(p) == IF n[p] < target[p] THEN r ELSE Wrap(r + 1)

ReadByte(p) ==
    LET c == buf[r % INPUT_BUF] IN
    /\ pc[p] = "reading" /\ r # w
    /\ IF c = "^D"
       THEN r' = AfterEof(p) /\ Return(p)
       ELSE /\ r' = Wrap(r + 1)
            /\ IF c = "\n" \/ n[p] = 1 THEN Return(p)
               ELSE n' = [n EXCEPT ![p] = @ - 1] /\ UNCHANGED <<pc, lock, target>>
    /\ UNCHANGED <<wire, down, shift, buf, w, e, killed>>

Kill(p) ==
    /\ ~killed[p] /\ killed' = [killed EXCEPT ![p] = TRUE]
    /\ IF pc[p] = "asleep" THEN Goto(p, "woken") ELSE UNCHANGED pc
    /\ UNCHANGED <<wire, down, shift, buf, r, w, e, target, n, lock>>

-----------------------------------------------------------------------------
ReaderStep(p) == ReadWait(p) \/ Relock(p) \/ ReadByte(p)
Reader(p) == Read(p) \/ ReaderStep(p) \/ Kill(p)
Typing(k) == Tap(k) \/ Press(k) \/ LetGo(k)

Next == kbdintr \/ (\E p \in Proc : Reader(p)) \/ (\E k \in Keys : Typing(k))

Spec == Init /\ [][Next]_vars

-----------------------------------------------------------------------------
TypeOK ==
    /\ shift \subseteq {"E0ESC", "CTL", "SHIFT", "CAPSLOCK"} /\ down \subseteq Keys \cap Modifiers
    /\ Len(wire) <= 2
    /\ buf \in [0 .. INPUT_BUF - 1 -> Char]
    /\ {r, w, e} \subseteq 0 .. UINT - 1
    /\ pc \in [Proc -> {"user", "reading", "asleep", "woken"}]
    /\ target \in [Proc -> 0 .. MaxRead]
    /\ \A p \in Proc : n[p] \in 0 .. target[p]
    /\ killed \in [Proc -> BOOLEAN] /\ lock \in Proc \cup {None}

\* The characters between two indices of the ring.
Slice(i, j) == [k \in 1 .. Distance(j, i) |-> buf[Wrap(i + k - 1) % INPUT_BUF]]

Lines == INSTANCE LineQueue WITH Capacity <- INPUT_BUF, Ends <- {"\n", "^D"},
                                 queue <- Slice(r, w), editing <- Slice(w, e)

(* The ring is the queue of lines it stands for, across the wrap-around of *)
(* its indices: a key never overwrites a character that is not read yet,   *)
(* erasing never reaches a line that readers have been given, and a reader *)
(* takes the characters in the order typed (consoleintr(), consoleread()). *)
RingIsLineQueue == Lines!Spec

(* A reader sleeps only while there is nothing to read, although several   *)
(* readers share one channel and a ^D put back makes the ring readable     *)
(* again without a wakeup().                                               *)
NoMissedWakeup == \A p \in Proc : pc[p] = "asleep" => r = w

(* A modifier is on only while one of its keys is held, with two control   *)
(* keys that share a bit and an escape byte in between: no combination of  *)
(* presses and releases leaves the keyboard stuck in control mode.         *)
ModifiersFollowKeys ==
    wire = <<>> =>
        /\ "CTL" \in shift => down \cap {"ctl", "rctl"} # {}
        /\ "SHIFT" \in shift => "shift" \in down
        /\ "E0ESC" \notin shift

(* A read that has taken characters never takes a ^D, so that the next one *)
(* sees the end of file: only a read that has nothing yet does.            *)
EofReadAlone ==
    [][\A p \in Proc : pc[p] = "reading" /\ r' # r /\ buf[r % INPUT_BUF] = "^D" =>
          n[p] = target[p]]_vars

\* Readers get the lines that were typed, and the end of file on its own
\* (consoleintr(), consoleread()).
LinesRead ==
    RingIsLineQueue /\ EofReadAlone

\* Readers sleep, and modifiers are on, only while they should (console.c,
\* kbd.c).
ConsoleSound ==
    TypeOK /\ NoMissedWakeup /\ ModifiersFollowKeys

=============================================================================
