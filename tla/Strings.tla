------------------------------- MODULE Strings -------------------------------
(***************************************************************************)
(* The string and number routines that the kernel and the user programs    *)
(* share: string.c, ulib.c, skipelem() of fs.c, printint() and atoi(), and *)
(* the checks of system call arguments.  The loops are recursions on a     *)
(* memory of NMEM bytes that a program fills as it likes; after it come a  *)
(* directory entry's name of DIRSIZ bytes and one byte that is not its.    *)
(***************************************************************************)
EXTENDS Integers, FiniteSets, FiniteSetsExt, SequencesExt

CONSTANTS NMEM, DIRSIZ, INTBITS   \* the width of an int

VARIABLES mem, num

stringVars == <<mem, num>>

NUL == 0
Slash == 1
Letter == 2
Bytes == {NUL, Slash, Letter}
Entry == NMEM
Guard == NMEM + DIRSIZ
Stale == 3                     \* what the entry holds before

Memory == [i \in 0 .. Guard |-> IF i < NMEM THEN mem[i] ELSE Stale]

-----------------------------------------------------------------------------
RECURSIVE CopyUp(_, _, _, _)
CopyUp(m, d, s, n) == IF n = 0 THEN m ELSE CopyUp([m EXCEPT ![d] = m[s]], d + 1, s + 1, n - 1)
RECURSIVE CopyDown(_, _, _, _)
CopyDown(m, d, s, n) ==
    IF n = 0 THEN m ELSE CopyDown([m EXCEPT ![d - 1] = m[s - 1]], d - 1, s - 1, n - 1)

Overlaps(d, s, n) == s < d /\ s + n > d
memmove(m, d, s, n) == IF Overlaps(d, s, n) THEN CopyDown(m, d + n, s + n, n)
                       ELSE CopyUp(m, d, s, n)
umemmove(m, d, s, n) == CopyUp(m, d, s, n)

\* while(n-- > 0 && (*s++ = *t++) != 0): the memory, s and n after it.
RECURSIVE CopyStr(_, _, _, _)
CopyStr(m, s, t, n) ==
    LET c == [m EXCEPT ![s] = m[t]] IN
    IF n <= 0 THEN [m |-> m, s |-> s, n |-> n - 1]
    ELSE IF m[t] = NUL THEN [m |-> c, s |-> s + 1, n |-> n - 1]
    ELSE CopyStr(c, s + 1, t + 1, n - 1)
RECURSIVE Pad(_, _, _)
Pad(m, s, n) == IF n <= 0 THEN m ELSE Pad([m EXCEPT ![s] = NUL], s + 1, n - 1)
strncpy(m, s, t, n) == LET r == CopyStr(m, s, t, n) IN Pad(r.m, r.s, r.n)

safestrcpy(m, s, t, n) ==
    LET r == CopyStr(m, s, t, n - 1) IN IF n <= 0 THEN m ELSE [r.m EXCEPT ![r.s] = NUL]

RECURSIVE strncmp(_, _, _, _)
strncmpDone(m, p, q, n) == n = 0
strncmp(m, p, q, n) ==
    IF strncmpDone(m, p, q, n) THEN 0
    ELSE IF m[p] # NUL /\ m[p] = m[q] THEN strncmp(m, p + 1, q + 1, n - 1) ELSE m[p] - m[q]

Diff(m, p, q) == m[p] - m[q]
RECURSIVE strcmp(_, _, _)
strcmp(m, p, q) == IF m[p] # NUL /\ m[p] = m[q] THEN strcmp(m, p + 1, q + 1) ELSE Diff(m, p, q)

RECURSIVE memcmp(_, _, _, _)
memcmp(m, p, q, n) == IF n = 0 THEN 0 ELSE IF m[p] # m[q] THEN m[p] - m[q]
                      ELSE memcmp(m, p + 1, q + 1, n - 1)

\* fetchstr(): the length of the string at addr, or -1.
RECURSIVE StrScan(_, _, _, _)
StrScan(m, s, ep, addr) == IF s >= ep THEN -1 ELSE IF m[s] = NUL THEN s - addr
                           ELSE StrScan(m, s + 1, ep, addr)
fetchstr(m, addr, sz) == IF addr >= sz THEN -1 ELSE StrScan(m, addr, sz, addr)

-----------------------------------------------------------------------------
LongNameStrict(len) == len > DIRSIZ
LongName(len) == len >= DIRSIZ
SlashesEnd(p) == Min({k \in p .. NMEM : k = NMEM \/ mem[k] # Slash})

\* skipelem(): the rest of the path and the bytes stored in name, or -1.
skipelem(p) ==
    LET s == SlashesEnd(p)
        end == Min({k \in s .. NMEM : k = NMEM \/ mem[k] \in {Slash, NUL}})
        len == end - s
    IN IF mem[s] = NUL THEN [path |-> -1, name |-> <<>>]
       ELSE [path |-> SlashesEnd(end),
             name |-> IF LongName(len) THEN [i \in 1 .. DIRSIZ |-> mem[s + i - 1]]
                      ELSE [i \in 1 .. len + 1 |-> IF i = len + 1 THEN NUL ELSE mem[s + i - 1]]]

\* The loop of namex(): each name, and whether it is the path's last one.
RECURSIVE NamexLoop(_)
NamexLoop(p) == LET e == skipelem(p) IN
                IF e.path = -1 THEN <<>>
                ELSE <<[name |-> e.name, last |-> mem[e.path] = NUL]>> \o NamexLoop(e.path)

-----------------------------------------------------------------------------
\* printint(): the digits, least significant first, then reversed; -1 is '-'.
RECURSIVE Digits(_, _, _)
DigitsStop(x, base) == x \div base = 0
Digits(x, base, buf) ==
    LET b == Append(buf, x % base) IN
    IF DigitsStop(x, base) THEN b ELSE Digits(x \div base, base, b)
printint(xx, base, sgn) ==
    LET neg == sgn /\ xx < 0
        b == Digits((IF neg THEN -xx ELSE xx) % 2^INTBITS, base, <<>>)
    IN Reverse(IF neg THEN Append(b, -1) ELSE b)

atoi(s) == FoldLeft(LAMBDA n, d : n * 10 + d, 0, s)

\* System call arguments: addr is a uint, size an int, sz the process's size.
argptr(addr, size, sz) == ~(size < 0 \/ addr >= sz \/ (addr + size) % 2^INTBITS > sz)
fetchint(addr, sz) == ~(addr >= sz \/ (addr + 4) % 2^INTBITS > sz)

-----------------------------------------------------------------------------
Blank == [i \in 0 .. NMEM - 1 |-> NUL]
StringsInit == mem = <<>> /\ num = -1        \* the program has not started

Start == mem = <<>> /\ mem' = Blank /\ num' = 0

\* A program stores a byte of a string; the numbers are run through once.
Store == num = 0 /\ \E i \in DOMAIN mem, c \in Bytes : mem' = [mem EXCEPT ![i] = c] /\ UNCHANGED num
Count == mem = Blank /\ num' = (num + 1) % 2^INTBITS /\ UNCHANGED mem

StringsNext == Start \/ Store \/ Count
StringsSpec == StringsInit /\ [][StringsNext]_stringVars

-----------------------------------------------------------------------------
Addr == DOMAIN mem
Ends(p) == {k \in p .. NMEM - 1 : mem[k] = NUL}
Strings == {p \in Addr : Ends(p) # {}}
Str(p) == [i \in 1 .. Min(Ends(p)) - p |-> mem[p + i - 1]]
Cut(s, n) == SubSeq(s, 1, Min({n, Len(s)}))

Moved(d, s, n) == [i \in 0 .. Guard |-> IF i \in d .. d + n - 1 THEN mem[i - d + s] ELSE Memory[i]]

\* string.c, memmove(): the destination receives what the source held before,
\* however the two overlap; ulib.c's memmove() does when it moves downwards,
\* as grep.c does to keep a partial line, or when they do not overlap.
MovesOverlapping ==
    \A d, s \in Addr : \A n \in 0 .. NMEM - Max({d, s}) :
        /\ memmove(Memory, d, s, n) = Moved(d, s, n)
        /\ d <= s \/ s + n <= d => umemmove(Memory, d, s, n) = Moved(d, s, n)

\* fs.c, dirlink() and dirlookup(): a name stored with strncpy() in DIRSIZ
\* bytes, which leaves no NUL when the name fills them, is found by namecmp()
\* for exactly the names that agree with it in DIRSIZ bytes.
NamesFound ==
    \A p, q \in Strings :
        LET m == strncpy(Memory, Entry, p, DIRSIZ) IN
        /\ strncmp(m, q, Entry, DIRSIZ) = 0 <=> Cut(Str(p), DIRSIZ) = Cut(Str(q), DIRSIZ)
        /\ m[Guard] = Stale

\* string.c, safestrcpy(): the copy of a process's name is its longest prefix
\* that fits with a NUL, and nothing after the n bytes is written.
SafeCopyFits ==
    \A p \in Strings, n \in 1 .. DIRSIZ :
        LET m == safestrcpy(Memory, Entry, p, n)
            len == Min({Len(Str(p)), n - 1})
        IN /\ \A i \in 1 .. len : m[Entry + i - 1] = Str(p)[i]
           /\ m[Entry + len] = NUL
           /\ \A i \in Entry + n .. Guard : m[i] = Stale

\* strcmp(), memcmp() and fetchstr() agree with the strings as sequences.
StringsCompared ==
    \A p \in Addr :
        /\ fetchstr(Memory, p, NMEM) = IF p \in Strings THEN Len(Str(p)) ELSE -1
        /\ \A q \in Strings : p \in Strings =>
              /\ strcmp(Memory, p, q) = 0 <=> Str(p) = Str(q)
              /\ strcmp(Memory, p, q) = -strcmp(Memory, q, p)
        /\ \A q \in Addr : \A n \in 0 .. NMEM - Max({p, q}) :
              memcmp(Memory, p, q, n) = 0 <=> \A i \in 0 .. n - 1 : mem[p + i] = mem[q + i]

\* fs.c, skipelem() in the loop of namex(): the names are the maximal runs
\* without a slash, cut to DIRSIZ bytes and never stored beyond them, and the
\* test for the last one is right with trailing slashes.
PathSplit ==
    \A p \in Strings :
        LET s == Str(p)
            starts == {k \in DOMAIN s : s[k] # Slash /\ (k = 1 \/ s[k - 1] = Slash)}
            Run(k) == Max({e \in k .. Len(s) : \A j \in k .. e : s[j] # Slash})
            loop == NamexLoop(p)
        IN /\ Len(loop) = Cardinality(starts)
           /\ \A n \in DOMAIN loop :
                 LET k == CHOOSE k \in starts : Cardinality({j \in starts : j < k}) = n - 1
                     name == SubSeq(s, k, Run(k))
                 IN /\ loop[n].name = IF Len(name) < DIRSIZ THEN Append(name, NUL)
                                      ELSE Cut(name, DIRSIZ)
                    /\ loop[n].last <=> n = Len(loop)

Signed == IF num < 2^(INTBITS - 1) THEN num ELSE num - 2^INTBITS
Value(s, base) == FoldLeft(LAMBDA v, d : v * base + d, 0, s)

\* printint() of printf.c and console.c prints every int, the least one whose
\* negation overflows included, and atoi() reads a printed number back.
NumbersPrinted == num >= 0 =>
    LET dec == printint(Signed, 10, TRUE)
        hex == printint(Signed, 16, FALSE)
    IN /\ Signed = IF Head(dec) = -1 THEN -Value(Tail(dec), 10) ELSE Value(dec, 10)
       /\ num = Value(hex, 16)
       /\ Signed >= 0 => atoi(dec) = Signed
       /\ \A s \in {dec, hex} : Len(s) > 1 => Head(s) # 0

\* syscall.c: argptr() and fetchint() accept exactly the ranges that lie in
\* the process, although the sum of address and size is computed modulo 2^w.
ArgumentsInside == num >= 0 =>
    \A sz \in 0 .. 2^(INTBITS - 1) :
        /\ \A size \in -(2^(INTBITS - 1)) .. 2^(INTBITS - 1) - 1 :
              argptr(num, size, sz) <=> size >= 0 /\ num < sz /\ num + size <= sz
        /\ fetchint(num, sz) <=> num + 4 <= sz

\* Each routine agrees with what it is for, on every memory and every number.
StringsAgree ==
    MovesOverlapping /\ NamesFound /\ SafeCopyFits /\ StringsCompared /\ PathSplit
    /\ NumbersPrinted /\ ArgumentsInside

=============================================================================
