------------------------------- MODULE Filters -------------------------------
(***************************************************************************)
(* grep.c and wc.c: the matcher, and the loops that read their input in    *)
(* pieces of whatever size read() returns (from a pipe or the console, any *)
(* size).  A text is a sequence of characters, "\n" among them.            *)
(***************************************************************************)
EXTENDS Integers, FiniteSets, FiniteSetsExt, SequencesExt

CONSTANTS Jobs,       \* the [program, pattern, text] that are tried
          BUFSIZE     \* sizeof(buf)

VARIABLES job, rest,  \* the part of the text not read yet
          held,       \* grep: buf[0 .. m-1]
          out,        \* grep: the lines written
          count,      \* wc: l, w, c and inword
          dropped     \* grep has thrown away the beginning of a line

filterVars == <<job, rest, held, out, count, dropped>>

-----------------------------------------------------------------------------
RECURSIVE matchhere(_, _)
RECURSIVE matchstar(_, _, _)
StarGoesOn(c, text) == text # <<>> /\ (Head(text) = c \/ c = ".")
matchstar(c, re, text) ==
    matchhere(re, text) \/ (StarGoesOn(c, text) /\ matchstar(c, re, Tail(text)))

matchhere(re, text) ==
    IF re = <<>> THEN TRUE
    ELSE IF Len(re) > 1 /\ re[2] = "*" THEN matchstar(re[1], SubSeq(re, 3, Len(re)), text)
    ELSE IF re = <<"$">> THEN text = <<>>
    ELSE text # <<>> /\ re[1] \in {".", text[1]} /\ matchhere(Tail(re), Tail(text))

match(re, text) ==
    IF re # <<>> /\ re[1] = "^" THEN matchhere(Tail(re), text)
    ELSE \E k \in 1 .. Len(text) + 1 : matchhere(re, SubSeq(text, k, Len(text)))

-----------------------------------------------------------------------------
FiltersInit ==
    /\ job \in Jobs
    /\ rest = job.text /\ held = <<>> /\ out = <<>> /\ dropped = FALSE
    /\ count = [l |-> 0, w |-> 0, c |-> 0, inword |-> FALSE]

\* The complete lines of a text, and what follows the last newline.
Newlines(s) == {k \in DOMAIN s : s[k] = "\n"}
Nth(S, n) == CHOOSE k \in S : Cardinality({j \in S : j <= k}) = n
LinesOf(s) ==
    [n \in 1 .. Cardinality(Newlines(s)) |->
        SubSeq(s, IF n = 1 THEN 1 ELSE Nth(Newlines(s), n - 1) + 1, Nth(Newlines(s), n) - 1)]
Remainder(s) == SubSeq(s, Max(Newlines(s) \cup {0}) + 1, Len(s))
Matching(s) == SelectSeq(LinesOf(s), LAMBDA text : match(job.re, text))

Chunks(room) == {k \in 1 .. room : k <= Len(rest)}
Advance(k) == rest' = SubSeq(rest, k + 1, Len(rest))

KeptNothing(s) == <<>>
Kept(s) == IF Newlines(s) = {} THEN <<>> ELSE Remainder(s)

grep == \E k \in Chunks(BUFSIZE - Len(held) - 1) :
    LET s == held \o SubSeq(rest, 1, k) IN
    /\ job.prog = "grep"
    /\ out' = out \o Matching(s)
    /\ held' = Kept(s)
    /\ dropped' = (dropped \/ Newlines(s) = {})
    /\ Advance(k)
    /\ UNCHANGED <<job, count>>

Blanks == {" ", "\n"}
Counted(n, ch) ==
    [l |-> n.l + (IF ch = "\n" THEN 1 ELSE 0),
     w |-> n.w + (IF ch \notin Blanks /\ ~n.inword THEN 1 ELSE 0),
     c |-> n.c + 1,
     inword |-> ch \notin Blanks]

wc == \E k \in Chunks(BUFSIZE) :
    /\ job.prog = "wc"
    /\ count' = FoldLeft(Counted, count, SubSeq(rest, 1, k))
    /\ Advance(k)
    /\ UNCHANGED <<job, held, out, dropped>>

Finished == (rest = <<>> \/ job.prog = "match") /\ UNCHANGED filterVars

FiltersNext == grep \/ wc \/ Finished
FiltersSpec == FiltersInit /\ [][FiltersNext]_filterVars

-----------------------------------------------------------------------------
(* The reference matcher: the set of places that the items of the pattern, *)
(* taken one after another, can lead to.                                   *)
RECURSIVE Items(_)
Items(re) ==
    IF re = <<>> THEN <<>>
    ELSE IF Len(re) > 1 /\ re[2] = "*"
    THEN <<[c |-> re[1], kind |-> "star"]>> \o Items(SubSeq(re, 3, Len(re)))
    ELSE <<[c |-> re[1], kind |-> IF re = <<"$">> THEN "end" ELSE "one"]>> \o Items(Tail(re))

Fits(item, ch) == item.c \in {".", ch}
After(text, places, item) ==
    CASE item.kind = "one" -> {k + 1 : k \in {k \in places : k <= Len(text) /\ Fits(item, text[k])}}
      [] item.kind = "end" -> places \cap {Len(text) + 1}
      [] item.kind = "star" ->
            {j \in 1 .. Len(text) + 1 : \E k \in places :
                k <= j /\ \A i \in k .. j - 1 : Fits(item, text[i])}

Accepts(re, text) ==
    LET anchored == re # <<>> /\ re[1] = "^"
    IN FoldLeft(LAMBDA places, item : After(text, places, item),
                IF anchored THEN {1} ELSE 1 .. Len(text) + 1,
                Items(IF anchored THEN Tail(re) ELSE re)) # {}

\* grep.c: match(), which tries one place after another and backtracks over
\* the length of a starred item, accepts the texts in which the pattern occurs.
MatchesPattern == rest = job.text => (match(job.re, job.text) <=> Accepts(job.re, job.text))

TextRead == SubSeq(job.text, 1, Len(job.text) - Len(rest))

\* grep.c, grep(): whatever the sizes of the reads, the lines written are the
\* matching lines read so far, in order, as long as no read has ended before
\* the first newline in the buffer: "if(p == buf) m = 0" then drops its bytes.
GrepWritesMatches == job.prog = "grep" /\ ~dropped => out = Matching(TextRead)

\* wc.c: the counts do not depend on where a read ends: a word that two reads
\* share is counted once.
WcCounts ==
    job.prog = "wc" =>
        LET s == TextRead IN
        /\ count.c = Len(s) /\ count.l = Cardinality(Newlines(s))
        /\ count.w = Cardinality({k \in DOMAIN s : /\ s[k] \notin Blanks
                                                   /\ k = 1 \/ s[k - 1] \in Blanks})

\* grep and wc give the result of the whole text, however read() cuts it.
FiltersAgree ==
    MatchesPattern /\ GrepWritesMatches /\ WcCounts

=============================================================================
