-------------------------------- MODULE Shell --------------------------------
(***************************************************************************)
(* sh.c: the parser, and the processes and descriptors of runcmd().  A     *)
(* line is a sequence of characters of which "w" stands for any character  *)
(* of a word; a word is its first position q and the one after its last,   *)
(* eq.  A command is known by its path from the root of the parsed line.   *)
(***************************************************************************)
EXTENDS Integers, FiniteSets, FiniteSetsExt, SequencesExt

CONSTANTS Inputs,     \* lines that are typed
          MAXARGS, NSHELL,
          Nil

VARIABLES line,
          proc,       \* process -> [st, cmd, path, fd, parent]; 0 is the shell
          tree,       \* what the child of main() made of the line
          forkFailed  \* whether a fork1() has failed

shellVars == <<line, proc, tree, forkFailed>>

whitespace == {" "}
symbols == {"<", "|", ">", "&", ";", "(", ")"}

-----------------------------------------------------------------------------
(* The lexer: i is *ps, and Len(line) + 1 is es, where the string ends.    *)
Skip(i) == Min({j \in i .. Len(line) + 1 : j > Len(line) \/ line[j] \notin whitespace})
At(i) == IF i > Len(line) THEN "" ELSE line[i]

peek(i, toks) == At(Skip(i)) \in toks

TokenEnd(q) == IF At(q) = "" THEN q
               ELSE IF At(q) = ">" /\ At(q + 1) = ">" THEN q + 2
               ELSE IF At(q) \in symbols THEN q + 1
               ELSE Min({j \in q .. Len(line) + 1 : At(j) \in whitespace \cup symbols \cup {""}})
Token(q, eq) == [tok |-> IF eq = q + 2 /\ At(q) = ">" THEN "+"
                         ELSE IF At(q) \in symbols \cup {""} THEN At(q) ELSE "a",
                 q |-> q, eq |-> eq, next |-> Skip(eq)]

gettoken(i) == Token(Skip(i), TokenEnd(Skip(i)))

Word(t) == [q |-> t.q, eq |-> t.eq]

(* A parser takes a position and returns the next one and a command; the   *)
(* position 0 is panic(), which ends the child that parses.                *)
execcmd(argv) == [type |-> "EXEC", argv |-> argv]
redircmd(cmd, file, fd) == [type |-> "REDIR", cmd |-> cmd, file |-> file, fd |-> fd]
pipecmd(left, right) == [type |-> "PIPE", left |-> left, right |-> right]
listcmd(left, right) == [type |-> "LIST", left |-> left, right |-> right]
backcmd(cmd) == [type |-> "BACK", cmd |-> cmd]

Parsed(i, cmd) == [i |-> i, cmd |-> cmd]
Failed == Parsed(0, Nil)

RECURSIVE parseredirs(_)
Redirection(r, t, f) ==
    IF f.tok # "a" THEN Failed
    ELSE parseredirs(Parsed(f.next, redircmd(r.cmd, Word(f), IF t.tok = "<" THEN 0 ELSE 1)))
parseredirs(r) ==
    IF r.i = 0 \/ ~peek(r.i, {"<", ">"}) THEN r
    ELSE Redirection(r, gettoken(r.i), gettoken(gettoken(r.i).next))

\* cmd->argv[argc++] = q, in the command that redirections may surround.
RECURSIVE AddArg(_, _)
AddArg(cmd, word) == IF cmd.type = "EXEC" THEN execcmd(Append(cmd.argv, word))
                     ELSE [cmd EXCEPT !.cmd = AddArg(@, word)]
RECURSIVE argc(_)
argc(cmd) == IF cmd.type = "EXEC" THEN Len(cmd.argv) ELSE argc(cmd.cmd)

ArgEnds == {"|", ")", "&", ";"}

RECURSIVE Args(_)
Arg(r, t) == IF t.tok = "" THEN r
             ELSE IF t.tok # "a" \/ argc(r.cmd) + 1 >= MAXARGS THEN Failed
             ELSE Args(parseredirs(Parsed(t.next, AddArg(r.cmd, Word(t)))))
Args(r) == IF r.i = 0 \/ peek(r.i, ArgEnds) THEN r ELSE Arg(r, gettoken(r.i))

RECURSIVE parseline(_)
BlockEnd(r) == IF r.i = 0 \/ ~peek(r.i, {")"}) THEN Failed
               ELSE parseredirs(Parsed(gettoken(r.i).next, r.cmd))
parseblock(i) == BlockEnd(parseline(gettoken(i).next))

parseexec(i) == IF peek(i, {"("}) THEN parseblock(i)
                ELSE Args(parseredirs(Parsed(i, execcmd(<<>>))))

RECURSIVE parsepipe(_)
Piped(r, s) == IF s.i = 0 THEN s ELSE Parsed(s.i, pipecmd(r.cmd, s.cmd))
PipeRest(r) == IF r.i = 0 \/ ~peek(r.i, {"|"}) THEN r
               ELSE Piped(r, parsepipe(gettoken(r.i).next))
parsepipe(i) == PipeRest(parseexec(i))

RECURSIVE Backs(_)
Backs(r) == IF r.i = 0 \/ ~peek(r.i, {"&"}) THEN r
            ELSE Backs(Parsed(gettoken(r.i).next, backcmd(r.cmd)))

Listed(r, s) == IF s.i = 0 THEN s ELSE Parsed(s.i, listcmd(r.cmd, s.cmd))
ListRest(r) == IF r.i = 0 \/ ~peek(r.i, {";"}) THEN r
               ELSE Listed(r, parseline(gettoken(r.i).next))
parseline(i) == ListRest(Backs(parsepipe(i)))

Leftovers(r) == IF r.i = 0 \/ Skip(r.i) # Len(line) + 1 THEN Nil ELSE r.cmd

parsecmd == Leftovers(parseline(1))

\* The positions that nulterminate() overwrites.
FileEnd(cmd) == {cmd.file.eq}
RECURSIVE nulterminate(_)
nulterminate(cmd) ==
    CASE cmd.type = "EXEC" -> {cmd.argv[k].eq : k \in DOMAIN cmd.argv}
      [] cmd.type = "REDIR" -> nulterminate(cmd.cmd) \cup FileEnd(cmd)
      [] cmd.type \in {"PIPE", "LIST"} -> nulterminate(cmd.left) \cup nulterminate(cmd.right)
      [] cmd.type = "BACK" -> nulterminate(cmd.cmd)

-----------------------------------------------------------------------------
(* Processes.  A descriptor is the console, a file (the word that names    *)
(* it), an end of the pipe made by the command at some path, or Nil.       *)
Tty == <<"tty">>
Fds == 0 .. 4
NoFds == [d \in Fds |-> Nil]
Std == [d \in Fds |-> IF d <= 2 THEN Tty ELSE Nil]

LowestFree(fd) == Min({d \in Fds : fd[d] = Nil})
close(fd, d) == [fd EXCEPT ![d] = Nil]
Installed(fd, obj) == [fd EXCEPT ![LowestFree(fd)] = obj]
dup(fd, d) == Installed(fd, fd[d])

Process(st, cmd, path, fd, parent) ==
    [st |-> st, cmd |-> cmd, path |-> path, fd |-> fd, parent |-> parent]
Unused == Process("unused", Nil, <<>>, NoFds, -1)

ShellInit == /\ line = <<>> /\ tree = Nil
             /\ proc = [p \in 0 .. NSHELL |->
                            IF p = 0 THEN Process("getcmd", Nil, <<>>, Std, -1) ELSE Unused]
             /\ forkFailed = FALSE

\* exit(): descriptors are closed, children become init's.
Exited(p) == [q \in 0 .. NSHELL |->
                 IF q = p THEN [proc[p] EXCEPT !.st = "zombie", !.cmd = Nil, !.fd = NoFds]
                 ELSE IF proc[q].parent = p THEN [proc[q] EXCEPT !.parent = -1] ELSE proc[q]]

exit(p) == proc' = Exited(p) /\ UNCHANGED <<line, tree, forkFailed>>

\* fork1(): the child runs cmd; the parent goes on at st, or panics.
fork1(p, cmd, step, fd, st, parentFd) ==
    \/ LET free == {q \in 1 .. NSHELL : proc[q].st = "unused"} IN
       /\ free # {}
       /\ proc' = [proc EXCEPT
              ![p].st = st, ![p].fd = parentFd,
              ![Min(free)] = Process("runcmd", cmd, proc[p].path \o step, fd, p)]
       /\ UNCHANGED <<line, tree, forkFailed>>
    \/ proc' = Exited(p) /\ forkFailed' = TRUE /\ UNCHANGED <<line, tree>>

\* wait(): p goes on as "next" when a child has been reaped or there is none.
wait(p, next) ==
    /\ LET kids == {q \in 1 .. NSHELL : proc[q].st # "unused" /\ proc[q].parent = p} IN
       \/ kids = {} /\ proc' = [proc EXCEPT ![p] = next]
       \/ \E q \in kids : /\ proc[q].st = "zombie"
                          /\ proc' = [proc EXCEPT ![q] = Unused, ![p] = next]
    /\ UNCHANGED <<line, tree, forkFailed>>

Into(p, cmd, step) == [proc[p] EXCEPT !.st = "runcmd", !.cmd = cmd, !.path = @ \o step]
At_(p, st) == [proc[p] EXCEPT !.st = st]
Runs(p, type) == proc[p].st = "runcmd" /\ proc[p].cmd # Nil /\ proc[p].cmd.type = type

-----------------------------------------------------------------------------
\* main(): one line is read; the child parses it.
getcmd == /\ proc[0].st = "getcmd" /\ line = <<>>
          /\ \E s \in Inputs : line' = s
          /\ proc' = [proc EXCEPT ![0] = At_(0, "fork")]
          /\ UNCHANGED <<tree, forkFailed>>

MainFork == proc[0].st = "fork" /\ fork1(0, Nil, <<>>, proc[0].fd, "wait", proc[0].fd)
MainWait == proc[0].st = "wait" /\ wait(0, At_(0, "getcmd"))
MainEof == proc[0].st = "getcmd" /\ line # <<>> /\ exit(0)

Parse(p) == /\ proc[p].st = "runcmd" /\ proc[p].cmd = Nil
            /\ tree' = parsecmd
            /\ proc' = IF tree' = Nil THEN Exited(p) ELSE [proc EXCEPT ![p].cmd = tree']
            /\ UNCHANGED <<line, forkFailed>>

\* runcmd(), by the type of the command.

\* A program ends when it likes ("prog") or at the end of its input ("cat").
RunExec(p) ==
    /\ Runs(p, "EXEC")
    /\ \/ exit(p)
       \/ /\ proc[p].cmd.argv # <<>>
          /\ \E st \in {"prog", "cat"} : proc' = [proc EXCEPT ![p] = At_(p, st)]
          /\ UNCHANGED <<line, tree, forkFailed>>

Program(p) ==
    /\ \/ proc[p].st = "prog"
       \/ /\ proc[p].st = "cat"
          /\ proc[p].fd[0][1] = "read" =>
                 \A q \in 0 .. NSHELL, d \in Fds : proc[q].fd[d] # <<"write", proc[p].fd[0][2]>>
    /\ exit(p)

Redirect(fd, d, obj) == Installed(close(fd, d), obj)

RunRedir(p) ==
    LET c == proc[p].cmd IN
    /\ Runs(p, "REDIR")
    /\ \/ /\ proc' = [proc EXCEPT ![p] =
                 [Into(p, c.cmd, <<"cmd">>) EXCEPT !.fd = Redirect(@, c.fd, <<"file", c.file>>)]]
          /\ UNCHANGED <<line, tree, forkFailed>>
       \/ exit(p)

RunList(p) == /\ Runs(p, "LIST")
              /\ fork1(p, proc[p].cmd.left, <<"left">>, proc[p].fd, "list", proc[p].fd)
ListWait(p) == proc[p].st = "list" /\ wait(p, Into(p, proc[p].cmd.right, <<"right">>))

RunBack(p) == /\ Runs(p, "BACK")
              /\ fork1(p, proc[p].cmd.cmd, <<"cmd">>, proc[p].fd, "exit", proc[p].fd)

\* p[0] and p[1] are descriptors 3 and 4.
RunPipe(p) ==
    /\ Runs(p, "PIPE")
    /\ \/ /\ proc' = [proc EXCEPT ![p].st = "pipe", ![p].fd =
                 Installed(Installed(@, <<"read", proc[p].path>>), <<"write", proc[p].path>>)]
          /\ UNCHANGED <<line, tree, forkFailed>>
       \/ exit(p)

BothClosedOnce(fd) == close(fd, 3)
BothClosed(fd) == close(close(fd, 3), 4)
End(fd, d, end) == BothClosed(dup(close(fd, d), end))

PipeLeft(p) == /\ proc[p].st = "pipe"
               /\ fork1(p, proc[p].cmd.left, <<"left">>, End(proc[p].fd, 1, 4),
                        "pipe2", proc[p].fd)
PipeRight(p) == /\ proc[p].st = "pipe2"
                /\ fork1(p, proc[p].cmd.right, <<"right">>, End(proc[p].fd, 0, 3),
                         "close", proc[p].fd)
PipeClose(p) == /\ proc[p].st = "close"
                /\ proc' = [proc EXCEPT ![p].st = "wait2", ![p].fd = BothClosed(@)]
                /\ UNCHANGED <<line, tree, forkFailed>>
PipeWait2(p) == proc[p].st = "wait2" /\ wait(p, At_(p, "wait1"))
PipeWait1(p) == proc[p].st = "wait1" /\ wait(p, At_(p, "exit"))

Exit(p) == proc[p].st = "exit" /\ exit(p)

Done == /\ \A p \in 0 .. NSHELL : proc[p].st \in {"unused", "zombie"}
        /\ UNCHANGED shellVars

ShellNext ==
    \/ getcmd \/ MainFork \/ MainWait \/ MainEof \/ Done
    \/ \E p \in 1 .. NSHELL :
          \/ Parse(p) \/ RunExec(p) \/ Program(p) \/ RunRedir(p) \/ RunList(p) \/ ListWait(p)
          \/ RunBack(p) \/ RunPipe(p) \/ PipeLeft(p) \/ PipeRight(p) \/ PipeClose(p)
          \/ PipeWait2(p) \/ PipeWait1(p) \/ Exit(p)

ShellSpec == ShellInit /\ [][ShellNext]_shellVars

-----------------------------------------------------------------------------
(* The reference: tokens by maximal munch, and the grammar                 *)
(*   Line ::= Back | Back ; Line       Back ::= Pipe | Back &              *)
(*   Pipe ::= Exec | Exec "|" Pipe     Exec ::= Simple | Block             *)
(*   Block ::= ( Line ) | Block Redir  Simple ::= (word | Redir)*          *)
(* as the set of all trees that a token sequence may have.                 *)
TokenStarts ==
    {k \in DOMAIN line :
        CASE line[k] \in whitespace -> FALSE
          [] line[k] = ">" ->
                Cardinality({j \in 1 .. k - 1 : \A h \in j .. k - 1 : line[h] = ">"}) % 2 = 0
          [] line[k] \in symbols \ {">"} -> TRUE
          [] OTHER -> k = 1 \/ line[k - 1] \in whitespace \cup symbols}

TokenAt(k) ==
    IF line[k] \in symbols
    THEN [tok |-> IF line[k] = ">" /\ At(k + 1) = ">" THEN "+" ELSE line[k], q |-> k, eq |-> k]
    ELSE [tok |-> "a", q |-> k,
          eq |-> Max({e \in k + 1 .. Len(line) + 1 :
                         \A j \in k .. e - 1 : line[j] \notin whitespace \cup symbols})]
Sorted(S) == [n \in 1 .. Cardinality(S) |->
                 CHOOSE k \in S : Cardinality({j \in S : j < k}) = n - 1]
Tokens == LET ks == Sorted(TokenStarts) IN [n \in DOMAIN ks |-> TokenAt(ks[n])]

Upto(t, k) == SubSeq(t, 1, k)
From(t, k) == SubSeq(t, k, Len(t))
IsRedir(t, k) == k \in DOMAIN t /\ t[k].tok \in {"<", ">", "+"}
Redirected(c, t, k) == redircmd(c, Word(t[k + 1]), IF t[k].tok = "<" THEN 0 ELSE 1)

SimpleTrees(t) ==
    LET redirs == {k \in DOMAIN t : IsRedir(t, k)}
        words == {k \in DOMAIN t : t[k].tok = "a" /\ ~IsRedir(t, k - 1)}
        argv == Sorted(words)
    IN IF /\ \A k \in redirs : k < Len(t) /\ t[k + 1].tok = "a"
          /\ \A k \in DOMAIN t : k \in redirs \/ t[k].tok = "a"
          /\ Len(argv) < MAXARGS
       THEN {FoldLeft(LAMBDA c, k : Redirected(c, t, k),
                      execcmd([n \in DOMAIN argv |-> Word(t[argv[n]])]),
                      Sorted(redirs))}
       ELSE {}

RECURSIVE BlockTrees(_), PipeTrees(_), BackTrees(_), LineTrees(_)
BlockTrees(t) ==
    LET n == Len(t) IN
    IF n < 2 THEN {}
    ELSE IF IsRedir(t, n - 1) /\ t[n].tok = "a"
    THEN {Redirected(c, t, n - 1) : c \in BlockTrees(Upto(t, n - 2))}
    ELSE IF t[1].tok = "(" /\ t[n].tok = ")" THEN LineTrees(SubSeq(t, 2, n - 1)) ELSE {}

ExecTrees(t) == SimpleTrees(t) \cup BlockTrees(t)
PipeTrees(t) ==
    ExecTrees(t) \cup
    UNION {{pipecmd(l, r) : l \in ExecTrees(Upto(t, k - 1)), r \in PipeTrees(From(t, k + 1))} :
               k \in {k \in DOMAIN t : t[k].tok = "|"}}
BackTrees(t) ==
    PipeTrees(t) \cup
    (IF t # <<>> /\ Last(t).tok = "&" THEN {backcmd(c) : c \in BackTrees(Front(t))} ELSE {})
LineTrees(t) ==
    BackTrees(t) \cup
    UNION {{listcmd(l, r) : l \in BackTrees(Upto(t, k - 1)), r \in LineTrees(From(t, k + 1))} :
               k \in {k \in DOMAIN t : t[k].tok = ";"}}

JustRead == proc[0].st = "fork"

Only(c) == IF c = Nil THEN {} ELSE {c}

\* sh.c: parsecmd() accepts exactly the lines of the grammar, and builds the
\* one tree that the grammar gives the line.
ParsesGrammar == JustRead => LineTrees(Tokens) = Only(parsecmd)

RECURSIVE Words(_)
Words(c) == CASE c.type = "EXEC" -> Range(c.argv)
              [] c.type = "REDIR" -> Words(c.cmd) \cup {c.file}
              [] c.type = "BACK" -> Words(c.cmd)
              [] OTHER -> Words(c.left) \cup Words(c.right)

Whole(c) ==
    c # Nil => \A word \in Words(c) :
                   word.eq = Min({k \in word.q .. Len(line) + 1 :
                                     k = Len(line) + 1 \/ k \in nulterminate(c)})

\* sh.c: after nulterminate() every argument and file name that runcmd() uses
\* ends where its word ends, although no character separates "a>b" or "a;b".
WordsWhole == JustRead => Whole(parsecmd)

-----------------------------------------------------------------------------
Live == {p \in 1 .. NSHELL : proc[p].st \notin {"unused", "zombie"}}

RECURSIVE Wiring(_, _, _, _)
Wiring(c, path, in, out) ==
    CASE c.type = "EXEC" -> {<<path, in, out>>}
      [] c.type = "REDIR" -> Wiring(c.cmd, path \o <<"cmd">>,
                                    IF c.fd = 0 THEN <<"file", c.file>> ELSE in,
                                    IF c.fd = 1 THEN <<"file", c.file>> ELSE out)
      [] c.type = "BACK" -> Wiring(c.cmd, path \o <<"cmd">>, in, out)
      [] c.type = "LIST" -> Wiring(c.left, path \o <<"left">>, in, out) \cup
                            Wiring(c.right, path \o <<"right">>, in, out)
      [] c.type = "PIPE" -> Wiring(c.left, path \o <<"left">>, in, <<"write", path>>) \cup
                            Wiring(c.right, path \o <<"right">>, <<"read", path>>, out)

\* sh.c, runcmd(): a program is started with the input and output that its
\* place in the line calls for, the console as descriptor 2, and no other.
Wired == \A p \in Live : proc[p].st \in {"prog", "cat"} =>
             /\ <<proc[p].path, proc[p].fd[0], proc[p].fd[1]>> \in Wiring(tree, <<>>, Tty, Tty)
             /\ proc[p].fd[2] = Tty
             /\ \A d \in Fds : d > 2 => proc[p].fd[d] = Nil

\* sh.c, PIPE: the write end of a pipe is open only in the commands on its
\* left and, until it waits for them, in the process that made the pipe: a
\* process that waits holds no write end the waited-for reader depends on.
WritersUpstream ==
    \A p \in Live, d \in Fds :
        proc[p].fd[d] # Nil /\ proc[p].fd[d][1] = "write" =>
            LET x == proc[p].fd[d][2] IN
            \/ IsPrefix(Append(x, "left"), proc[p].path)
            \/ proc[p].path = x /\ proc[p].st \in {"pipe", "pipe2", "close"}

RECURSIVE Node(_, _)
Node(c, path) ==
    IF path = <<>> THEN c
    ELSE Node(CASE Head(path) = "left" -> c.left
                [] Head(path) = "right" -> c.right
                [] OTHER -> c.cmd, Tail(path))

\* The process is below a BACK command that is below the given path.
InBackground(p, path) ==
    \E n \in Len(path) .. Len(proc[p].path) - 1 :
        Node(tree, Upto(proc[p].path, n)).type = "BACK"

\* sh.c, LIST: "wait(); runcmd(lcmd->right)": the right side of a list runs
\* only when the left side has ended, but for its background commands (and
\* what a failed fork1() has left behind).
ListInOrder ==
    \A p, q \in Live :
        \A n \in 0 .. Len(proc[p].path) - 1 :
            LET x == Upto(proc[p].path, n) IN
            /\ Node(tree, x).type = "LIST"
            /\ proc[p].path[n + 1] = "right"
            /\ IsPrefix(Append(x, "left"), proc[q].path)
            => InBackground(q, x) \/ forkFailed

\* sh.c, main(): the shell reads its next line when only commands put in the
\* background still run (or what a failed fork1() has left behind).
PromptWhenDone ==
    proc[0].st = "getcmd" /\ ~forkFailed => \A p \in Live : InBackground(p, <<>>)

\* sh.c runs the line that was typed: its tree, its words, its descriptors and
\* its order.
ShellSound ==
    ParsesGrammar /\ WordsWhole /\ Wired /\ WritersUpstream /\ ListInOrder /\ PromptWhenDone

=============================================================================
