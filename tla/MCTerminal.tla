----------------------------- MODULE MCTerminal -----------------------------
(* The console, the shell and the text routines: a behaviour is one of     *)
(* Console, Shell, Strings or Filters.  Two readers, which are             *)
(* interchangeable, share a ring of two characters; the shell is given     *)
(* every line of three characters, every line of four of seven of them,    *)
(* and longer ones that nest lists, pipes, blocks and redirections.        *)
EXTENDS Console, Shell, Strings, Filters, TLC

VARIABLE unit

Symmetry == Permutations(Proc)

Chars == {"w", " ", "|", "(", ")", ";", "&", ">", "<"}
MCInputs == (BoundedSeq(Chars, 3) \ {<<>>}) \cup [1 .. 4 -> Chars \ {" ", "<"}] \cup
    {<<"w", "|", "w", "|", "w">>, <<"(", "w", ";", "w", ")", "|", "w">>,
     <<"w", "<", "w", "|", "w", ">", ">", "w">>, <<"(", "w", "|", "w", ")", "&", ";", "w">>,
     <<"(", "w", "&", ")", ";", "w">>, <<"w", ">", "w", " ", "w", ">", "w">>}

Job(prog, res, texts) == [prog : {prog}, re : res, text : texts]
MCJobs ==
    Job("match", BoundedSeq({"a", ".", "*", "^", "$"}, 4), BoundedSeq({"a", "$"}, 3)) \cup
    Job("grep", {<<"a">>, <<"^", "b", "*", "$">>}, BoundedSeq({"a", "b", "\n"}, 5)) \cup
    Job("wc", {<<>>}, BoundedSeq({"a", " ", "\n"}, 5))

NoJob == [prog |-> "match", re |-> <<>>, text |-> <<>>]

MCInit ==
    /\ unit \in {"console", "shell", "strings", "filters"}
    /\ Init /\ ShellInit /\ StringsInit
    /\ FiltersInit /\ (unit # "filters" => job = NoJob)

MCNext ==
    /\ UNCHANGED unit
    /\ \/ unit = "console" /\ Next /\ UNCHANGED <<shellVars, stringVars, filterVars>>
       \/ unit = "shell" /\ ShellNext /\ UNCHANGED <<vars, stringVars, filterVars>>
       \/ unit = "strings" /\ StringsNext /\ UNCHANGED <<vars, shellVars, filterVars>>
       \/ unit = "filters" /\ FiltersNext /\ UNCHANGED <<vars, shellVars, stringVars>>

MCSpec == MCInit /\ [][MCNext]_<<unit, vars, shellVars, stringVars, filterVars>>
=============================================================================
