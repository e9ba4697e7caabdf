-------------------------------- MODULE MCFs --------------------------------
(* Fs with a few relative paths.                                           *)
EXTENDS Fs
Rel(e) == [abs |-> FALSE, elems |-> e]
Symmetry == Permutations(Proc)
MCPaths == {Rel(<<"b">>), Rel(<<"a">>), Rel(<<"a", "b">>)}
=============================================================================
