------------------------------- MODULE MCLog -------------------------------
(* The log, and the files whose writes go through it: two machines, of     *)
(* which "unit" says the one that runs.                                    *)
EXTENDS Log, FileData

VARIABLE unit

MCImages == {[root |-> 1, file |-> 0], [root |-> 2, file |-> 3]}

Symmetry == Permutations(Proc) \cup Permutations(Block) \cup Permutations(Val)

MCInit ==
    /\ unit \in {"log", "data"} /\ Init /\ DataInit
    /\ unit = "log" => made.root = 1 /\ desc = [p \in Writers |-> Shared]
    /\ unit = "data" => disk = [b \in Block |-> CHOOSE v \in Val : TRUE]
                       /\ dlog = [i \in DOMAIN dlog |-> CHOOSE v \in Val : TRUE]

LogNext  == unit = "log"  /\ Next /\ UNCHANGED <<unit, dataVars>>
FileNext == unit = "data" /\ DataNext /\ UNCHANGED <<unit, vars>>

MCSpec == MCInit /\ [][LogNext \/ FileNext]_<<unit, vars, dataVars>>
=============================================================================
