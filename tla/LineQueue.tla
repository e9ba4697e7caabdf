------------------------------ MODULE LineQueue -----------------------------
(* What the console promises its readers: characters typed are edited in a *)
(* line of their own and move, line by line, to a queue that reads take    *)
(* from the front of.  Together the two hold at most Capacity characters.  *)
EXTENDS Sequences, Naturals, SequencesExt

CONSTANTS Capacity, Char, Ends   \* Ends: the characters that end a line

VARIABLES queue, editing

Init == queue = <<>> /\ editing = <<>>

Room == Len(queue) + Len(editing) < Capacity

Type(c) ==
    LET line == Append(editing, c)
        full == Len(queue) + Len(line) = Capacity
    IN /\ Room
       /\ IF c \in Ends \/ full
          THEN queue' = queue \o line /\ editing' = <<>>
          ELSE editing' = line /\ UNCHANGED queue

Erase == editing # <<>> /\ editing' = Front(editing) /\ UNCHANGED queue

EraseLine == editing' = <<>> /\ UNCHANGED queue

Take == queue # <<>> /\ queue' = Tail(queue) /\ UNCHANGED editing

Next == Erase \/ EraseLine \/ Take \/ \E c \in Char : Type(c)

Spec == Init /\ [][Next]_<<queue, editing>>
=============================================================================
