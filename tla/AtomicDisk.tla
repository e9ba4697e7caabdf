----------------------------- MODULE AtomicDisk -----------------------------
(***************************************************************************)
(* What log.c promises to the file system: the disk is a single array of   *)
(* blocks that changes only by whole transactions.  The writes of file     *)
(* system calls accumulate in memory; they become stable all together, at  *)
(* a moment when no call is in progress; a crash discards every write that *)
(* is not stable and nothing else.                                         *)
(***************************************************************************)
CONSTANTS Proc, Block, Val

VARIABLES stable,   \* what the file system holds after a crash and recovery
          mem,      \* what a running system call reads
          active    \* processes between begin_op() and end_op()

vars == <<stable, mem, active>>

TypeOK == /\ stable \in [Block -> Val]
          /\ mem \in [Block -> Val]
          /\ active \subseteq Proc

Init == /\ stable \in [Block -> Val]
        /\ mem = stable
        /\ active = {}

Begin(p) == /\ p \notin active
            /\ active' = active \cup {p}
            /\ UNCHANGED <<stable, mem>>

Write(p, b, v) == /\ p \in active
                  /\ mem' = [mem EXCEPT ![b] = v]
                  /\ UNCHANGED <<stable, active>>

End(p) == /\ p \in active
          /\ active' = active \ {p}
          /\ UNCHANGED <<stable, mem>>

Commit == /\ active = {}
          /\ stable' = mem
          /\ UNCHANGED <<mem, active>>

Crash == /\ mem' = stable
         /\ active' = {}
         /\ UNCHANGED stable

Next == \/ \E p \in Proc : \/ Begin(p)
                           \/ End(p)
                           \/ \E b \in Block, v \in Val : Write(p, b, v)
        \/ Commit
        \/ Crash

Spec == Init /\ [][Next]_vars
=============================================================================
