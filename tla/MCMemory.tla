------------------------------ MODULE MCMemory ------------------------------
(* What processes have: a behaviour is one of the address spaces of two    *)
(* processes (directories of two entries, page tables of two entries,      *)
(* pages of two units of memory), of the heap of a user program, or of the *)
(* processes that scheduler() runs on one processor.                       *)
EXTENDS Vm

CONSTANTS HeapTop, NALLOC, MaxUnits, NoCpu

VARIABLES h, brk, used, owned, grew,   \* of Umalloc
          state, pid, parent, chan, killed, thread, kstackp, pgdirp, ofile, nextpid,
          numofthread, fref, ptlock, cproc, cpc, scan, pcp, ctx, np, reg, free,
          panickedp, workload,   \* of Proc; its calls is workload
          unit

Heap == INSTANCE Umalloc

PT == INSTANCE Proc WITH kstack <- kstackp, pgdir <- pgdirp, pc <- pcp,
        panicked <- panickedp, calls <- workload,
        NPROC <- 3, CPU <- {"cpu0"}, NPAGE <- 6, MaxPid <- 4, MaxThread <- 0,
        Workloads <- {{"fork", "exit", "wait", "kill"}}, KillPids <- {2, 3}

heapVars == <<h, brk, used, owned, grew>>
procVars == <<state, pid, parent, chan, killed, thread, kstackp, pgdirp, ofile, nextpid,
              numofthread, fref, ptlock, cproc, cpc, scan, pcp, ctx, np, reg, free,
              panickedp, workload>>

\* A segment at 0, one that is not aligned, one above a hole, one inside
\* what is already mapped, and one that reaches the kernel.
MCSegments == {[vaddr |-> 0, memsz |-> 0], [vaddr |-> 0, memsz |-> 3], [vaddr |-> 1, memsz |-> 1],
               [vaddr |-> 2, memsz |-> 1], [vaddr |-> 2, memsz |-> 6]}
MCIncrements == {-2, -1, 3}

MCInit == unit \in {"vm", "umalloc", "proc"} /\ Init /\ Heap!HeapInit /\ PT!Init
          /\ (unit # "vm" => phystop = Max(Memories))

MCNext ==
    /\ UNCHANGED unit
    /\ \/ unit = "vm" /\ Next /\ UNCHANGED <<heapVars, procVars>>
       \/ unit = "umalloc" /\ Heap!HeapNext /\ UNCHANGED <<vars, procVars>>
       \/ unit = "proc" /\ PT!Next /\ UNCHANGED <<vars, heapVars>>

\* Of processes on one processor: the scheduler some day gets ptable.lock, a
\* process inside the kernel some day runs its next step before the next timer
\* interrupt, the timer interrupts every process, and init.c calls wait()
\* again and again.
ProcFairness ==
    LET up == unit = "proc" /\ ~panickedp IN
    /\ SF_procVars(up /\ PT!Sched("cpu0"))
    /\ \A p \in PT!Slot :
         /\ SF_procVars(up /\ (PT!Continue("cpu0", p) \/ PT!ExitKilled("cpu0", p)))
         /\ SF_procVars(up /\ PT!Yield("cpu0", p))
    /\ SF_procVars(up /\ PT!Wait("cpu0", PT!initproc))

MCSpec == MCInit /\ [][MCNext]_<<unit, vars, heapVars, procVars>> /\ ProcFairness

\* scheduler() of proc.c starves nobody: a process that can run does.
RunnableRuns == unit = "proc" => PT!RunnableRuns

\* A killed process exits, and init reaps the orphans (kill(), exit() and
\* wait() of proc.c).
ProcessesEnd == unit = "proc" => PT!ProcessesEnd

\* What malloc() and free() of umalloc.c keep to.
HeapSound == Heap!HeapSound
=============================================================================
