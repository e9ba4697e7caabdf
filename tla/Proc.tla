-------------------------------- MODULE Proc --------------------------------
(***************************************************************************)
(* The process table of proc.c: processes and threads are created by       *)
(* fork() and clone(), run on several processors under the round-robin     *)
(* scheduler(), sleep in wait(), are killed, exit and are reaped.          *)
(*                                                                         *)
(* ptable.lock is explicit where it is held across swtch(): from yield(),  *)
(* sleep() or exit() through the scheduler to the process that resumes.    *)
(* A critical section that does not switch is one action.  What the code   *)
(* writes without the lock is a step of its own.                           *)
(***************************************************************************)
EXTENDS Integers, Sequences, FiniteSets, FiniteSetsExt

CONSTANTS NPROC,     \* slots of ptable.proc
          CPU,       \* processors
          NPAGE,     \* pages of physical memory that kalloc() hands out
          Workloads, \* sets of system calls that running programs make
          KillPids,  \* arguments they pass to kill()
          MaxPid,    \* bound: allocproc() stops when nextpid is past it
          MaxThread, \* bound: clone() is not called when numofthread is here
          NoCpu

Slot == 1 .. NPROC
initproc == 1
Null == 0          \* a null struct proc pointer, and no channel
Page == 1 .. NPAGE \* a kernel stack, or a page directory and what it maps
NoPage == 0

ASSUME ProcAssumption ==
  /\ NPROC \in Nat \ {0} /\ MaxPid \in Nat /\ MaxThread \in Nat
  /\ NPAGE \in Nat /\ NPAGE >= 2
  /\ NoCpu \notin CPU
  /\ KillPids \subseteq Nat
  /\ UNION Workloads \subseteq {"fork", "clone", "exit", "wait", "kill", "close"}

VARIABLES
  state, pid, parent, chan, killed,     \* struct proc
  thread,                               \* thread_indictor
  kstack, pgdir,
  ofile,                                \* does the slot hold an open file?
  nextpid, numofthread,
  fref,                                 \* f->ref of that file
  ptlock,                               \* processor holding ptable.lock
  cproc, cpc, scan,                     \* c->proc; scheduler() and its loop
  pc, ctx, np, reg,                     \* kernel code of each process
  free,                                 \* kmem.freelist, its head first
  panicked,
  calls                                 \* the workload of this behaviour

table == <<state, pid, parent, chan, killed, thread, kstack, pgdir, ofile>>
cpus  == <<cproc, cpc, scan>>
local == <<pc, ctx, np, reg>>
glob  == <<nextpid, numofthread, fref, free, panicked, calls>>
vars  == <<table, cpus, local, glob, ptlock>>

States == {"UNUSED", "EMBRYO", "SLEEPING", "RUNNABLE", "RUNNING", "ZOMBIE"}
PCs == {"none", "user", "fork_kstack", "fork_copyuvm", "fork_run",
        "clone_add", "clone_alloc", "clone_kstack", "clone_run",
        "exit_lock", "wait_scan", "wait_dec"}

TypeOK ==
  /\ state \in [Slot -> States]
  /\ pid \in [Slot -> Nat]
  /\ parent \in [Slot -> Slot \cup {Null}]
  /\ chan \in [Slot -> Slot \cup {Null}]
  /\ killed \in [Slot -> BOOLEAN]
  /\ thread \in [Slot -> BOOLEAN]
  /\ kstack \in [Slot -> Page \cup {NoPage}]
  /\ pgdir \in [Slot -> Page \cup {NoPage}]
  /\ ofile \in [Slot -> BOOLEAN]
  /\ nextpid \in Nat
  /\ numofthread \in Int
  /\ fref \in Int
  /\ ptlock \in CPU \cup {NoCpu}
  /\ cproc \in [CPU -> Slot \cup {Null}]
  /\ cpc \in [CPU -> {"loop", "scan", "run", "sched"}]
  /\ scan \in [CPU -> 1 .. NPROC + 1]
  /\ pc \in [Slot -> PCs]
  /\ ctx \in [Slot -> {"none", "release", "sleep"}]
  /\ np \in [Slot -> Slot \cup {Null}]
  /\ reg \in [Slot -> Int]
  /\ free \in Seq(Page)
  /\ panicked \in BOOLEAN /\ calls \in Workloads

(* kinit2() has freed the pages from the lowest to the highest, userinit() *)
(* has taken two for initproc and made it runnable; its ofile is the       *)
(* console that init.c opens before anything else.                         *)
Init ==
  /\ state = [s \in Slot |-> IF s = initproc THEN "RUNNABLE" ELSE "UNUSED"]
  /\ pid = [s \in Slot |-> IF s = initproc THEN 1 ELSE 0]
  /\ parent = [s \in Slot |-> Null]
  /\ chan = [s \in Slot |-> Null]
  /\ killed = [s \in Slot |-> FALSE]
  /\ thread = [s \in Slot |-> FALSE]
  /\ kstack = [s \in Slot |-> IF s = initproc THEN NPAGE ELSE NoPage]
  /\ pgdir = [s \in Slot |-> IF s = initproc THEN NPAGE - 1 ELSE NoPage]
  /\ free = [i \in 1 .. NPAGE - 2 |-> NPAGE - 1 - i]
  /\ ofile = [s \in Slot |-> s = initproc]
  /\ nextpid = 2 /\ numofthread = 0 /\ fref = 1
  /\ ptlock = NoCpu
  /\ cproc = [c \in CPU |-> Null]
  /\ cpc = [c \in CPU |-> "loop"]
  /\ scan = [c \in CPU |-> 1]
  /\ pc = [s \in Slot |-> IF s = initproc THEN "user" ELSE "none"]
  /\ ctx = [s \in Slot |-> IF s = initproc THEN "release" ELSE "none"]
  /\ np = [s \in Slot |-> Null]
  /\ reg = [s \in Slot |-> 0]
  /\ panicked = FALSE /\ calls \in Workloads

-----------------------------------------------------------------------------
(* scheduler(), sched() and swtch().  cpc[c] is "loop" outside the lock,   *)
(* "scan" in the for loop, "run" in the process, and "sched" when the      *)
(* process is in sched(), still on its own kernel stack.                   *)

Runnable(c) == {s \in Slot : s >= scan[c] /\ state[s] = "RUNNABLE"}

SchedAcquire(c) ==
  /\ cpc[c] = "loop"
  /\ ptlock = NoCpu /\ ptlock' = c
  /\ cpc' = [cpc EXCEPT ![c] = "scan"]
  /\ scan' = [scan EXCEPT ![c] = 1]
  /\ UNCHANGED <<table, cproc, local, glob>>

SchedRun(c) ==
  /\ cpc[c] = "scan" /\ Runnable(c) # {}
  /\ LET s == Min(Runnable(c)) IN
     /\ cproc' = [cproc EXCEPT ![c] = s]
     /\ state' = [state EXCEPT ![s] = "RUNNING"]
     /\ scan' = [scan EXCEPT ![c] = s]
  /\ cpc' = [cpc EXCEPT ![c] = "run"]
  /\ UNCHANGED <<pid, parent, chan, killed, thread, kstack, pgdir, ofile,
                 local, glob, ptlock>>

SchedRelease(c) ==
  /\ cpc[c] = "scan" /\ Runnable(c) = {}
  /\ ptlock' = NoCpu
  /\ cpc' = [cpc EXCEPT ![c] = "loop"]
  /\ scan' = [scan EXCEPT ![c] = 1]
  /\ UNCHANGED <<table, cproc, local, glob>>

(* swtch() from sched() back to the scheduler, whose loop goes on with the *)
(* next slot.                                                              *)
RestartScan(i) == 1
NextScan(i) == i + 1

Swtch(c) ==
  /\ cpc[c] = "sched"
  /\ cproc' = [cproc EXCEPT ![c] = Null]
  /\ scan' = [scan EXCEPT ![c] = NextScan(@)]
  /\ cpc' = [cpc EXCEPT ![c] = "scan"]
  /\ UNCHANGED <<table, local, glob, ptlock>>

(* A process that has been switched to: forkret() and yield() release the  *)
(* lock; sleep() clears chan and returns to wait() with the lock held.     *)
Resume(c) ==
  /\ cpc[c] = "run"
  /\ LET p == cproc[c] IN
     /\ ctx[p] # "none"
     /\ ptlock' = IF ctx[p] = "release" THEN NoCpu ELSE ptlock
     /\ chan' = IF ctx[p] = "sleep" THEN [chan EXCEPT ![p] = Null] ELSE chan
     /\ ctx' = [ctx EXCEPT ![p] = "none"]
  /\ UNCHANGED <<state, pid, parent, killed, thread, kstack, pgdir, ofile,
                 cpus, pc, np, reg, glob>>

(* Processor c executes the code of process p.                             *)
Running(c, p) == cpc[c] = "run" /\ cproc[c] = p /\ ctx[p] = "none"

(* yield(), from the timer interrupt in trap(): anywhere in user or kernel *)
(* code with interrupts on, except inside one machine instruction.         *)
Yield(c, p) ==
  /\ Running(c, p) /\ pc[p] # "clone_add"
  /\ ptlock = NoCpu /\ ptlock' = c
  /\ state' = [state EXCEPT ![p] = "RUNNABLE"]
  /\ ctx' = [ctx EXCEPT ![p] = "release"]
  /\ cpc' = [cpc EXCEPT ![c] = "sched"]
  /\ UNCHANGED <<pid, parent, chan, killed, thread, kstack, pgdir, ofile,
                 cproc, scan, pc, np, reg, glob>>

-----------------------------------------------------------------------------
(* System calls start in user code; trap() makes a killed process exit     *)
(* before it starts one.                                                   *)
Syscall(c, p, call) == Running(c, p) /\ pc[p] = "user" /\ ~killed[p] /\ call \in calls

(* The first half of allocproc(), under the lock: claim the first UNUSED   *)
(* slot, or fail.                                                          *)
Unused == {s \in Slot : state[s] = "UNUSED"}

allocproc(p, next) ==
  /\ ptlock = NoCpu
  /\ IF Unused = {}
       THEN /\ pc' = [pc EXCEPT ![p] = "user"]
            /\ UNCHANGED <<state, pid, nextpid, np>>
       ELSE /\ nextpid <= MaxPid
            /\ state' = [state EXCEPT ![Min(Unused)] = "EMBRYO"]
            /\ pid' = [pid EXCEPT ![Min(Unused)] = nextpid]
            /\ nextpid' = nextpid + 1
            /\ np' = [np EXCEPT ![p] = Min(Unused)]
            /\ pc' = [pc EXCEPT ![p] = next]
  /\ UNCHANGED <<parent, chan, killed, thread, kstack, pgdir, ofile, cpus, ctx,
                 reg, numofthread, fref, free, panicked, ptlock, calls>>

(* The second half, without the lock: kalloc() a kernel stack whose saved  *)
(* context starts at forkret().                                            *)
Kstack(c, p) ==
  /\ Running(c, p) /\ pc[p] \in {"fork_kstack", "clone_kstack"}
  /\ free # <<>> /\ free' = Tail(free)
  /\ kstack' = [kstack EXCEPT ![np[p]] = Head(free)]
  /\ thread' = [thread EXCEPT ![np[p]] = FALSE]
  /\ ctx' = [ctx EXCEPT ![np[p]] = "release"]
  /\ pc' = [pc EXCEPT ![np[p]] = "user",
                      ![p] = IF @ = "fork_kstack" THEN "fork_copyuvm" ELSE "clone_run"]
  /\ UNCHANGED <<state, pid, parent, chan, killed, pgdir, ofile, cpus, np, reg,
                 nextpid, numofthread, fref, panicked, ptlock, calls>>

(* No memory: the slot is given back, with its new pid still in it.        *)
KstackFails(c, p) ==
  /\ Running(c, p) /\ pc[p] \in {"fork_kstack", "clone_kstack"}
  /\ free = <<>>
  /\ kstack' = [kstack EXCEPT ![np[p]] = NoPage]
  /\ state' = [state EXCEPT ![np[p]] = "UNUSED"]
  /\ np' = [np EXCEPT ![p] = Null]
  /\ pc' = [pc EXCEPT ![p] = "user"]
  /\ UNCHANGED <<pid, parent, chan, killed, thread, pgdir, ofile, cpus, ctx,
                 reg, glob, ptlock>>

-----------------------------------------------------------------------------
(* fork()                                                                  *)

Fork(c, p) == Syscall(c, p, "fork") /\ allocproc(p, "fork_kstack")

(* filedup() of the file that p has open.                                  *)
filedup(p) == IF ofile[p] THEN fref + 1 ELSE fref

(* copyuvm() and the fields of the child.                                  *)
ForkCopy(c, p) ==
  /\ Running(c, p) /\ pc[p] = "fork_copyuvm"
  /\ free # <<>> /\ free' = Tail(free)
  /\ pgdir' = [pgdir EXCEPT ![np[p]] = Head(free)]
  /\ parent' = [parent EXCEPT ![np[p]] = p]
  /\ ofile' = [ofile EXCEPT ![np[p]] = @ \/ ofile[p]]
  /\ fref' = filedup(p)
  /\ pc' = [pc EXCEPT ![p] = "fork_run"]
  /\ UNCHANGED <<state, pid, chan, killed, thread, kstack, cpus, ctx, np, reg,
                 nextpid, numofthread, panicked, ptlock, calls>>

(* What is free once a fork without memory has undone its allocproc().     *)
LeakKstack(p) == free
UndoKstack(p) == <<kstack[np[p]]>> \o free

ForkCopyFails(c, p) ==
  /\ Running(c, p) /\ pc[p] = "fork_copyuvm"
  /\ free = <<>>
  /\ free' = UndoKstack(p)
  /\ pgdir' = [pgdir EXCEPT ![np[p]] = NoPage]
  /\ kstack' = [kstack EXCEPT ![np[p]] = NoPage]
  /\ state' = [state EXCEPT ![np[p]] = "UNUSED"]
  /\ pc' = [pc EXCEPT ![np[p]] = "none", ![p] = "user"]
  /\ ctx' = [ctx EXCEPT ![np[p]] = "none"]
  /\ np' = [np EXCEPT ![p] = Null]
  /\ UNCHANGED <<pid, parent, chan, killed, thread, ofile, cpus, reg,
                 nextpid, numofthread, fref, panicked, ptlock, calls>>

(* The child becomes RUNNABLE, under the lock.                             *)
ForkRun(c, p) ==
  /\ Running(c, p) /\ pc[p] = "fork_run"
  /\ ptlock = NoCpu
  /\ state' = [state EXCEPT ![np[p]] = "RUNNABLE"]
  /\ np' = [np EXCEPT ![p] = Null]
  /\ pc' = [pc EXCEPT ![p] = "user"]
  /\ UNCHANGED <<pid, parent, chan, killed, thread, kstack, pgdir, ofile, cpus,
                 ctx, reg, glob, ptlock>>

-----------------------------------------------------------------------------
(* clone().  numofthread++ is one instruction that reads and writes memory *)
(* without the lock, so another processor's update can fall in between.    *)

CloneRead(c, p) ==
  /\ Syscall(c, p, "clone") /\ numofthread < MaxThread
  /\ reg' = [reg EXCEPT ![p] = numofthread]
  /\ pc' = [pc EXCEPT ![p] = "clone_add"]
  /\ UNCHANGED <<table, cpus, ctx, np, glob, ptlock>>

CloneAdd(c, p) ==
  /\ Running(c, p) /\ pc[p] = "clone_add"
  /\ numofthread' = reg[p] + 1
  /\ reg' = [reg EXCEPT ![p] = 0]
  /\ pc' = [pc EXCEPT ![p] = "clone_alloc"]
  /\ UNCHANGED <<table, cpus, ctx, np, nextpid, fref, free, panicked, ptlock, calls>>

CloneAlloc(c, p) ==
  Running(c, p) /\ pc[p] = "clone_alloc" /\ allocproc(p, "clone_kstack")

(* The new thread is the child of the caller.                              *)
CloneParent(p) == p

(* The thread shares pgdir and, without filedup(), the open file; it is    *)
(* made RUNNABLE without the lock.                                         *)
CloneRun(c, p) ==
  /\ Running(c, p) /\ pc[p] = "clone_run"
  /\ pgdir' = [pgdir EXCEPT ![np[p]] = pgdir[p]]
  /\ parent' = [parent EXCEPT ![np[p]] = CloneParent(p)]
  /\ thread' = [thread EXCEPT ![np[p]] = TRUE]
  /\ ofile' = [ofile EXCEPT ![np[p]] = @ \/ ofile[p]]
  /\ state' = [state EXCEPT ![np[p]] = "RUNNABLE"]
  /\ np' = [np EXCEPT ![p] = Null]
  /\ pc' = [pc EXCEPT ![p] = "user"]
  /\ UNCHANGED <<pid, chan, killed, kstack, cpus, ctx, reg, glob, ptlock>>

-----------------------------------------------------------------------------
(* fileclose() of the file in p's slot, with its panic on a dead file.     *)
fileclose(p) ==
  /\ ofile' = [ofile EXCEPT ![p] = FALSE]
  /\ fref' = IF ofile[p] /\ fref >= 1 THEN fref - 1 ELSE fref
  /\ panicked' = (ofile[p] /\ fref < 1)

Close(c, p) ==
  /\ Syscall(c, p, "close") /\ ofile[p]
  /\ fileclose(p)
  /\ UNCHANGED <<state, pid, parent, chan, killed, thread, kstack, pgdir, cpus,
                 local, nextpid, numofthread, free, ptlock, calls>>

-----------------------------------------------------------------------------
(* exit(), called by the program or by trap() for a killed process.  The   *)
(* file is closed only when numofthread is 0.                              *)
ExitFiles(c, p) ==
  /\ Running(c, p) /\ pc[p] = "user"
  /\ killed[p] \/ ("exit" \in calls /\ p # initproc)
  /\ IF p # initproc /\ numofthread = 0
       THEN fileclose(p)
       ELSE panicked' = (p = initproc) /\ UNCHANGED <<ofile, fref>>
  /\ pc' = [pc EXCEPT ![p] = "exit_lock"]
  /\ UNCHANGED <<state, pid, parent, chan, killed, thread, kstack, pgdir, cpus,
                 ctx, np, reg, nextpid, numofthread, free, ptlock, calls>>

(* wakeup1(chan) for each channel of a set.                                *)
wakeup1(chans) ==
  [s \in Slot |-> IF state[s] = "SLEEPING" /\ chan[s] \in chans
                    THEN "RUNNABLE" ELSE state[s]]

(* exit() wakes its parent, and init if init inherits a ZOMBIE.            *)
ExitWakes(p) ==
  {parent[p]} \cup {initproc : q \in {k \in Slot : parent[k] = p /\ state[k] = "ZOMBIE"}}

(* It hands its children over to init.                                     *)
KeepParents(p) == parent
Reparent(p) == [q \in Slot |-> IF parent[q] = p THEN initproc ELSE parent[q]]

(* It becomes a ZOMBIE and switches away for good, with the lock held.     *)
ExitZombieUnlocked(c, p) ==
  /\ Running(c, p) /\ pc[p] = "exit_lock"
  /\ ptlock = NoCpu
  /\ state' = [wakeup1(ExitWakes(p)) EXCEPT ![p] = "ZOMBIE"]
  /\ parent' = Reparent(p)
  /\ cpc' = [cpc EXCEPT ![c] = "sched"]
  /\ pc' = [pc EXCEPT ![p] = "none"]
  /\ UNCHANGED <<pid, chan, killed, thread, kstack, pgdir, ofile, cproc, scan,
                 ctx, np, reg, glob, ptlock>>

ExitZombie(c, p) ==
  /\ Running(c, p) /\ pc[p] = "exit_lock"
  /\ ptlock = NoCpu /\ ptlock' = c
  /\ state' = [wakeup1(ExitWakes(p)) EXCEPT ![p] = "ZOMBIE"]
  /\ parent' = Reparent(p)
  /\ cpc' = [cpc EXCEPT ![c] = "sched"]
  /\ pc' = [pc EXCEPT ![p] = "none"]
  /\ UNCHANGED <<pid, chan, killed, thread, kstack, pgdir, ofile, cproc, scan,
                 ctx, np, reg, glob>>

-----------------------------------------------------------------------------
(* wait()                                                                  *)

Wait(c, p) ==
  /\ Syscall(c, p, "wait")
  /\ ptlock = NoCpu /\ ptlock' = c
  /\ pc' = [pc EXCEPT ![p] = "wait_scan"]
  /\ UNCHANGED <<table, cpus, ctx, np, reg, glob>>

(* The loop's scan counts every slot whose parent is the caller, used or   *)
(* not, and takes the first ZOMBIE among them.                             *)
havekids(p) == \E q \in Slot : parent[q] = p
Zombies(p) == {q \in Slot : parent[q] = p /\ state[q] = "ZOMBIE"}
Scanning(c, p) == Running(c, p) /\ pc[p] = "wait_scan"

(* A process gives back its kernel stack and its address space.            *)
Reaped(q) == <<pgdir[q], kstack[q]>>

(* It is nobody's child any more.                                          *)
NoParent(q) == [parent EXCEPT ![q] = Null]

WaitReap(c, p) ==
  /\ Scanning(c, p) /\ Zombies(p) # {}
  /\ LET q == Min(Zombies(p)) IN
     /\ ~thread[q]
     /\ free' = Reaped(q) \o free
     /\ kstack' = [kstack EXCEPT ![q] = NoPage]
     /\ pid' = [pid EXCEPT ![q] = 0]
     /\ parent' = NoParent(q)
     /\ killed' = [killed EXCEPT ![q] = FALSE]
     /\ state' = [state EXCEPT ![q] = "UNUSED"]
  /\ ptlock' = NoCpu
  /\ pc' = [pc EXCEPT ![p] = "user"]
  /\ UNCHANGED <<chan, thread, pgdir, ofile, cpus, ctx, np, reg, nextpid,
                 numofthread, fref, panicked, calls>>

(* A ZOMBIE thread: numofthread-- (a load, a subtraction and a store) and  *)
(* the slot is UNUSED; nothing else in it is cleared or freed.             *)
WaitThread(c, p) ==
  /\ Scanning(c, p) /\ Zombies(p) # {}
  /\ thread[Min(Zombies(p))]
  /\ np' = [np EXCEPT ![p] = Min(Zombies(p))]
  /\ reg' = [reg EXCEPT ![p] = numofthread]
  /\ pc' = [pc EXCEPT ![p] = "wait_dec"]
  /\ UNCHANGED <<table, cpus, ctx, glob, ptlock>>

WaitDec(c, p) ==
  /\ Running(c, p) /\ pc[p] = "wait_dec"
  /\ numofthread' = reg[p] - 1
  /\ state' = [state EXCEPT ![np[p]] = "UNUSED"]
  /\ np' = [np EXCEPT ![p] = Null]
  /\ reg' = [reg EXCEPT ![p] = 0]
  /\ ptlock' = NoCpu
  /\ pc' = [pc EXCEPT ![p] = "user"]
  /\ UNCHANGED <<pid, parent, chan, killed, thread, kstack, pgdir, ofile, cpus,
                 ctx, nextpid, fref, free, panicked, calls>>

WaitFails(c, p) ==
  /\ Scanning(c, p) /\ Zombies(p) = {}
  /\ ~havekids(p) \/ killed[p]
  /\ ptlock' = NoCpu
  /\ pc' = [pc EXCEPT ![p] = "user"]
  /\ UNCHANGED <<table, cpus, ctx, np, reg, glob>>

(* sleep(curproc, &ptable.lock)                                            *)
WaitSleep(c, p) ==
  /\ Scanning(c, p) /\ Zombies(p) = {}
  /\ havekids(p) /\ ~killed[p]
  /\ chan' = [chan EXCEPT ![p] = p]
  /\ state' = [state EXCEPT ![p] = "SLEEPING"]
  /\ ctx' = [ctx EXCEPT ![p] = "sleep"]
  /\ cpc' = [cpc EXCEPT ![c] = "sched"]
  /\ UNCHANGED <<pid, parent, killed, thread, kstack, pgdir, ofile, cproc, scan,
                 pc, np, reg, glob, ptlock>>

-----------------------------------------------------------------------------
(* kill(): the first slot with that pid, whatever its state; a sleeper is  *)
(* made RUNNABLE.                                                          *)
KillAlwaysWakes(st) == "RUNNABLE"
KillNeverWakes(st) == st
KillWakes(st) == IF st = "SLEEPING" THEN "RUNNABLE" ELSE st

Victims(k) == {s \in Slot : pid[s] = k}

Kill(c, p, k) ==
  /\ Syscall(c, p, "kill")
  /\ ptlock = NoCpu
  /\ Victims(k) # {}
  /\ LET v == Min(Victims(k)) IN
     /\ killed' = [killed EXCEPT ![v] = TRUE]
     /\ state' = [state EXCEPT ![v] = KillWakes(@)]
  /\ UNCHANGED <<pid, parent, chan, thread, kstack, pgdir, ofile, cpus, local,
                 glob, ptlock>>

-----------------------------------------------------------------------------
Sched(c) == \/ SchedAcquire(c) \/ SchedRun(c) \/ SchedRelease(c)
            \/ Swtch(c) \/ Resume(c)

(* The calls that programs choose to make.                                 *)
Enter(c, p) == \/ Fork(c, p) \/ CloneRead(c, p) \/ Wait(c, p) \/ Close(c, p)
               \/ \E k \in KillPids : Kill(c, p, k)

(* The kernel code that follows.                                           *)
Continue(c, p) ==
  \/ Kstack(c, p) \/ KstackFails(c, p)
  \/ ForkCopy(c, p) \/ ForkCopyFails(c, p) \/ ForkRun(c, p)
  \/ CloneAdd(c, p) \/ CloneAlloc(c, p) \/ CloneRun(c, p)
  \/ ExitZombie(c, p)
  \/ WaitReap(c, p) \/ WaitThread(c, p) \/ WaitDec(c, p)
  \/ WaitFails(c, p) \/ WaitSleep(c, p)

(* panic() stops every processor for good.                                 *)
Halted == panicked /\ UNCHANGED vars

Next ==
  \/ Halted
  \/ /\ ~panicked
     /\ \E c \in CPU :
          \/ Sched(c)
          \/ \E p \in Slot : \/ Yield(c, p) \/ Enter(c, p)
                             \/ ExitFiles(c, p) \/ Continue(c, p)

Spec == Init /\ [][Next]_vars

-----------------------------------------------------------------------------
(* Properties of every workload.                                           *)

Live == {"SLEEPING", "RUNNABLE", "RUNNING"}

(* A process runs on one processor at a time: c->proc and p->state agree,  *)
(* whatever yield(), sleep(), wakeup1(), kill() and the schedulers of the  *)
(* other processors do.                                                    *)
RunningOnce ==
  /\ \A c, d \in CPU : c # d /\ cproc[c] # Null => cproc[c] # cproc[d]
  /\ \A s \in Slot : state[s] = "RUNNING" <=> \E c \in CPU : cpc[c] = "run" /\ cproc[c] = s

(* No processor executes on a kernel stack that is free or that another    *)
(* slot uses: wait() cannot reap a process before it has left sched().     *)
KernelStacks ==
  \A c \in CPU : cpc[c] \in {"run", "sched"} =>
    LET k == kstack[cproc[c]] IN
    /\ k # NoPage /\ k \notin Range(free)
    /\ \A s \in Slot \ {cproc[c]} : kstack[s] # k

(* Every process but init has a parent that can still call wait(): exit()  *)
(* leaves no child behind.                                                 *)
ParentAlive ==
  \A s \in Slot \ {initproc} : state[s] \in Live \cup {"ZOMBIE"} =>
    parent[s] \in Slot /\ state[parent[s]] \in Live

(* A process asleep in wait() has neither an exited child nor a pending    *)
(* kill: the wakeups of exit(), of reparenting and of kill() are not lost. *)
WaiterWoken ==
  \A s \in Slot : state[s] = "SLEEPING" => Zombies(s) = {} /\ ~killed[s]

(* Properties of workloads without clone(), whose threads share pages and  *)
(* files that nobody counts.                                               *)

(* The pages of slot s that wait() has to free.                            *)
Owned(s) ==
  (IF state[s] = "UNUSED" THEN {} ELSE {kstack[s]} \ {NoPage}) \cup
  (IF \/ state[s] \in Live \cup {"ZOMBIE"}
      \/ \E p \in Slot : np[p] = s /\ pc[p] = "fork_run"
     THEN {pgdir[s]} ELSE {})

(* Without clone(), no page is lost and none is owned twice, failed forks  *)
(* included, and fileclose() does not panic.                               *)
PagesAccounted ==
  "clone" \notin calls =>
  /\ ~panicked /\ Range(free) = Page \ UNION {Owned(s) : s \in Slot}
  /\ IsInjective(free)
  /\ \A s, t \in Slot : s # t => Owned(s) \cap Owned(t) = {}

(* "No point waiting if we don't have any children" (proc.c:417): without  *)
(* clone(), wait() sleeps only if the caller has a child that is still in  *)
(* the table, and so in the end something to be woken by.                  *)
SleepsForChildren ==
  "clone" \notin calls =>
  \A s \in Slot : state[s] = "SLEEPING" =>
    \E q \in Slot : parent[q] = s /\ state[q] # "UNUSED"

(* Without clone(), the reference count of a file is the number of slots   *)
(* that hold it, so fileclose() never finds a dead file and an exit leaks  *)
(* none.                                                                   *)
FileRefs == "clone" \notin calls => fref = Cardinality({s \in Slot : ofile[s]})

-----------------------------------------------------------------------------
(* A killed process that traps exits.                                      *)
ExitKilled(c, p) == killed[p] /\ ExitFiles(c, p)

(* The round-robin scheduler starves nobody: a process that can run does.  *)
RunnableRuns ==
  \A s \in Slot : state[s] = "RUNNABLE" ~> state[s] = "RUNNING"

(* "Process won't exit until it returns to user space": but it does exit,  *)
(* even if kill() found it asleep in wait() or half-way through fork().    *)
KilledExits ==
  \A s \in Slot : killed[s] /\ state[s] \in Live ~> state[s] \in {"ZOMBIE", "UNUSED"}

(* A process that exits and whose parent is init, or is gone, is reaped.   *)
OrphansReaped ==
  \A s \in Slot :
    state[s] = "ZOMBIE" /\ (parent[s] = initproc \/ state[parent[s]] \notin Live)
      ~> state[s] # "ZOMBIE"

\* A killed process exits, and init reaps the orphans (kill(), exit(), wait()).
ProcessesEnd ==
    KilledExits /\ OrphansReaped

\* What a process has is counted: its pages, its open file and its children
\* (fork(), exit() and wait() of proc.c).
ProcAccounted ==
    TypeOK /\ PagesAccounted /\ FileRefs /\ SleepsForChildren

=============================================================================
