----------------------------- MODULE ProcProofs -----------------------------
(***************************************************************************)
(* The safety of the process table for any number of slots, processors and *)
(* pages and for any mix of fork(), clone(), exit(), wait(), kill() and    *)
(* close(): the inductive invariant, and that every step keeps the types,  *)
(* the owner of ptable.lock and what the processors run.                   *)
(***************************************************************************)
EXTENDS Proc, TLAPS

(* ptable.lock is held by the processor whose scheduler() is in its loop,  *)
(* whose process is in sched() or has just been switched to, or whose      *)
(* process is in the loop of wait().                                       *)
Holds(c) ==
  \/ cpc[c] \in {"scan", "sched"}
  \/ cpc[c] = "run" /\ (ctx[cproc[c]] # "none" \/ pc[cproc[c]] \in {"wait_scan", "wait_dec"})

Lock == \A c \in CPU : ptlock = c <=> Holds(c)

(* c->proc, the position of scheduler() and p->state agree.                *)
Cpus ==
  /\ \A c \in CPU :
       /\ cpc[c] \in {"loop", "scan"} => cproc[c] = Null
       /\ cpc[c] \in {"run", "sched"} => cproc[c] \in Slot /\ scan[c] = cproc[c]
       /\ cpc[c] = "run" => state[cproc[c]] = "RUNNING"
       /\ cpc[c] = "sched" => state[cproc[c]] \in {"RUNNABLE", "SLEEPING", "ZOMBIE"}
  /\ \A c, d \in CPU : c # d /\ cproc[c] # Null => cproc[c] # cproc[d]
  /\ \A s \in Slot : state[s] = "RUNNING" => \E c \in CPU : cpc[c] = "run" /\ cproc[c] = s

(* What the saved context of a process that does not run is.               *)
Contexts ==
  \A s \in Slot :
    /\ state[s] = "RUNNABLE" => ctx[s] # "none"
    /\ state[s] = "SLEEPING" => ctx[s] = "sleep" /\ chan[s] = s
    /\ ctx[s] = "sleep" => pc[s] = "wait_scan"
    /\ ctx[s] = "release" => pc[s] \notin {"wait_scan", "wait_dec"}
    /\ state[s] \in {"UNUSED", "ZOMBIE"} => pc[s] = "none"
    /\ pc[s] \notin {"none", "user"} => state[s] \in Live

Creating == {"fork_kstack", "clone_kstack", "fork_copyuvm", "fork_run", "clone_run"}

(* The slot that a fork() or clone() in progress is filling belongs to it. *)
Newborns ==
  \A p \in Slot :
    /\ pc[p] \in Creating =>
         /\ np[p] \in Slot /\ state[np[p]] = "EMBRYO"
         /\ \A q \in Slot \ {p} : pc[q] \in Creating => np[q] # np[p]
    /\ pc[p] \in {"fork_kstack", "clone_kstack"} => pc[np[p]] = "none"
    /\ pc[p] \in {"fork_copyuvm", "fork_run", "clone_run"} =>
         pc[np[p]] = "user" /\ ctx[np[p]] = "release" /\ kstack[np[p]] # NoPage
    /\ pc[p] = "fork_run" => parent[np[p]] = p
    /\ pc[p] = "wait_dec" => np[p] \in Slot /\ state[np[p]] = "ZOMBIE"

(* init is there for good, and nobody is their own parent.                 *)
Family ==
  /\ ParentAlive
  /\ state[initproc] \in Live /\ parent[initproc] = Null
  /\ pc[initproc] = "exit_lock" => panicked
  /\ \A s \in Slot : parent[s] # s

(* Slot s is one whose page directory wait() will free.                    *)
Owner(s) ==
  /\ ~thread[s]
  /\ \/ state[s] \in Live \cup {"ZOMBIE"}
     \/ \E p \in Slot : pc[p] = "fork_run" /\ np[p] = s

(* A page that is a kernel stack or an owned page directory is not free    *)
(* and is nothing else.                                                    *)
Pages ==
  /\ IsInjective(free)
  /\ \A s \in Slot :
       /\ state[s] \in Live \cup {"ZOMBIE"} => kstack[s] # NoPage
       /\ kstack[s] # NoPage =>
            /\ kstack[s] \notin Range(free)
            /\ \A t \in Slot \ {s} : kstack[t] # kstack[s]
       /\ Owner(s) =>
            /\ pgdir[s] \in Page \ Range(free)
            /\ \A t \in Slot : kstack[t] # pgdir[s]
            /\ \A t \in Slot \ {s} : Owner(t) => pgdir[t] # pgdir[s]

IInv == /\ TypeOK /\ Lock /\ Cpus /\ Contexts /\ Newborns /\ Family
        /\ WaiterWoken /\ Pages

(* The steps that pick a slot, with any slot that the scan may find.       *)
Runs(c, s) ==
  /\ cpc[c] = "scan" /\ state[s] = "RUNNABLE"
  /\ cproc' = [cproc EXCEPT ![c] = s]
  /\ state' = [state EXCEPT ![s] = "RUNNING"]
  /\ scan' = [scan EXCEPT ![c] = s]
  /\ cpc' = [cpc EXCEPT ![c] = "run"]
  /\ UNCHANGED <<pid, parent, chan, killed, thread, kstack, pgdir, ofile,
                 local, glob, ptlock>>

Claims(c, p, s, k) ==
  /\ Running(c, p) /\ pc[p] \in {"user", "clone_alloc"} /\ ptlock = NoCpu
  /\ state[s] = "UNUSED"
  /\ state' = [state EXCEPT ![s] = "EMBRYO"]
  /\ pid' = [pid EXCEPT ![s] = nextpid]
  /\ nextpid' = nextpid + 1
  /\ np' = [np EXCEPT ![p] = s]
  /\ pc' = [pc EXCEPT ![p] = k]
  /\ UNCHANGED <<parent, chan, killed, thread, kstack, pgdir, ofile, cpus, ctx,
                 reg, numofthread, fref, free, panicked, ptlock, calls>>

FindsNone(c, p) ==
  /\ Running(c, p) /\ pc[p] \in {"user", "clone_alloc"} /\ ptlock = NoCpu
  /\ pc' = [pc EXCEPT ![p] = "user"]
  /\ UNCHANGED <<table, cpus, ctx, np, reg, glob, ptlock>>

Reaps(c, p, q) ==
  /\ Scanning(c, p) /\ parent[q] = p /\ state[q] = "ZOMBIE" /\ ~thread[q]
  /\ free' = Reaped(q) \o free
  /\ kstack' = [kstack EXCEPT ![q] = NoPage]
  /\ pid' = [pid EXCEPT ![q] = 0]
  /\ parent' = [parent EXCEPT ![q] = Null]
  /\ killed' = [killed EXCEPT ![q] = FALSE]
  /\ state' = [state EXCEPT ![q] = "UNUSED"]
  /\ ptlock' = NoCpu
  /\ pc' = [pc EXCEPT ![p] = "user"]
  /\ UNCHANGED <<chan, thread, pgdir, ofile, cpus, ctx, np, reg, nextpid,
                 numofthread, fref, panicked, calls>>

FindsThread(c, p, q) ==
  /\ Scanning(c, p) /\ parent[q] = p /\ state[q] = "ZOMBIE" /\ thread[q]
  /\ np' = [np EXCEPT ![p] = q]
  /\ reg' = [reg EXCEPT ![p] = numofthread]
  /\ pc' = [pc EXCEPT ![p] = "wait_dec"]
  /\ UNCHANGED <<table, cpus, ctx, glob, ptlock>>

Kills(c, p, v) ==
  /\ Syscall(c, p, "kill") /\ ptlock = NoCpu
  /\ killed' = [killed EXCEPT ![v] = TRUE]
  /\ state' = [state EXCEPT ![v] = KillWakes(@)]
  /\ UNCHANGED <<pid, parent, chan, thread, kstack, pgdir, ofile, cpus, local,
                 glob, ptlock>>

(* A step of the table is one of these, with the choice of each scan free. *)
Moves ==
  \E c \in CPU :
    \/ SchedAcquire(c) \/ SchedRelease(c) \/ Swtch(c) \/ Resume(c)
    \/ \E s \in Slot : Runs(c, s)
    \/ \E p \in Slot :
         \/ Yield(c, p) \/ FindsNone(c, p)
         \/ \E s \in Slot, k \in {"fork_kstack", "clone_kstack"} : Claims(c, p, s, k)
         \/ Kstack(c, p) \/ KstackFails(c, p) \/ ForkCopy(c, p)
         \/ ForkCopyFails(c, p) \/ ForkRun(c, p) \/ CloneRead(c, p)
         \/ CloneAdd(c, p) \/ CloneRun(c, p) \/ Close(c, p)
         \/ ExitFiles(c, p) \/ ExitZombie(c, p) \/ Wait(c, p)
         \/ \E q \in Slot : Reaps(c, p, q) \/ FindsThread(c, p, q)
         \/ WaitDec(c, p) \/ WaitFails(c, p) \/ WaitSleep(c, p)
         \/ \E v \in Slot : Kills(c, p, v)

(* A step, or none.                                                        *)
Step == UNCHANGED vars \/ (~panicked /\ Moves)

(* What a processor that runs process p may rely on.                       *)
LEMMA Runner ==
  ASSUME IInv, NEW c \in CPU, NEW p \in Slot, Running(c, p)
  PROVE  /\ state[p] = "RUNNING" /\ cpc[c] = "run" /\ cproc[c] = p /\ ctx[p] = "none"
         /\ \A d \in CPU : cproc[d] = p => d = c
         /\ ptlock = c <=> pc[p] \in {"wait_scan", "wait_dec"}
<1>1. p # Null /\ cproc[c] = p
  BY ProcAssumption DEF Running, Slot, Null
<1>2. QED
  BY <1>1 DEF Running, IInv, Cpus, Lock, Holds

(* The slot that allocproc() has given to process p is an EMBRYO that no   *)
(* other fork() or clone() fills.                                          *)
LEMMA Filling ==
  ASSUME IInv, NEW p \in Slot, pc[p] \in Creating
  PROVE  /\ np[p] \in Slot /\ state[np[p]] = "EMBRYO" /\ np[p] # initproc
         /\ \A q \in Slot \ {p} : pc[q] \in Creating => np[q] # np[p]
         /\ pc[p] \in {"fork_kstack", "clone_kstack"} => pc[np[p]] = "none"
         /\ pc[p] \in {"fork_copyuvm", "fork_run", "clone_run"} =>
              pc[np[p]] = "user" /\ ctx[np[p]] = "release" /\ kstack[np[p]] # NoPage
         /\ pc[p] = "fork_run" => parent[np[p]] = p
<1>1. Newborns /\ state[initproc] \in Live
  BY ZenonT(30) DEF IInv, Family
<1>2. np[p] \in Slot /\ state[np[p]] = "EMBRYO"
  BY <1>1, ZenonT(30) DEF Newborns
<1>3. np[p] # initproc
  BY <1>1, <1>2, ZenonT(30) DEF Live
<1>4. QED
  BY <1>1, <1>2, <1>3, ZenonT(30) DEF Newborns

(* The slot that wait() is releasing while it decrements numofthread.      *)
LEMMA WaitsFor ==
  ASSUME IInv, NEW p \in Slot, pc[p] = "wait_dec"
  PROVE  np[p] \in Slot /\ state[np[p]] = "ZOMBIE"
<1>1. Newborns
  BY ZenonT(30) DEF IInv
<1>2. QED
  BY <1>1, ZenonT(30) DEF Newborns

(* Types.                                                                  *)
LEMMA NextTypeOK == IInv /\ Step => TypeOK'
<1> SUFFICES ASSUME IInv, Step PROVE TypeOK'
  OBVIOUS
<1> USE ProcAssumption DEF IInv, TypeOK, table, cpus, local, glob, Null, NoPage, Running, Syscall
<1>1. ASSUME NEW c \in CPU, SchedAcquire(c) PROVE TypeOK'
  BY <1>1 DEF SchedAcquire
<1>2. ASSUME NEW c \in CPU, NEW s \in Slot, Runs(c, s) PROVE TypeOK'
  <2>1. state' \in [Slot -> States] /\ cproc' \in [CPU -> Slot \cup {Null}]
    BY <1>2, ZenonT(30) DEF Runs, States
  <2>2. scan' \in [CPU -> 1 .. NPROC + 1]
    BY <1>2 DEF Runs, Slot
  <2>3. QED
    BY <1>2, <2>1, <2>2, ZenonT(30) DEF Runs
<1>3. ASSUME NEW c \in CPU, SchedRelease(c) PROVE TypeOK'
  BY <1>3 DEF SchedRelease
<1>4. ASSUME NEW c \in CPU, Swtch(c) PROVE TypeOK'
  <2>1. scan[c] \in 1 .. NPROC
    BY <1>4, ZenonT(30) DEF Swtch, Cpus, Slot
  <2>2. scan' \in [CPU -> 1 .. NPROC + 1]
    BY <1>4, <2>1 DEF Swtch, NextScan
  <2>3. QED
    BY <1>4, <2>2, ZenonT(30) DEF Swtch
<1>5. ASSUME NEW c \in CPU, Resume(c) PROVE TypeOK'
  BY <1>5, ZenonT(30) DEF Resume
<1>6. ASSUME NEW c \in CPU, NEW p \in Slot, Yield(c, p) PROVE TypeOK'
  BY <1>6, ZenonT(30) DEF Yield, States
<1>7. ASSUME NEW c \in CPU, NEW p \in Slot, FindsNone(c, p) PROVE TypeOK'
  BY <1>7, ZenonT(30) DEF FindsNone, PCs
<1>8. ASSUME NEW c \in CPU, NEW p \in Slot, NEW s \in Slot,
             NEW k \in {"fork_kstack", "clone_kstack"}, Claims(c, p, s, k)
      PROVE  TypeOK'
  <2>1. state' \in [Slot -> States] /\ pid' \in [Slot -> Nat] /\ nextpid' \in Nat
    BY <1>8 DEF Claims, States
  <2>2. np' \in [Slot -> Slot \cup {Null}] /\ pc' \in [Slot -> PCs]
    BY <1>8, ZenonT(30) DEF Claims, PCs
  <2>3. QED
    BY <1>8, <2>1, <2>2, ZenonT(30) DEF Claims
<1>9. ASSUME NEW c \in CPU, NEW p \in Slot, Kstack(c, p) PROVE TypeOK'
  <2>1. np[p] \in Slot
    BY <1>9, ZenonT(30) DEF Kstack, Newborns, Creating
  <2>2. Head(free) \in Page /\ Tail(free) \in Seq(Page)
    BY <1>9 DEF Kstack
  <2>3. kstack' \in [Slot -> Page \cup {NoPage}] /\ free' \in Seq(Page)
    BY <1>9, <2>1, <2>2, ZenonT(30) DEF Kstack
  <2>4. pc' \in [Slot -> PCs]
    BY <1>9, <2>1, ZenonT(30) DEF Kstack, PCs
  <2>5. ctx' \in [Slot -> {"none", "release", "sleep"}]
    BY <1>9, <2>1, ZenonT(30) DEF Kstack
  <2>6. thread' \in [Slot -> BOOLEAN]
    BY <1>9, <2>1, ZenonT(30) DEF Kstack
  <2>7. QED
    BY <1>9, <2>3, <2>4, <2>5, <2>6, ZenonT(30) DEF Kstack
<1>10. ASSUME NEW c \in CPU, NEW p \in Slot, KstackFails(c, p)
      PROVE  TypeOK'
  BY <1>10, ZenonT(30) DEF KstackFails, Newborns, Creating, PCs, States
<1>11. ASSUME NEW c \in CPU, NEW p \in Slot, ForkCopy(c, p) PROVE TypeOK'
  <2>1. np[p] \in Slot
    BY <1>11, ZenonT(30) DEF ForkCopy, Newborns, Creating
  <2>2. Head(free) \in Page /\ Tail(free) \in Seq(Page)
    BY <1>11 DEF ForkCopy
  <2>3. pgdir' \in [Slot -> Page \cup {NoPage}] /\ free' \in Seq(Page)
    BY <1>11, <2>1, <2>2, ZenonT(30) DEF ForkCopy
  <2>4. pc' \in [Slot -> PCs] /\ parent' \in [Slot -> Slot \cup {Null}]
    BY <1>11, <2>1, ZenonT(30) DEF ForkCopy, PCs
  <2>5. ofile' \in [Slot -> BOOLEAN]
    BY <1>11, <2>1, ZenonT(30) DEF ForkCopy
  <2>6. fref' \in Int
    <3>1. fref' = filedup(p) /\ fref \in Int BY <1>11, ZenonT(30) DEF ForkCopy
    <3>. HIDE DEF TypeOK
    <3> QED BY <3>1 DEF filedup
  <2>7. QED
    BY <1>11, <2>3, <2>4, <2>5, <2>6, ZenonT(30) DEF ForkCopy
<1>12. ASSUME NEW c \in CPU, NEW p \in Slot, ForkCopyFails(c, p)
      PROVE  TypeOK'
  <2>1. np[p] \in Slot /\ kstack[np[p]] \in Page
    BY <1>12, ZenonT(30) DEF ForkCopyFails, Newborns, Creating
  <2>2. <<kstack[np[p]]>> \o free \in Seq(Page)
    BY <2>1
  <2>3. /\ state' \in [Slot -> States] /\ kstack' \in [Slot -> Page \cup {NoPage}]
        /\ pgdir' \in [Slot -> Page \cup {NoPage}]
        /\ pc' \in [Slot -> PCs] /\ free' \in Seq(Page)
    BY <1>12, <2>1, <2>2, ZenonT(30) DEF ForkCopyFails, PCs, States, UndoKstack
  <2>4. QED
    BY <1>12, <2>3, ZenonT(30) DEF ForkCopyFails
<1>13. ASSUME NEW c \in CPU, NEW p \in Slot, ForkRun(c, p) PROVE TypeOK'
  BY <1>13, ZenonT(30) DEF ForkRun, Newborns, Creating, PCs, States
<1>14. ASSUME NEW c \in CPU, NEW p \in Slot, CloneRead(c, p) PROVE TypeOK'
  BY <1>14, ZenonT(30) DEF CloneRead, PCs
<1>15. ASSUME NEW c \in CPU, NEW p \in Slot, CloneAdd(c, p) PROVE TypeOK'
  BY <1>15 DEF CloneAdd, PCs
<1>16. ASSUME NEW c \in CPU, NEW p \in Slot, CloneRun(c, p) PROVE TypeOK'
  BY <1>16, ZenonT(30) DEF CloneRun, Newborns, Creating, PCs, States, CloneParent
<1>17. ASSUME NEW c \in CPU, NEW p \in Slot, Close(c, p) PROVE TypeOK'
  BY <1>17, SMTT(30) DEF Close, fileclose
<1>18. ASSUME NEW c \in CPU, NEW p \in Slot, ExitFiles(c, p) PROVE TypeOK'
  <2>1. panicked' \in BOOLEAN
    BY <1>18, Zenon DEF ExitFiles, fileclose
  <2>2. ofile' \in [Slot -> BOOLEAN] /\ fref' \in Int
    <3>1. CASE p # initproc /\ numofthread = 0
      <4>1. ofile' = [ofile EXCEPT ![p] = FALSE] /\ (fref' = fref - 1 \/ fref' = fref)
        BY <1>18, <3>1, ZenonT(30) DEF ExitFiles, fileclose
      <4>2. QED
        BY <4>1
    <3>2. CASE ~ (p # initproc /\ numofthread = 0)
      BY <1>18, <3>2 DEF ExitFiles
    <3>3. QED
      BY <3>1, <3>2, ZenonT(30)
  <2>3. pc' \in [Slot -> PCs]
    BY <1>18, ZenonT(30) DEF ExitFiles, PCs
  <2>4. QED
    BY <1>18, <2>1, <2>2, <2>3, ZenonT(30) DEF ExitFiles
<1>19. ASSUME NEW c \in CPU, NEW p \in Slot, ExitZombie(c, p) PROVE TypeOK'
  <2>1. wakeup1(ExitWakes(p)) \in [Slot -> States]
    BY DEF wakeup1, States
  <2>2. state' \in [Slot -> States]
    BY <1>19, <2>1, ZenonT(30) DEF ExitZombie, States
  <2>3. parent' \in [Slot -> Slot \cup {Null}]
    BY <1>19 DEF ExitZombie, Reparent, initproc, Slot
  <2>4. pc' \in [Slot -> PCs]
    BY <1>19, ZenonT(30) DEF ExitZombie, PCs
  <2>5. QED
    BY <1>19, <2>2, <2>3, <2>4, ZenonT(30) DEF ExitZombie
<1>20. ASSUME NEW c \in CPU, NEW p \in Slot, Wait(c, p) PROVE TypeOK'
  BY <1>20, ZenonT(30) DEF Wait, PCs
<1>21. ASSUME NEW c \in CPU, NEW p \in Slot, NEW q \in Slot, Reaps(c, p, q)
      PROVE  TypeOK'
  <2>1. kstack[q] \in Page /\ pgdir[q] \in Page
    BY <1>21, ZenonT(30) DEF Reaps, Pages, Owner
  <2>2. free' \in Seq(Page)
    BY <1>21, <2>1 DEF Reaps, Reaped
  <2>3. state' \in [Slot -> States] /\ pc' \in [Slot -> PCs]
    BY <1>21, ZenonT(30) DEF Reaps, Scanning, PCs, States
  <2>4. QED
    BY <1>21, <2>2, <2>3, ZenonT(30) DEF Reaps
<1>22. ASSUME NEW c \in CPU, NEW p \in Slot, NEW q \in Slot, FindsThread(c, p, q)
      PROVE  TypeOK'
  BY <1>22, ZenonT(30) DEF FindsThread, PCs
<1>23. ASSUME NEW c \in CPU, NEW p \in Slot, WaitDec(c, p) PROVE TypeOK'
  BY <1>23, SMTT(30) DEF WaitDec, Newborns, PCs, States
<1>24. ASSUME NEW c \in CPU, NEW p \in Slot, WaitFails(c, p) PROVE TypeOK'
  BY <1>24, ZenonT(30) DEF WaitFails, Scanning, PCs
<1>25. ASSUME NEW c \in CPU, NEW p \in Slot, WaitSleep(c, p) PROVE TypeOK'
  BY <1>25, ZenonT(30) DEF WaitSleep, Scanning, States
<1>26. ASSUME NEW c \in CPU, NEW p \in Slot, NEW v \in Slot, Kills(c, p, v)
      PROVE  TypeOK'
  BY <1>26, ZenonT(30) DEF Kills, KillWakes, States
<1>27. CASE UNCHANGED vars
  BY <1>27, ZenonT(30) DEF vars
<1> HIDE DEF IInv, TypeOK, table, cpus, local, glob, Null, NoPage, Running, Syscall
<1>28. QED
  BY <1>1, <1>2, <1>3, <1>4, <1>5, <1>6, <1>7, <1>8, <1>9, <1>10, <1>11, <1>12, <1>13,
     <1>14, <1>15, <1>16, <1>17, <1>18, <1>19, <1>20, <1>21, <1>22, <1>23, <1>24, <1>25,
     <1>26, <1>27, SMTT(30)
     DEF Step, Moves

(* What a step of processor c may not touch: the other processors and the  *)
(* position of what they run.                                              *)
Apart(c) ==
  \A d \in CPU \ {c} :
    /\ cpc'[d] = cpc[d] /\ cproc'[d] = cproc[d]
    /\ cpc[d] = "run" => /\ ctx'[cproc[d]] = ctx[cproc[d]]
                         /\ pc'[cproc[d]] = pc[cproc[d]]

(* A process that runs changes no other one that does.                     *)
LEMMA RunnerApart ==
  ASSUME IInv, NEW c \in CPU, NEW p \in Slot, Running(c, p), cproc' = cproc,
         \A d \in CPU \ {c} : cpc'[d] = cpc[d],
         \A s \in Slot \ {p} : state[s] = "RUNNING" => ctx'[s] = ctx[s] /\ pc'[s] = pc[s]
  PROVE  Apart(c)
<1> SUFFICES ASSUME NEW d \in CPU \ {c}, cpc[d] = "run"
             PROVE  ctx'[cproc[d]] = ctx[cproc[d]] /\ pc'[cproc[d]] = pc[cproc[d]]
  BY ZenonT(30) DEF Apart
<1>1. cproc[d] # p
  BY Runner
<1>2. cproc[d] \in Slot /\ state[cproc[d]] = "RUNNING"
  BY ZenonT(30) DEF IInv, Cpus
<1>3. QED
  BY <1>1, <1>2, ZenonT(30)

(* ptable.lock changes hands only at processor c.                          *)
LEMMA LockStep ==
  ASSUME IInv, NEW c \in CPU, Apart(c), ptlock' = c <=> Holds(c)',
         ptlock' \in {c, NoCpu, ptlock}, ptlock' # ptlock => ptlock \in {c, NoCpu}
  PROVE  Lock'
<1>1. ASSUME NEW d \in CPU \ {c} PROVE Holds(d)' <=> Holds(d)
  BY ZenonT(30) DEF Apart, Holds
<1>2. ASSUME NEW d \in CPU \ {c} PROVE ptlock' = d <=> ptlock = d
  BY ProcAssumption
<1>3. QED
  BY <1>1, <1>2 DEF IInv, Lock

(* The lock stays where it is while a process works outside of wait().     *)
LEMMA LockFrame ==
  ASSUME IInv, NEW c \in CPU, NEW p \in Slot, Running(c, p),
         UNCHANGED <<cpc, cproc, ptlock>>, ctx'[p] = "none",
         pc'[p] \in {"wait_scan", "wait_dec"} <=> pc[p] \in {"wait_scan", "wait_dec"},
         \A s \in Slot \ {p} : state[s] = "RUNNING" => ctx'[s] = ctx[s] /\ pc'[s] = pc[s]
  PROVE  Lock'
<1>1. Apart(c)
  BY RunnerApart, ZenonT(30)
<1>2. ptlock' = c <=> Holds(c)'
  BY Runner DEF Holds
<1>3. QED
  BY <1>1, <1>2, LockStep, ZenonT(30)

(* A processor that holds ptable.lock is the only one.                     *)
LEMMA OneHolder ==
  ASSUME IInv, NEW c \in CPU, NEW d \in CPU, Holds(d), ptlock \in {c, NoCpu}
  PROVE  d = c /\ ptlock = c
BY ProcAssumption, ZenonT(30) DEF IInv, Lock

Left == {"RUNNABLE", "SLEEPING", "ZOMBIE"}

(* c->proc stays right when no process starts or stops running, and none   *)
(* in sched() is taken away without the lock.                              *)
LEMMA CpusFrame ==
  ASSUME IInv, NEW c \in CPU, UNCHANGED <<cpc, cproc, scan>>,
         \A s \in Slot :
           /\ state'[s] = "RUNNING" <=> state[s] = "RUNNING"
           /\ state[s] \in Left => state'[s] \in Left \/ (cpc[c] = "run" /\ ptlock = c)
  PROVE  Cpus'
<1>1. ASSUME NEW d \in CPU, cpc[d] = "sched" PROVE state'[cproc[d]] \in Left
  <2>1. Holds(d) /\ cproc[d] \in Slot /\ state[cproc[d]] \in Left
    BY <1>1, ZenonT(30) DEF Holds, IInv, Cpus, Left
  <2>2. CASE cpc[c] = "run" /\ ptlock = c
    BY <1>1, <2>1, <2>2, OneHolder, ZenonT(30)
  <2>3. QED
    BY <2>1, <2>2, ZenonT(30)
<1>2. QED
  BY <1>1 DEF IInv, Cpus, Left

(* ptable.lock is handed from one holder to the next across swtch().       *)
LEMMA NextLock == IInv /\ Step => Lock'
<1> SUFFICES ASSUME IInv, Step PROVE Lock'
  OBVIOUS
<1>0. /\ cpc \in [CPU -> {"loop", "scan", "run", "sched"}]
      /\ cproc \in [CPU -> Slot \cup {Null}]
      /\ pc \in [Slot -> PCs] /\ ctx \in [Slot -> {"none", "release", "sleep"}]
  BY ZenonT(30) DEF IInv, TypeOK
<1>1. ASSUME NEW c \in CPU, SchedAcquire(c) PROVE Lock'
  <2>1. Apart(c)
    BY <1>1, <1>0, ZenonT(30) DEF SchedAcquire, Apart, table, local, glob
  <2>2. ptlock = NoCpu
    BY <1>1, <1>0, ZenonT(30) DEF SchedAcquire, Holds, IInv, Lock, table, local, glob
  <2>3. ptlock' = c /\ Holds(c)'
    BY <1>1, <1>0, <2>2, ZenonT(30) DEF SchedAcquire, Holds, table, local, glob
  <2>4. QED
    BY <2>1, <2>2, <2>3, LockStep, ProcAssumption, ZenonT(30)
<1>2. ASSUME NEW c \in CPU, NEW s \in Slot, Runs(c, s) PROVE Lock'
  <2>1. Apart(c) /\ ptlock = c
    BY <1>2, <1>0, ZenonT(30) DEF Runs, Apart, Holds, IInv, Lock, local, glob
  <2>2. ctx[s] # "none"
    BY <1>2, ZenonT(30) DEF Runs, IInv, Contexts, local, glob
  <2>3. ptlock' = c /\ Holds(c)'
    BY <1>2, <1>0, <2>1, <2>2, ZenonT(30) DEF Runs, Holds, local, glob
  <2>4. QED
    BY <2>1, <2>3, LockStep, ZenonT(30)
<1>3. ASSUME NEW c \in CPU, SchedRelease(c) PROVE Lock'
  <2>1. Apart(c)
    BY <1>3, <1>0, ZenonT(30) DEF SchedRelease, Apart, table, local, glob
  <2>2. ptlock = c
    BY <1>3, <1>0, ZenonT(30) DEF SchedRelease, Holds, IInv, Lock, table, local, glob
  <2>3. ptlock' = NoCpu /\ ~Holds(c)'
    BY <1>3, <1>0, <2>2, ZenonT(30) DEF SchedRelease, Holds, table, local, glob
  <2>4. QED
    BY <2>1, <2>2, <2>3, LockStep, ProcAssumption, ZenonT(30)
<1>4. ASSUME NEW c \in CPU, Swtch(c) PROVE Lock'
  <2>1. Apart(c)
    BY <1>4, <1>0, ZenonT(30) DEF Swtch, Apart, table, local, glob
  <2>2. ptlock = c
    BY <1>4, <1>0, ZenonT(30) DEF Swtch, Holds, IInv, Lock, table, local, glob
  <2>3. ptlock' = c /\ Holds(c)'
    BY <1>4, <1>0, <2>2, ZenonT(30) DEF Swtch, Holds, table, local, glob
  <2>4. QED
    BY <2>1, <2>2, <2>3, LockStep, ProcAssumption, ZenonT(30)
<1>5. ASSUME NEW c \in CPU, Resume(c) PROVE Lock'
  <2>0. DEFINE p == cproc[c]
  <2>1. p \in Slot /\ cpc[c] = "run" /\ ctx[p] # "none" /\ ptlock = c /\ p # Null
    BY <1>5, <1>0 DEF Resume, IInv, Cpus, Lock, Holds, Slot, Null, cpus, glob
  <2>2. Apart(c)
    <3>1. \A d \in CPU \ {c} : cproc[d] # p
      BY <2>1, ZenonT(30) DEF IInv, Cpus
    <3>2. \A d \in CPU \ {c} : cpc[d] = "run" => cproc[d] \in Slot
      BY ZenonT(30) DEF IInv, Cpus
    <3>3. cproc' = cproc /\ cpc' = cpc /\ pc' = pc /\ ctx' = [ctx EXCEPT ![p] = "none"]
      BY <1>5, ZenonT(30) DEF Resume, cpus, glob
    <3>4. QED
      BY <1>0, <3>1, <3>2, <3>3, ZenonT(30) DEF Apart
  <2>3. CASE ctx[p] = "release"
    <3>1. pc[p] \notin {"wait_scan", "wait_dec"}
      BY <2>1, <2>3, ZenonT(30) DEF IInv, Contexts
    <3>2. ptlock' = NoCpu /\ ~Holds(c)'
      BY <1>5, <1>0, <2>1, <2>3, <3>1, ZenonT(30) DEF Resume, Holds, cpus, glob
    <3>3. QED
      BY <2>1, <2>2, <3>2, LockStep, ProcAssumption, ZenonT(30)
  <2>4. CASE ctx[p] = "sleep"
    <3>1. pc[p] = "wait_scan"
      BY <2>1, <2>4, ZenonT(30) DEF IInv, Contexts
    <3>2. ptlock' = c /\ Holds(c)'
      BY <1>5, <1>0, <2>1, <2>4, <3>1, ZenonT(30) DEF Resume, Holds, cpus, glob
    <3>3. QED
      BY <2>1, <2>2, <3>2, LockStep
  <2>5. QED
    BY <1>0, <2>1, <2>3, <2>4, ZenonT(30)
<1>6. ASSUME NEW c \in CPU, NEW p \in Slot, Yield(c, p) PROVE Lock'
  <2>1. Running(c, p) /\ state[p] = "RUNNING" /\ cpc[c] = "run" /\ cproc[c] = p
        /\ ctx[p] = "none" /\ (ptlock = c <=> pc[p] \in {"wait_scan", "wait_dec"})
    BY <1>6, Runner, ZenonT(30) DEF Yield, glob
  <2>2. Apart(c)
    <3>1. cproc' = cproc /\ \A d \in CPU \ {c} : cpc'[d] = cpc[d]
      BY <1>6, <1>0, ZenonT(30) DEF Yield, glob
    <3>2. \A t \in Slot \ {p} : ctx'[t] = ctx[t] /\ pc'[t] = pc[t]
      BY <1>6, <1>0, ZenonT(30) DEF Yield, glob
    <3>3. QED
      BY <2>1, <3>1, <3>2, RunnerApart, ZenonT(30)
  <2>3. ptlock' = c /\ Holds(c)'
    BY <1>6, <1>0, <2>1, ZenonT(30) DEF Yield, Holds, glob
  <2>4. ptlock \in {c, NoCpu}
    BY <1>6, <2>1, ZenonT(30) DEF Yield, glob
  <2>5. QED
    BY <2>2, <2>3, <2>4, LockStep, ProcAssumption, ZenonT(30)
<1>7. ASSUME NEW c \in CPU, NEW p \in Slot, FindsNone(c, p) PROVE Lock'
  <2>1. Running(c, p) /\ state[p] = "RUNNING" /\ ctx[p] = "none"
    BY <1>7, Runner, ZenonT(30) DEF FindsNone, table, cpus, glob
  <2>2. /\ UNCHANGED <<cpc, cproc, ptlock>> /\ ctx'[p] = "none"
        /\ pc'[p] \in {"wait_scan", "wait_dec"} <=> pc[p] \in {"wait_scan", "wait_dec"}
    BY <1>7, <1>0, <2>1, ZenonT(30) DEF FindsNone, table, cpus, glob
  <2>3. \A t \in Slot \ {p} : state[t] = "RUNNING" => ctx'[t] = ctx[t] /\ pc'[t] = pc[t]
    BY <1>7, <1>0, <2>1, ZenonT(30) DEF FindsNone, table, cpus, glob
  <2>4. QED
    BY <2>1, <2>2, <2>3, LockFrame, ZenonT(30)
<1>8. ASSUME NEW c \in CPU, NEW p \in Slot, NEW s \in Slot,
             NEW k \in {"fork_kstack", "clone_kstack"}, Claims(c, p, s, k)
      PROVE  Lock'
  <2>1. Running(c, p) /\ state[p] = "RUNNING" /\ ctx[p] = "none"
    BY <1>8, Runner, ZenonT(30) DEF Claims, cpus
  <2>2. /\ UNCHANGED <<cpc, cproc, ptlock>> /\ ctx'[p] = "none"
        /\ pc'[p] \in {"wait_scan", "wait_dec"} <=> pc[p] \in {"wait_scan", "wait_dec"}
    BY <1>8, <1>0, <2>1, ZenonT(30) DEF Claims, cpus
  <2>3. \A t \in Slot \ {p} : state[t] = "RUNNING" => ctx'[t] = ctx[t] /\ pc'[t] = pc[t]
    BY <1>8, <1>0, <2>1, ZenonT(30) DEF Claims, cpus
  <2>4. QED
    BY <2>1, <2>2, <2>3, LockFrame, ZenonT(30)
<1>9. ASSUME NEW c \in CPU, NEW p \in Slot, Kstack(c, p) PROVE Lock'
  <2>1. np[p] \in Slot /\ state[np[p]] = "EMBRYO"
    BY <1>9, Filling, ZenonT(30) DEF Kstack, Creating
  <2>2. Running(c, p) /\ state[p] = "RUNNING" /\ ctx[p] = "none"
    BY <1>9, Runner, ZenonT(30) DEF Kstack, cpus
  <2>3. /\ UNCHANGED <<cpc, cproc, ptlock>> /\ ctx'[p] = "none"
        /\ pc'[p] \in {"wait_scan", "wait_dec"} <=> pc[p] \in {"wait_scan", "wait_dec"}
    BY <1>9, <1>0, <2>1, <2>2, ZenonT(30) DEF Kstack, cpus
  <2>4. \A t \in Slot \ {p} : state[t] = "RUNNING" => ctx'[t] = ctx[t] /\ pc'[t] = pc[t]
    BY <1>9, <1>0, <2>1, <2>2, ZenonT(30) DEF Kstack, cpus
  <2>5. QED
    BY <2>2, <2>3, <2>4, LockFrame
<1>10. ASSUME NEW c \in CPU, NEW p \in Slot, KstackFails(c, p) PROVE Lock'
  <2>1. Running(c, p) /\ state[p] = "RUNNING" /\ ctx[p] = "none"
    BY <1>10, Runner, ZenonT(30) DEF KstackFails, cpus, glob
  <2>2. /\ UNCHANGED <<cpc, cproc, ptlock>> /\ ctx'[p] = "none"
        /\ pc'[p] \in {"wait_scan", "wait_dec"} <=> pc[p] \in {"wait_scan", "wait_dec"}
    BY <1>10, <1>0, <2>1, ZenonT(30) DEF KstackFails, cpus, glob
  <2>3. \A t \in Slot \ {p} : state[t] = "RUNNING" => ctx'[t] = ctx[t] /\ pc'[t] = pc[t]
    BY <1>10, <1>0, <2>1, ZenonT(30) DEF KstackFails, cpus, glob
  <2>4. QED
    BY <2>1, <2>2, <2>3, LockFrame
<1>11. ASSUME NEW c \in CPU, NEW p \in Slot, ForkCopy(c, p) PROVE Lock'
  <2>1. Running(c, p) /\ state[p] = "RUNNING" /\ ctx[p] = "none"
    BY <1>11, Runner, ZenonT(30) DEF ForkCopy, cpus
  <2>2. /\ UNCHANGED <<cpc, cproc, ptlock>> /\ ctx'[p] = "none"
        /\ pc'[p] \in {"wait_scan", "wait_dec"} <=> pc[p] \in {"wait_scan", "wait_dec"}
    BY <1>11, <1>0, <2>1, ZenonT(30) DEF ForkCopy, cpus
  <2>3. \A t \in Slot \ {p} : state[t] = "RUNNING" => ctx'[t] = ctx[t] /\ pc'[t] = pc[t]
    BY <1>11, <1>0, <2>1, ZenonT(30) DEF ForkCopy, cpus
  <2>4. QED
    BY <2>1, <2>2, <2>3, LockFrame
<1>12. ASSUME NEW c \in CPU, NEW p \in Slot, ForkCopyFails(c, p)
      PROVE  Lock'
  <2>1. np[p] \in Slot /\ state[np[p]] = "EMBRYO"
    BY <1>12, Filling, ZenonT(30) DEF ForkCopyFails, Creating
  <2>2. Running(c, p) /\ state[p] = "RUNNING" /\ ctx[p] = "none"
    BY <1>12, Runner, ZenonT(30) DEF ForkCopyFails, cpus
  <2>3. /\ UNCHANGED <<cpc, cproc, ptlock>> /\ ctx'[p] = "none"
        /\ pc'[p] \in {"wait_scan", "wait_dec"} <=> pc[p] \in {"wait_scan", "wait_dec"}
    BY <1>12, <1>0, <2>1, <2>2, ZenonT(30) DEF ForkCopyFails, cpus
  <2>4. \A t \in Slot \ {p} : state[t] = "RUNNING" => ctx'[t] = ctx[t] /\ pc'[t] = pc[t]
    BY <1>12, <1>0, <2>1, <2>2, ZenonT(30) DEF ForkCopyFails, cpus
  <2>5. QED
    BY <2>2, <2>3, <2>4, LockFrame
<1>13. ASSUME NEW c \in CPU, NEW p \in Slot, ForkRun(c, p) PROVE Lock'
  <2>1. Running(c, p) /\ state[p] = "RUNNING" /\ ctx[p] = "none"
    BY <1>13, Runner, ZenonT(30) DEF ForkRun, cpus, glob
  <2>2. /\ UNCHANGED <<cpc, cproc, ptlock>> /\ ctx'[p] = "none"
        /\ pc'[p] \in {"wait_scan", "wait_dec"} <=> pc[p] \in {"wait_scan", "wait_dec"}
    BY <1>13, <1>0, <2>1, ZenonT(30) DEF ForkRun, cpus, glob
  <2>3. \A t \in Slot \ {p} : state[t] = "RUNNING" => ctx'[t] = ctx[t] /\ pc'[t] = pc[t]
    BY <1>13, <1>0, <2>1, ZenonT(30) DEF ForkRun, cpus, glob
  <2>4. QED
    BY <2>1, <2>2, <2>3, LockFrame
<1>14. ASSUME NEW c \in CPU, NEW p \in Slot, CloneRead(c, p) PROVE Lock'
  <2>1. Running(c, p) /\ state[p] = "RUNNING" /\ ctx[p] = "none"
    BY <1>14, Runner, ZenonT(30) DEF CloneRead, table, cpus, glob, Syscall
  <2>2. /\ UNCHANGED <<cpc, cproc, ptlock>> /\ ctx'[p] = "none"
        /\ pc'[p] \in {"wait_scan", "wait_dec"} <=> pc[p] \in {"wait_scan", "wait_dec"}
    BY <1>14, <1>0, <2>1, ZenonT(30) DEF CloneRead, table, cpus, glob, Syscall
  <2>3. \A t \in Slot \ {p} : state[t] = "RUNNING" => ctx'[t] = ctx[t] /\ pc'[t] = pc[t]
    BY <1>14, <1>0, <2>1, ZenonT(30) DEF CloneRead, table, cpus, glob, Syscall
  <2>4. QED
    BY <2>1, <2>2, <2>3, LockFrame
<1>15. ASSUME NEW c \in CPU, NEW p \in Slot, CloneAdd(c, p) PROVE Lock'
  <2>1. Running(c, p) /\ state[p] = "RUNNING" /\ ctx[p] = "none"
    BY <1>15, Runner, ZenonT(30) DEF CloneAdd, table, cpus
  <2>2. /\ UNCHANGED <<cpc, cproc, ptlock>> /\ ctx'[p] = "none"
        /\ pc'[p] \in {"wait_scan", "wait_dec"} <=> pc[p] \in {"wait_scan", "wait_dec"}
    BY <1>15, <1>0, <2>1, ZenonT(30) DEF CloneAdd, table, cpus
  <2>3. \A t \in Slot \ {p} : state[t] = "RUNNING" => ctx'[t] = ctx[t] /\ pc'[t] = pc[t]
    BY <1>15, <1>0, <2>1, ZenonT(30) DEF CloneAdd, table, cpus
  <2>4. QED
    BY <2>1, <2>2, <2>3, LockFrame
<1>16. ASSUME NEW c \in CPU, NEW p \in Slot, CloneRun(c, p) PROVE Lock'
  <2>1. Running(c, p) /\ state[p] = "RUNNING" /\ ctx[p] = "none"
    BY <1>16, Runner, ZenonT(30) DEF CloneRun, cpus, glob
  <2>2. /\ UNCHANGED <<cpc, cproc, ptlock>> /\ ctx'[p] = "none"
        /\ pc'[p] \in {"wait_scan", "wait_dec"} <=> pc[p] \in {"wait_scan", "wait_dec"}
    BY <1>16, <1>0, <2>1, ZenonT(30) DEF CloneRun, cpus, glob
  <2>3. \A t \in Slot \ {p} : state[t] = "RUNNING" => ctx'[t] = ctx[t] /\ pc'[t] = pc[t]
    BY <1>16, <1>0, <2>1, ZenonT(30) DEF CloneRun, cpus, glob
  <2>4. QED
    BY <2>1, <2>2, <2>3, LockFrame
<1>17. ASSUME NEW c \in CPU, NEW p \in Slot, Close(c, p) PROVE Lock'
  <2>1. Running(c, p) /\ state[p] = "RUNNING" /\ ctx[p] = "none"
    BY <1>17, Runner, ZenonT(30) DEF Close, cpus, local, Syscall
  <2>2. /\ UNCHANGED <<cpc, cproc, ptlock>> /\ ctx'[p] = "none"
        /\ pc'[p] \in {"wait_scan", "wait_dec"} <=> pc[p] \in {"wait_scan", "wait_dec"}
    BY <1>17, <1>0, <2>1, ZenonT(30) DEF Close, cpus, local, Syscall
  <2>3. \A t \in Slot \ {p} : state[t] = "RUNNING" => ctx'[t] = ctx[t] /\ pc'[t] = pc[t]
    BY <1>17, <1>0, <2>1, ZenonT(30) DEF Close, cpus, local, Syscall
  <2>4. QED
    BY <2>1, <2>2, <2>3, LockFrame
<1>18. ASSUME NEW c \in CPU, NEW p \in Slot, ExitFiles(c, p) PROVE Lock'
  <2>1. Running(c, p) /\ state[p] = "RUNNING" /\ ctx[p] = "none"
    BY <1>18, Runner, ZenonT(30) DEF ExitFiles, cpus
  <2>2. /\ UNCHANGED <<cpc, cproc, ptlock>> /\ ctx'[p] = "none"
        /\ pc'[p] \in {"wait_scan", "wait_dec"} <=> pc[p] \in {"wait_scan", "wait_dec"}
    BY <1>18, <1>0, <2>1, ZenonT(30) DEF ExitFiles, cpus
  <2>3. \A t \in Slot \ {p} : state[t] = "RUNNING" => ctx'[t] = ctx[t] /\ pc'[t] = pc[t]
    BY <1>18, <1>0, <2>1, ZenonT(30) DEF ExitFiles, cpus
  <2>4. QED
    BY <2>1, <2>2, <2>3, LockFrame
<1>19. ASSUME NEW c \in CPU, NEW p \in Slot, ExitZombie(c, p) PROVE Lock'
  <2>1. Running(c, p) /\ state[p] = "RUNNING" /\ cpc[c] = "run" /\ cproc[c] = p
        /\ ctx[p] = "none" /\ (ptlock = c <=> pc[p] \in {"wait_scan", "wait_dec"})
    BY <1>19, Runner, ZenonT(30) DEF ExitZombie, glob
  <2>2. Apart(c)
    <3>1. cproc' = cproc /\ \A d \in CPU \ {c} : cpc'[d] = cpc[d]
      BY <1>19, <1>0, ZenonT(30) DEF ExitZombie, glob
    <3>2. \A t \in Slot \ {p} : ctx'[t] = ctx[t] /\ pc'[t] = pc[t]
      BY <1>19, <1>0, ZenonT(30) DEF ExitZombie, glob
    <3>3. QED
      BY <2>1, <3>1, <3>2, RunnerApart
  <2>3. ptlock' = c /\ Holds(c)'
    BY <1>19, <1>0, <2>1, ZenonT(30) DEF ExitZombie, Holds, glob
  <2>4. ptlock \in {c, NoCpu}
    BY <1>19, <2>1, ZenonT(30) DEF ExitZombie, glob
  <2>5. QED
    BY <2>2, <2>3, <2>4, LockStep, ProcAssumption
<1>20. ASSUME NEW c \in CPU, NEW p \in Slot, Wait(c, p) PROVE Lock'
  <2>1. Running(c, p) /\ state[p] = "RUNNING" /\ cpc[c] = "run" /\ cproc[c] = p
        /\ ctx[p] = "none" /\ (ptlock = c <=> pc[p] \in {"wait_scan", "wait_dec"})
    BY <1>20, Runner, ZenonT(30) DEF Wait, table, cpus, glob, Syscall
  <2>2. Apart(c)
    <3>1. cproc' = cproc /\ \A d \in CPU \ {c} : cpc'[d] = cpc[d]
      BY <1>20, <1>0, ZenonT(30) DEF Wait, table, cpus, glob, Syscall
    <3>2. \A t \in Slot \ {p} : ctx'[t] = ctx[t] /\ pc'[t] = pc[t]
      BY <1>20, <1>0, ZenonT(30) DEF Wait, table, cpus, glob, Syscall
    <3>3. QED
      BY <2>1, <3>1, <3>2, RunnerApart
  <2>3. ptlock' = c /\ Holds(c)'
    BY <1>20, <1>0, <2>1, ZenonT(30) DEF Wait, Holds, table, cpus, glob, Syscall
  <2>4. ptlock \in {c, NoCpu}
    BY <1>20, <2>1, ZenonT(30) DEF Wait, table, cpus, glob, Syscall
  <2>5. QED
    BY <2>2, <2>3, <2>4, LockStep, ProcAssumption
<1>21. ASSUME NEW c \in CPU, NEW p \in Slot, NEW q \in Slot, Reaps(c, p, q)
      PROVE  Lock'
  <2>1. Running(c, p) /\ state[p] = "RUNNING" /\ cpc[c] = "run" /\ cproc[c] = p
        /\ ctx[p] = "none" /\ (ptlock = c <=> pc[p] \in {"wait_scan", "wait_dec"})
    BY <1>21, Runner, ZenonT(30) DEF Reaps, cpus, Scanning
  <2>2. Apart(c)
    <3>1. cproc' = cproc /\ \A d \in CPU \ {c} : cpc'[d] = cpc[d]
      BY <1>21, <1>0, ZenonT(30) DEF Reaps, cpus, Scanning
    <3>2. \A t \in Slot \ {p} : ctx'[t] = ctx[t] /\ pc'[t] = pc[t]
      BY <1>21, <1>0, ZenonT(30) DEF Reaps, cpus, Scanning
    <3>3. QED
      BY <2>1, <3>1, <3>2, RunnerApart, ZenonT(30)
  <2>3. ptlock' = NoCpu /\ ~Holds(c)'
    <3>1. ptlock' = NoCpu /\ cpc' = cpc /\ cproc' = cproc /\ ctx' = ctx /\ pc'[p] = "user"
      BY <1>21, <1>0, ZenonT(30) DEF Reaps, cpus, Scanning
    <3>2. QED
      BY <2>1, <3>1, ZenonT(30) DEF Holds
  <2>4. ptlock \in {c, NoCpu}
    BY <1>21, <2>1, ZenonT(30) DEF Reaps, cpus, Scanning
  <2>5. QED
    BY <2>2, <2>3, <2>4, LockStep, ProcAssumption, ZenonT(30)
<1>22. ASSUME NEW c \in CPU, NEW p \in Slot, NEW q \in Slot, FindsThread(c, p, q)
      PROVE  Lock'
  <2>1. Running(c, p) /\ state[p] = "RUNNING" /\ ctx[p] = "none"
    BY <1>22, Runner, ZenonT(30) DEF FindsThread, table, cpus, glob, Scanning
  <2>2. /\ UNCHANGED <<cpc, cproc, ptlock>> /\ ctx'[p] = "none"
        /\ pc'[p] \in {"wait_scan", "wait_dec"} <=> pc[p] \in {"wait_scan", "wait_dec"}
    BY <1>22, <1>0, <2>1, ZenonT(30) DEF FindsThread, table, cpus, glob, Scanning
  <2>3. \A t \in Slot \ {p} : state[t] = "RUNNING" => ctx'[t] = ctx[t] /\ pc'[t] = pc[t]
    BY <1>22, <1>0, <2>1, ZenonT(30) DEF FindsThread, table, cpus, glob, Scanning
  <2>4. QED
    BY <2>1, <2>2, <2>3, LockFrame, ZenonT(30)
<1>23. ASSUME NEW c \in CPU, NEW p \in Slot, WaitDec(c, p) PROVE Lock'
  <2>1. Running(c, p) /\ state[p] = "RUNNING" /\ cpc[c] = "run" /\ cproc[c] = p
        /\ ctx[p] = "none" /\ (ptlock = c <=> pc[p] \in {"wait_scan", "wait_dec"})
    BY <1>23, Runner, ZenonT(30) DEF WaitDec, cpus
  <2>2. Apart(c)
    <3>1. cproc' = cproc /\ \A d \in CPU \ {c} : cpc'[d] = cpc[d]
      BY <1>23, <1>0, ZenonT(30) DEF WaitDec, cpus
    <3>2. \A t \in Slot \ {p} : ctx'[t] = ctx[t] /\ pc'[t] = pc[t]
      BY <1>23, <1>0, ZenonT(30) DEF WaitDec, cpus
    <3>3. QED
      BY <2>1, <3>1, <3>2, RunnerApart
  <2>3. ptlock' = NoCpu /\ ~Holds(c)'
    <3>1. ptlock' = NoCpu /\ cpc' = cpc /\ cproc' = cproc /\ ctx' = ctx /\ pc'[p] = "user"
      BY <1>23, <1>0, ZenonT(30) DEF WaitDec, cpus
    <3>2. QED
      BY <2>1, <3>1, ZenonT(30) DEF Holds
  <2>4. ptlock \in {c, NoCpu}
    BY <1>23, <2>1, ZenonT(30) DEF WaitDec, cpus
  <2>5. QED
    BY <2>2, <2>3, <2>4, LockStep, ProcAssumption, ZenonT(30)
<1>24. ASSUME NEW c \in CPU, NEW p \in Slot, WaitFails(c, p) PROVE Lock'
  <2>1. Running(c, p) /\ state[p] = "RUNNING" /\ cpc[c] = "run" /\ cproc[c] = p
        /\ ctx[p] = "none" /\ (ptlock = c <=> pc[p] \in {"wait_scan", "wait_dec"})
    BY <1>24, Runner, ZenonT(30) DEF WaitFails, table, cpus, glob, Scanning
  <2>2. Apart(c)
    <3>1. cproc' = cproc /\ \A d \in CPU \ {c} : cpc'[d] = cpc[d]
      BY <1>24, <1>0, ZenonT(30) DEF WaitFails, table, cpus, glob, Scanning
    <3>2. \A t \in Slot \ {p} : ctx'[t] = ctx[t] /\ pc'[t] = pc[t]
      BY <1>24, <1>0, ZenonT(30) DEF WaitFails, table, cpus, glob, Scanning
    <3>3. QED
      BY <2>1, <3>1, <3>2, RunnerApart
  <2>3. ptlock' = NoCpu /\ ~Holds(c)'
    <3>1. ptlock' = NoCpu /\ cpc' = cpc /\ cproc' = cproc /\ ctx' = ctx /\ pc'[p] = "user"
      BY <1>24, <1>0, ZenonT(30) DEF WaitFails, table, cpus, glob, Scanning
    <3>2. QED
      BY <2>1, <3>1 DEF Holds
  <2>4. ptlock \in {c, NoCpu}
    BY <1>24, <2>1, ZenonT(30) DEF WaitFails, table, cpus, glob, Scanning
  <2>5. QED
    BY <2>2, <2>3, <2>4, LockStep, ProcAssumption
<1>25. ASSUME NEW c \in CPU, NEW p \in Slot, WaitSleep(c, p) PROVE Lock'
  <2>1. Running(c, p) /\ state[p] = "RUNNING" /\ cpc[c] = "run" /\ cproc[c] = p
        /\ ctx[p] = "none" /\ (ptlock = c <=> pc[p] \in {"wait_scan", "wait_dec"})
    BY <1>25, Runner, ZenonT(30) DEF WaitSleep, glob, Scanning
  <2>2. Apart(c)
    <3>1. cproc' = cproc /\ \A d \in CPU \ {c} : cpc'[d] = cpc[d]
      BY <1>25, <1>0, ZenonT(30) DEF WaitSleep, glob, Scanning
    <3>2. \A t \in Slot \ {p} : ctx'[t] = ctx[t] /\ pc'[t] = pc[t]
      BY <1>25, <1>0, ZenonT(30) DEF WaitSleep, glob, Scanning
    <3>3. QED
      BY <2>1, <3>1, <3>2, RunnerApart
  <2>3. ptlock' = c /\ Holds(c)'
    BY <1>25, <1>0, <2>1, ZenonT(30) DEF WaitSleep, Holds, glob, Scanning
  <2>4. ptlock \in {c, NoCpu}
    BY <1>25, <2>1, ZenonT(30) DEF WaitSleep, glob, Scanning
  <2>5. QED
    BY <2>2, <2>3, <2>4, LockStep, ProcAssumption
<1>26. ASSUME NEW c \in CPU, NEW p \in Slot, NEW v \in Slot, Kills(c, p, v)
      PROVE  Lock'
  <2>1. Running(c, p) /\ state[p] = "RUNNING" /\ ctx[p] = "none"
    BY <1>26, Runner, ZenonT(30) DEF Kills, cpus, local, glob, Syscall
  <2>2. /\ UNCHANGED <<cpc, cproc, ptlock>> /\ ctx'[p] = "none"
        /\ pc'[p] \in {"wait_scan", "wait_dec"} <=> pc[p] \in {"wait_scan", "wait_dec"}
    BY <1>26, <1>0, <2>1, ZenonT(30) DEF Kills, cpus, local, glob, Syscall
  <2>3. \A t \in Slot \ {p} : state[t] = "RUNNING" => ctx'[t] = ctx[t] /\ pc'[t] = pc[t]
    BY <1>26, <1>0, <2>1, ZenonT(30) DEF Kills, cpus, local, glob, Syscall
  <2>4. QED
    BY <2>1, <2>2, <2>3, LockFrame
<1>27. CASE UNCHANGED vars
  BY <1>27, ZenonT(30) DEF vars, IInv, Lock, Holds, table, cpus, local, glob
<1>28. QED
  BY <1>1, <1>2, <1>3, <1>4, <1>5, <1>6, <1>7, <1>8, <1>9, <1>10, <1>11, <1>12, <1>13,
     <1>14, <1>15, <1>16, <1>17, <1>18, <1>19, <1>20, <1>21, <1>22, <1>23, <1>24, <1>25,
     <1>26, <1>27, ZenonT(60)
     DEF Step, Moves

(* A process that leaves its processor for sched() is still its c->proc.   *)
LEMMA CpusLeave ==
  ASSUME IInv, NEW c \in CPU, NEW p \in Slot, Running(c, p), UNCHANGED <<cproc, scan>>,
         cpc' = [cpc EXCEPT ![c] = "sched"], state'[p] \in Left,
         \A s \in Slot \ {p} : /\ state'[s] = "RUNNING" <=> state[s] = "RUNNING"
                               /\ state[s] \in Left => state'[s] \in Left
  PROVE  Cpus'
<1>0. cpc \in [CPU -> {"loop", "scan", "run", "sched"}]
  BY ZenonT(30) DEF IInv, TypeOK
<1>c. Cpus
  BY ZenonT(30) DEF IInv
<1>1. ASSUME NEW d \in CPU
      PROVE  /\ cpc'[d] \in {"loop", "scan"} => cproc'[d] = Null
             /\ cpc'[d] \in {"run", "sched"} => cproc'[d] \in Slot /\ scan'[d] = cproc'[d]
  <2>1. CASE d = c
    <3>1. cpc'[c] = "sched" /\ cpc[c] = "run" /\ cproc' = cproc /\ scan' = scan
      BY <1>0, Runner, ZenonT(30)
    <3>2. QED
      BY <1>c, <2>1, <3>1 DEF Cpus
  <2>2. CASE d # c
    <3>1. cpc'[d] = cpc[d] /\ cproc' = cproc /\ scan' = scan
      BY <1>0, <2>2, ZenonT(30)
    <3>2. QED
      BY <1>c, <3>1 DEF Cpus
  <2>3. QED
    BY <2>1, <2>2, ZenonT(30)
<1>2. ASSUME NEW d \in CPU
      PROVE  /\ cpc'[d] = "run" => state'[cproc'[d]] = "RUNNING"
             /\ cpc'[d] = "sched" => state'[cproc'[d]] \in Left
  <2>1. CASE d = c
    BY <1>0, <2>1, Runner
  <2>2. CASE d # c
    <3>1. cpc'[d] = cpc[d] /\ cproc'[d] = cproc[d] /\ cproc[d] # p
      BY <1>0, <2>2, Runner
    <3>2. QED
      BY <3>1 DEF IInv, Cpus, Left
  <2>3. QED
    BY <2>1, <2>2
<1>3. ASSUME NEW s \in Slot, state'[s] = "RUNNING"
      PROVE  \E d \in CPU : cpc'[d] = "run" /\ cproc'[d] = s
  <2>1. s # p /\ state[s] = "RUNNING"
    BY <1>3, ZenonT(30) DEF Left
  <2>2. PICK d \in CPU : cpc[d] = "run" /\ cproc[d] = s
    BY <2>1, ZenonT(30) DEF IInv, Cpus
  <2>3. d # c
    BY <2>1, <2>2, Runner
  <2>4. QED
    BY <1>0, <2>2, <2>3, ZenonT(30)
<1>4. \A d, e \in CPU : d # e /\ cproc'[d] # Null => cproc'[d] # cproc'[e]
  BY DEF IInv, Cpus
<1>5. QED
  BY <1>1, <1>2, <1>3, <1>4 DEF Cpus, Left

(* A process that a processor runs or leaves is no other processor's.      *)
LEMMA NextCpus == IInv /\ Step => Cpus'
<1> SUFFICES ASSUME IInv, Step PROVE Cpus'
  OBVIOUS
<1>0. /\ cpc \in [CPU -> {"loop", "scan", "run", "sched"}]
      /\ cproc \in [CPU -> Slot \cup {Null}]
      /\ scan \in [CPU -> 1 .. NPROC + 1] /\ state \in [Slot -> States]
  BY ZenonT(30) DEF IInv, TypeOK
<1>1. ASSUME NEW c \in CPU, SchedAcquire(c) PROVE Cpus'
  BY <1>1, <1>0 DEF SchedAcquire, IInv, Cpus, table, local, glob
<1>2. ASSUME NEW c \in CPU, NEW s \in Slot, Runs(c, s) PROVE Cpus'
  <2>1. ptlock = c /\ state[s] = "RUNNABLE"
    BY <1>2, ZenonT(30) DEF Runs, IInv, Lock, Holds, local, glob
  <2>2. \A d \in CPU \ {c} : cpc[d] # "sched" /\ cproc[d] # s
    <3>1. \A d \in CPU \ {c} : cpc[d] # "sched"
      BY <2>1, OneHolder, ZenonT(30) DEF Holds
    <3>2. QED
      BY <1>0, <2>1, <3>1 DEF IInv, Cpus, Slot, Null
  <2>3. /\ \A d \in CPU \ {c} : cpc'[d] = cpc[d] /\ cproc'[d] = cproc[d] /\ scan'[d] = scan[d]
        /\ cpc'[c] = "run" /\ cproc'[c] = s /\ scan'[c] = s
    BY <1>2, <1>0, ZenonT(30) DEF Runs, local, glob
  <2>4. state'[s] = "RUNNING" /\ \A t \in Slot \ {s} : state'[t] = state[t]
    BY <1>2, <1>0, ZenonT(30) DEF Runs, local, glob
  <2>5. \A d \in CPU \ {c} : cproc[d] = Null \/ (cpc[d] = "run" /\ cproc[d] \in Slot \ {s})
    BY <1>0, <2>2 DEF IInv, Cpus
  <2>6. cpc[c] = "scan"
    BY <1>2, ZenonT(30) DEF Runs, local, glob
  <2>7. \A d, e \in CPU : d # e /\ cproc'[d] # Null => cproc'[d] # cproc'[e]
    <3> SUFFICES ASSUME NEW d \in CPU, NEW e \in CPU, d # e, cproc'[d] # Null
                 PROVE  cproc'[d] # cproc'[e]
      BY ZenonT(30)
    <3>1. cproc[d] # Null => cproc[d] # cproc[e]
      BY ZenonT(30) DEF IInv, Cpus
    <3>2. CASE d = c
      BY <2>2, <2>3, <3>2, ZenonT(30)
    <3>3. CASE e = c
      BY <2>2, <2>3, <3>3, ZenonT(30)
    <3>4. CASE d # c /\ e # c
      BY <2>3, <3>1, <3>4, ZenonT(30)
    <3>5. QED
      BY <3>2, <3>3, <3>4, ZenonT(30)
  <2>8. s # Null
    BY DEF Slot, Null
  <2>9. ASSUME NEW d \in CPU
        PROVE  /\ cpc'[d] \in {"loop", "scan"} => cproc'[d] = Null
               /\ cpc'[d] \in {"run", "sched"} => cproc'[d] \in Slot /\ scan'[d] = cproc'[d]
               /\ cpc'[d] = "run" => state'[cproc'[d]] = "RUNNING"
               /\ cpc'[d] # "sched"
    <3>1. CASE d = c
      BY <2>3, <2>4, <3>1, ZenonT(30)
    <3>2. CASE d # c
      BY <2>2, <2>3, <2>4, <2>5, <2>8, <3>2 DEF IInv, Cpus
    <3>3. QED
      BY <3>1, <3>2
  <2>10. ASSUME NEW t \in Slot, state'[t] = "RUNNING"
         PROVE  \E d \in CPU : cpc'[d] = "run" /\ cproc'[d] = t
    <3>1. CASE t = s
      BY <2>3, <3>1, ZenonT(30)
    <3>2. CASE t # s
      <4>1. PICK d \in CPU : cpc[d] = "run" /\ cproc[d] = t
        BY <2>4, <2>10, <3>2, ZenonT(30) DEF IInv, Cpus
      <4>2. d # c
        BY <2>6, <4>1, ZenonT(30)
      <4>3. QED
        BY <2>3, <4>1, <4>2, ZenonT(30)
    <3>3. QED
      BY <3>1, <3>2, ZenonT(30)
  <2>11. QED
    BY <2>7, <2>9, <2>10, ZenonT(30) DEF Cpus
<1>3. ASSUME NEW c \in CPU, SchedRelease(c) PROVE Cpus'
  BY <1>3, <1>0 DEF SchedRelease, IInv, Cpus, table, local, glob
<1>4. ASSUME NEW c \in CPU, Swtch(c) PROVE Cpus'
  <2>1. /\ UNCHANGED state /\ cpc[c] = "sched"
        /\ cproc' = [cproc EXCEPT ![c] = Null] /\ cpc' = [cpc EXCEPT ![c] = "scan"]
        /\ scan' = [scan EXCEPT ![c] = NextScan(@)]
    BY <1>4, ZenonT(30) DEF Swtch, table, local, glob
  <2>2. QED
    BY <1>0, <2>1 DEF IInv, Cpus
<1>5. ASSUME NEW c \in CPU, Resume(c) PROVE Cpus'
  <2>1. UNCHANGED <<state, cpc, cproc, scan>>
    BY <1>5 DEF Resume, cpus, glob
  <2>2. QED
    BY <2>1, CpusFrame, ZenonT(30)
<1>6. ASSUME NEW c \in CPU, NEW p \in Slot, Yield(c, p) PROVE Cpus'
  <2>1. Running(c, p) /\ UNCHANGED <<cproc, scan>> /\ cpc' = [cpc EXCEPT ![c] = "sched"]
    BY <1>6, ZenonT(30) DEF Yield, glob
  <2>2. /\ state'[p] \in Left
        /\ \A t \in Slot \ {p} : \/ state'[t] = state[t]
                                 \/ state[t] = "SLEEPING" /\ state'[t] = "RUNNABLE"
    BY <1>6, <1>0, ZenonT(30) DEF Yield, Left, glob
  <2>3. QED
    BY <2>1, <2>2, CpusLeave, ZenonT(30) DEF Left
<1>7. ASSUME NEW c \in CPU, NEW p \in Slot, FindsNone(c, p) PROVE Cpus'
  <2>1. UNCHANGED <<state, cpc, cproc, scan>>
    BY <1>7, ZenonT(30) DEF FindsNone, table, cpus, glob
  <2>2. QED
    BY <2>1, CpusFrame, ZenonT(30)
<1>8. ASSUME NEW c \in CPU, NEW p \in Slot, NEW s \in Slot,
             NEW k \in {"fork_kstack", "clone_kstack"}, Claims(c, p, s, k)
      PROVE  Cpus'
  <2>1. UNCHANGED <<cpc, cproc, scan>> /\ state[s] = "UNUSED" /\ state'[s] = "EMBRYO"
    BY <1>8, <1>0, ZenonT(30) DEF Claims, cpus
  <2>2. \A t \in Slot \ {s} : state'[t] = state[t]
    BY <1>8, <1>0, ZenonT(30) DEF Claims, cpus
  <2>3. QED
    BY <2>1, <2>2, CpusFrame, ZenonT(30) DEF Left
<1>9. ASSUME NEW c \in CPU, NEW p \in Slot, Kstack(c, p) PROVE Cpus'
  <2>1. UNCHANGED <<state, cpc, cproc, scan>>
    BY <1>9, ZenonT(30) DEF Kstack, cpus
  <2>2. QED
    BY <2>1, CpusFrame
<1>10. ASSUME NEW c \in CPU, NEW p \in Slot, KstackFails(c, p) PROVE Cpus'
  <2>1. np[p] \in Slot /\ state[np[p]] = "EMBRYO"
    BY <1>10, Filling, ZenonT(30) DEF KstackFails, Creating
  <2>2. UNCHANGED <<cpc, cproc, scan>>
    BY <1>10, ZenonT(30) DEF KstackFails, cpus, glob
  <2>3. \A t \in Slot \ {np[p]} : state'[t] = state[t]
    BY <1>10, <1>0, <2>1, ZenonT(30) DEF KstackFails, cpus, glob
  <2>4. state'[np[p]] # "RUNNING"
    BY <1>10, <1>0, <2>1, ZenonT(30) DEF KstackFails, cpus, glob
  <2>5. QED
    BY <2>1, <2>2, <2>3, <2>4, CpusFrame, ZenonT(30) DEF Left
<1>11. ASSUME NEW c \in CPU, NEW p \in Slot, ForkCopy(c, p) PROVE Cpus'
  <2>1. UNCHANGED <<state, cpc, cproc, scan>>
    BY <1>11, ZenonT(30) DEF ForkCopy, cpus
  <2>2. QED
    BY <2>1, CpusFrame
<1>12. ASSUME NEW c \in CPU, NEW p \in Slot, ForkCopyFails(c, p)
      PROVE  Cpus'
  <2>1. np[p] \in Slot /\ state[np[p]] = "EMBRYO"
    BY <1>12, Filling DEF ForkCopyFails, Creating
  <2>2. UNCHANGED <<cpc, cproc, scan>>
    BY <1>12, ZenonT(30) DEF ForkCopyFails, cpus
  <2>3. \A t \in Slot \ {np[p]} : state'[t] = state[t]
    BY <1>12, <1>0, <2>1, ZenonT(30) DEF ForkCopyFails, cpus
  <2>4. state'[np[p]] # "RUNNING"
    BY <1>12, <1>0, <2>1, ZenonT(30) DEF ForkCopyFails, cpus
  <2>5. QED
    BY <2>1, <2>2, <2>3, <2>4, CpusFrame DEF Left
<1>13. ASSUME NEW c \in CPU, NEW p \in Slot, ForkRun(c, p) PROVE Cpus'
  <2>1. np[p] \in Slot /\ state[np[p]] = "EMBRYO"
    BY <1>13, Filling, ZenonT(30) DEF ForkRun, Creating
  <2>2. UNCHANGED <<cpc, cproc, scan>>
    BY <1>13, ZenonT(30) DEF ForkRun, cpus, glob
  <2>3. \A t \in Slot \ {np[p]} : state'[t] = state[t]
    BY <1>13, <1>0, <2>1, ZenonT(30) DEF ForkRun, cpus, glob
  <2>4. state'[np[p]] # "RUNNING"
    BY <1>13, <1>0, <2>1, ZenonT(30) DEF ForkRun, cpus, glob
  <2>5. QED
    BY <2>1, <2>2, <2>3, <2>4, CpusFrame DEF Left
<1>14. ASSUME NEW c \in CPU, NEW p \in Slot, CloneRead(c, p) PROVE Cpus'
  <2>1. UNCHANGED <<state, cpc, cproc, scan>>
    BY <1>14, ZenonT(30) DEF CloneRead, table, cpus, glob, Syscall
  <2>2. QED
    BY <2>1, CpusFrame
<1>15. ASSUME NEW c \in CPU, NEW p \in Slot, CloneAdd(c, p) PROVE Cpus'
  <2>1. UNCHANGED <<state, cpc, cproc, scan>>
    BY <1>15, ZenonT(30) DEF CloneAdd, table, cpus
  <2>2. QED
    BY <2>1, CpusFrame
<1>16. ASSUME NEW c \in CPU, NEW p \in Slot, CloneRun(c, p) PROVE Cpus'
  <2>1. np[p] \in Slot /\ state[np[p]] = "EMBRYO"
    BY <1>16, Filling, ZenonT(30) DEF CloneRun, Creating
  <2>2. UNCHANGED <<cpc, cproc, scan>>
    BY <1>16, ZenonT(30) DEF CloneRun, cpus, glob
  <2>3. \A t \in Slot \ {np[p]} : state'[t] = state[t]
    BY <1>16, <1>0, <2>1, ZenonT(30) DEF CloneRun, cpus, glob
  <2>4. state'[np[p]] # "RUNNING"
    BY <1>16, <1>0, <2>1, ZenonT(30) DEF CloneRun, cpus, glob
  <2>5. QED
    BY <2>1, <2>2, <2>3, <2>4, CpusFrame DEF Left
<1>17. ASSUME NEW c \in CPU, NEW p \in Slot, Close(c, p) PROVE Cpus'
  <2>1. UNCHANGED <<state, cpc, cproc, scan>>
    BY <1>17, ZenonT(30) DEF Close, cpus, local, Syscall
  <2>2. QED
    BY <2>1, CpusFrame
<1>18. ASSUME NEW c \in CPU, NEW p \in Slot, ExitFiles(c, p) PROVE Cpus'
  <2>1. UNCHANGED <<state, cpc, cproc, scan>>
    BY <1>18, ZenonT(30) DEF ExitFiles, cpus
  <2>2. QED
    BY <2>1, CpusFrame
<1>19. ASSUME NEW c \in CPU, NEW p \in Slot, ExitZombie(c, p) PROVE Cpus'
  <2>1. Running(c, p) /\ UNCHANGED <<cproc, scan>> /\ cpc' = [cpc EXCEPT ![c] = "sched"]
    BY <1>19, ZenonT(30) DEF ExitZombie, glob
  <2>2. /\ state'[p] \in Left
        /\ \A t \in Slot \ {p} : \/ state'[t] = state[t]
                                 \/ state[t] = "SLEEPING" /\ state'[t] = "RUNNABLE"
    BY <1>19, <1>0, ZenonT(30) DEF ExitZombie, Left, wakeup1, glob
  <2>3. QED
    BY <2>1, <2>2, CpusLeave, ZenonT(30) DEF Left
<1>20. ASSUME NEW c \in CPU, NEW p \in Slot, Wait(c, p) PROVE Cpus'
  <2>1. UNCHANGED <<state, cpc, cproc, scan>>
    BY <1>20, ZenonT(30) DEF Wait, table, cpus, glob, Syscall
  <2>2. QED
    BY <2>1, CpusFrame
<1>21. ASSUME NEW c \in CPU, NEW p \in Slot, NEW q \in Slot, Reaps(c, p, q)
      PROVE  Cpus'
  <2>1. UNCHANGED <<cpc, cproc, scan>> /\ cpc[c] = "run" /\ ptlock = c
    BY <1>21, Runner DEF Reaps, Scanning, cpus
  <2>2. \A t \in Slot : state'[t] = IF t = q THEN "UNUSED" ELSE state[t]
    BY <1>21, <1>0, ZenonT(30) DEF Reaps, cpus, Scanning
  <2>3. state[q] = "ZOMBIE"
    BY <1>21 DEF Reaps, cpus, Scanning
  <2>4. QED
    BY <2>1, <2>2, <2>3, CpusFrame, ZenonT(30)
<1>22. ASSUME NEW c \in CPU, NEW p \in Slot, NEW q \in Slot, FindsThread(c, p, q)
      PROVE  Cpus'
  <2>1. UNCHANGED <<state, cpc, cproc, scan>>
    BY <1>22 DEF FindsThread, table, cpus, glob, Scanning
  <2>2. QED
    BY <2>1, CpusFrame, ZenonT(30)
<1>23. ASSUME NEW c \in CPU, NEW p \in Slot, WaitDec(c, p) PROVE Cpus'
  <2>1. UNCHANGED <<cpc, cproc, scan>> /\ cpc[c] = "run" /\ ptlock = c
    BY <1>23, Runner, ZenonT(30) DEF WaitDec, cpus
  <2>2. np[p] \in Slot /\ state[np[p]] = "ZOMBIE"
    BY <1>23, WaitsFor, ZenonT(30) DEF WaitDec
  <2>3. \A t \in Slot : state'[t] = IF t = np[p] THEN "UNUSED" ELSE state[t]
    BY <1>23, <1>0, ZenonT(30) DEF WaitDec, cpus
  <2>4. QED
    BY <2>1, <2>2, <2>3, CpusFrame, ZenonT(30)
<1>24. ASSUME NEW c \in CPU, NEW p \in Slot, WaitFails(c, p) PROVE Cpus'
  <2>1. UNCHANGED <<state, cpc, cproc, scan>>
    BY <1>24 DEF WaitFails, table, cpus, glob, Scanning
  <2>2. QED
    BY <2>1, CpusFrame
<1>25. ASSUME NEW c \in CPU, NEW p \in Slot, WaitSleep(c, p) PROVE Cpus'
  <2>1. Running(c, p) /\ UNCHANGED <<cproc, scan>> /\ cpc' = [cpc EXCEPT ![c] = "sched"]
    BY <1>25, ZenonT(30) DEF WaitSleep, glob, Scanning
  <2>2. /\ state'[p] \in Left
        /\ \A t \in Slot \ {p} : \/ state'[t] = state[t]
                                 \/ state[t] = "SLEEPING" /\ state'[t] = "RUNNABLE"
    BY <1>25, <1>0, ZenonT(30) DEF WaitSleep, Left, glob, Scanning
  <2>3. QED
    BY <2>1, <2>2, CpusLeave, ZenonT(30) DEF Left
<1>26. ASSUME NEW c \in CPU, NEW p \in Slot, NEW v \in Slot, Kills(c, p, v)
      PROVE  Cpus'
  <2>1. UNCHANGED <<cpc, cproc, scan>>
    BY <1>26 DEF Kills, cpus, local, glob, Syscall
  <2>2. \A t \in Slot : state'[t] = state[t] \/ (state[t] = "SLEEPING" /\ state'[t] = "RUNNABLE")
    BY <1>26, <1>0, ZenonT(30) DEF Kills, KillWakes, cpus, local, glob, Syscall
  <2>3. QED
    BY <2>1, <2>2, CpusFrame, ZenonT(30) DEF Left
<1>27. CASE UNCHANGED vars
  BY <1>27, ZenonT(30) DEF vars, IInv, Cpus, table, cpus, local, glob
<1>28. QED
  BY <1>1, <1>2, <1>3, <1>4, <1>5, <1>6, <1>7, <1>8, <1>9, <1>10, <1>11, <1>12, <1>13,
     <1>14, <1>15, <1>16, <1>17, <1>18, <1>19, <1>20, <1>21, <1>22, <1>23, <1>24, <1>25,
     <1>26, <1>27, ZenonT(60)
     DEF Step, Moves

=============================================================================
