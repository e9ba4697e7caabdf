----------------------------- MODULE ProcSafety -----------------------------
(***************************************************************************)
(* Every step keeps the parts of the invariant of ProcProofs on saved      *)
(* contexts, on newborn slots, on parents, on processes asleep in wait()   *)
(* and on pages; every step of Next is one of those that the two modules   *)
(* consider; and the theorems.                                             *)
(***************************************************************************)
EXTENDS ProcProofs

(* A process that does not run has been switched away from.                *)
LEMMA NextContexts == IInv /\ Step => Contexts'
<1> SUFFICES ASSUME IInv, Step PROVE Contexts'
  BY ZenonT(30)
<1>0. /\ state \in [Slot -> States] /\ pc \in [Slot -> PCs]
      /\ ctx \in [Slot -> {"none", "release", "sleep"}]
      /\ chan \in [Slot -> Slot \cup {Null}]
  BY ZenonT(30) DEF IInv, TypeOK
<1>old. Contexts
  BY ZenonT(30) DEF IInv
<1>1. ASSUME NEW c \in CPU, SchedAcquire(c) PROVE Contexts'
  BY <1>1, <1>old, ZenonT(30) DEF SchedAcquire, Contexts, table, local, glob
<1>2. ASSUME NEW c \in CPU, NEW s \in Slot, Runs(c, s) PROVE Contexts'
  BY <1>2, <1>0, <1>old DEF Runs, Contexts, Live, local, glob
<1>3. ASSUME NEW c \in CPU, SchedRelease(c) PROVE Contexts'
  BY <1>3, <1>old, ZenonT(30) DEF SchedRelease, Contexts, table, local, glob
<1>4. ASSUME NEW c \in CPU, Swtch(c) PROVE Contexts'
  BY <1>4, <1>old, ZenonT(30) DEF Swtch, Contexts, table, local, glob
<1>5. ASSUME NEW c \in CPU, Resume(c) PROVE Contexts'
  <2>1. cproc[c] \in Slot /\ state[cproc[c]] = "RUNNING"
    BY <1>5, ZenonT(30) DEF Resume, IInv, Cpus, cpus, glob
  <2>2. \A t \in Slot : ctx'[t] = IF t = cproc[c] THEN "none" ELSE ctx[t]
    BY <1>5, <1>0, ZenonT(30) DEF Resume, cpus, glob
  <2>3. \A t \in Slot \ {cproc[c]} : chan'[t] = chan[t]
    BY <1>5, <1>0, ZenonT(30) DEF Resume, cpus, glob
  <2>4. state' = state /\ pc' = pc
    BY <1>5, ZenonT(30) DEF Resume, cpus, glob
  <2>5. QED
    BY <1>old, <2>1, <2>2, <2>3, <2>4 DEF Contexts
<1>6. ASSUME NEW c \in CPU, NEW p \in Slot, Yield(c, p) PROVE Contexts'
  <2>1. state[p] = "RUNNING" /\ pc[p] \notin {"wait_scan", "wait_dec"}
    BY <1>6, Runner, ProcAssumption, ZenonT(30) DEF Yield, glob
  <2>2. QED
    BY <1>6, <1>0, <1>old, <2>1 DEF Yield, Contexts, Live, glob
<1>7. ASSUME NEW c \in CPU, NEW p \in Slot, FindsNone(c, p)
      PROVE  Contexts'
  BY <1>7, <1>0, <1>old, Runner DEF FindsNone, Contexts, Live, table, cpus, glob
<1>8. ASSUME NEW c \in CPU, NEW p \in Slot, NEW s \in Slot,
             NEW k \in {"fork_kstack", "clone_kstack"}, Claims(c, p, s, k)
      PROVE  Contexts'
  BY <1>8, <1>0, <1>old, Runner DEF Claims, Contexts, Live, cpus
<1>9. ASSUME NEW c \in CPU, NEW p \in Slot, Kstack(c, p) PROVE Contexts'
  <2>1. /\ np[p] \in Slot /\ state[np[p]] = "EMBRYO" /\ state[p] = "RUNNING"
        /\ ctx[p] = "none"
    BY <1>9, Runner, Filling, ZenonT(30) DEF Kstack, Creating
  <2>2. UNCHANGED <<chan, state>>
    BY <1>9, ZenonT(30) DEF Kstack, cpus
  <2>3. \A t \in Slot : ctx'[t] = IF t = np[p] THEN "release" ELSE ctx[t]
    BY <1>9, <1>0, ZenonT(30) DEF Kstack, cpus
  <2>4. /\ pc'[np[p]] = "user" /\ pc'[p] \notin {"none", "wait_scan", "wait_dec"}
        /\ \A t \in Slot \ {p, np[p]} : pc'[t] = pc[t]
    BY <1>9, <1>0, <2>1, ZenonT(30) DEF Kstack, cpus
  <2>5. QED
    BY <1>old, <2>1, <2>2, <2>3, <2>4 DEF Contexts, Live
<1>10. ASSUME NEW c \in CPU, NEW p \in Slot, KstackFails(c, p)
      PROVE  Contexts'
  <2>1. /\ np[p] \in Slot /\ state[np[p]] = "EMBRYO" /\ state[p] = "RUNNING"
        /\ ctx[p] = "none" /\ pc[np[p]] = "none"
    BY <1>10, Runner, Filling, ZenonT(30) DEF KstackFails, Creating
  <2>2. UNCHANGED <<chan, ctx>>
    BY <1>10 DEF KstackFails, cpus, glob
  <2>3. \A t \in Slot : state'[t] = IF t = np[p] THEN "UNUSED" ELSE state[t]
    BY <1>10, <1>0, ZenonT(30) DEF KstackFails, cpus, glob
  <2>4. \A t \in Slot : pc'[t] = IF t = p THEN "user" ELSE pc[t]
    BY <1>10, <1>0, ZenonT(30) DEF KstackFails, cpus, glob
  <2>5. QED
    BY <1>old, <2>1, <2>2, <2>3, <2>4 DEF Contexts, Live
<1>11. ASSUME NEW c \in CPU, NEW p \in Slot, ForkCopy(c, p) PROVE Contexts'
  BY <1>11, <1>0, <1>old, Runner DEF ForkCopy, Contexts, Live, cpus
<1>12. ASSUME NEW c \in CPU, NEW p \in Slot, ForkCopyFails(c, p)
      PROVE  Contexts'
  <2>1. /\ np[p] \in Slot /\ state[np[p]] = "EMBRYO" /\ state[p] = "RUNNING"
        /\ ctx[p] = "none"
    BY <1>12, Runner, Filling, ZenonT(30) DEF ForkCopyFails, Creating
  <2>2. UNCHANGED chan /\ \A t \in Slot : state'[t] = IF t = np[p] THEN "UNUSED" ELSE state[t]
    BY <1>12, <1>0, ZenonT(30) DEF ForkCopyFails, cpus
  <2>3. \A t \in Slot : ctx'[t] = IF t = np[p] THEN "none" ELSE ctx[t]
    BY <1>12, <1>0, ZenonT(30) DEF ForkCopyFails, cpus
  <2>4. /\ pc'[np[p]] = "none" /\ pc'[p] = "user"
        /\ \A t \in Slot \ {p, np[p]} : pc'[t] = pc[t]
    BY <1>12, <1>0, <2>1, ZenonT(30) DEF ForkCopyFails, cpus
  <2>5. QED
    BY <1>old, <2>1, <2>2, <2>3, <2>4 DEF Contexts, Live
<1>13. ASSUME NEW c \in CPU, NEW p \in Slot, ForkRun(c, p) PROVE Contexts'
  <2>1. /\ np[p] \in Slot /\ state[np[p]] = "EMBRYO" /\ state[p] = "RUNNING"
        /\ ctx[p] = "none" /\ ctx[np[p]] = "release"
    BY <1>13, Runner, Filling, ZenonT(30) DEF ForkRun, Creating
  <2>2. UNCHANGED <<chan, ctx>>
    BY <1>13 DEF ForkRun, cpus, glob
  <2>3. \A t \in Slot : state'[t] = IF t = np[p] THEN "RUNNABLE" ELSE state[t]
    BY <1>13, <1>0, ZenonT(30) DEF ForkRun, cpus, glob
  <2>4. \A t \in Slot : pc'[t] = IF t = p THEN "user" ELSE pc[t]
    BY <1>13, <1>0, ZenonT(30) DEF ForkRun, cpus, glob
  <2>5. QED
    BY <1>old, <2>1, <2>2, <2>3, <2>4 DEF Contexts, Live
<1>14. ASSUME NEW c \in CPU, NEW p \in Slot, CloneRead(c, p)
      PROVE  Contexts'
  BY <1>14, <1>0, <1>old, Runner DEF CloneRead, Contexts, Live, table, cpus, glob, Syscall
<1>15. ASSUME NEW c \in CPU, NEW p \in Slot, CloneAdd(c, p) PROVE Contexts'
  BY <1>15, <1>0, <1>old, Runner DEF CloneAdd, Contexts, Live, table, cpus
<1>16. ASSUME NEW c \in CPU, NEW p \in Slot, CloneRun(c, p) PROVE Contexts'
  <2>1. /\ np[p] \in Slot /\ state[np[p]] = "EMBRYO" /\ state[p] = "RUNNING"
        /\ ctx[p] = "none" /\ ctx[np[p]] = "release"
    BY <1>16, Runner, Filling, ZenonT(30) DEF CloneRun, Creating
  <2>2. UNCHANGED <<chan, ctx>>
    BY <1>16, ZenonT(30) DEF CloneRun, cpus, glob
  <2>3. \A t \in Slot : state'[t] = IF t = np[p] THEN "RUNNABLE" ELSE state[t]
    BY <1>16, <1>0, ZenonT(30) DEF CloneRun, cpus, glob
  <2>4. \A t \in Slot : pc'[t] = IF t = p THEN "user" ELSE pc[t]
    BY <1>16, <1>0, ZenonT(30) DEF CloneRun, cpus, glob
  <2>5. QED
    BY <1>old, <2>1, <2>2, <2>3, <2>4 DEF Contexts, Live
<1>17. ASSUME NEW c \in CPU, NEW p \in Slot, Close(c, p) PROVE Contexts'
  BY <1>17, <1>0, <1>old, Runner, ZenonT(30) DEF Close, Contexts, Live, cpus, local, Syscall
<1>18. ASSUME NEW c \in CPU, NEW p \in Slot, ExitFiles(c, p)
      PROVE  Contexts'
  BY <1>18, <1>0, <1>old, Runner DEF ExitFiles, Contexts, Live, cpus
<1>19. ASSUME NEW c \in CPU, NEW p \in Slot, ExitZombie(c, p)
      PROVE  Contexts'
  <2>1. state[p] = "RUNNING" /\ ctx[p] = "none"
    BY <1>19, Runner, ZenonT(30) DEF ExitZombie, glob
  <2>2. UNCHANGED <<chan, ctx>> /\ \A t \in Slot : pc'[t] = IF t = p THEN "none" ELSE pc[t]
    BY <1>19, <1>0, ZenonT(30) DEF ExitZombie, glob
  <2>3. /\ state'[p] = "ZOMBIE"
        /\ \A t \in Slot \ {p} : \/ state'[t] = state[t]
                                 \/ state[t] = "SLEEPING" /\ state'[t] = "RUNNABLE"
    BY <1>19, <1>0, ZenonT(30) DEF ExitZombie, wakeup1, glob
  <2>4. QED
    BY <1>old, <2>1, <2>2, <2>3 DEF Contexts, Live
<1>20. ASSUME NEW c \in CPU, NEW p \in Slot, Wait(c, p) PROVE Contexts'
  BY <1>20, <1>0, <1>old, Runner DEF Wait, Contexts, Live, table, cpus, glob, Syscall
<1>21. ASSUME NEW c \in CPU, NEW p \in Slot, NEW q \in Slot, Reaps(c, p, q)
      PROVE  Contexts'
  BY <1>21, <1>0, <1>old, Runner DEF Reaps, Contexts, Live, cpus, Scanning
<1>22. ASSUME NEW c \in CPU, NEW p \in Slot, NEW q \in Slot, FindsThread(c, p, q)
      PROVE  Contexts'
  BY <1>22, <1>0, <1>old, Runner DEF FindsThread, Contexts, Live, table, cpus, glob, Scanning
<1>23. ASSUME NEW c \in CPU, NEW p \in Slot, WaitDec(c, p) PROVE Contexts'
  <2>1. /\ np[p] \in Slot /\ state[np[p]] = "ZOMBIE" /\ state[p] = "RUNNING"
        /\ ctx[p] = "none"
    BY <1>23, Runner, WaitsFor, ZenonT(30) DEF WaitDec
  <2>2. UNCHANGED <<chan, ctx>>
    BY <1>23 DEF WaitDec, cpus
  <2>3. \A t \in Slot : state'[t] = IF t = np[p] THEN "UNUSED" ELSE state[t]
    BY <1>23, <1>0, ZenonT(30) DEF WaitDec, cpus
  <2>4. \A t \in Slot : pc'[t] = IF t = p THEN "user" ELSE pc[t]
    BY <1>23, <1>0, ZenonT(30) DEF WaitDec, cpus
  <2>5. QED
    BY <1>old, <2>1, <2>2, <2>3, <2>4 DEF Contexts, Live
<1>24. ASSUME NEW c \in CPU, NEW p \in Slot, WaitFails(c, p)
      PROVE  Contexts'
  BY <1>24, <1>0, <1>old, Runner DEF WaitFails, Contexts, Live, table, cpus, glob, Scanning
<1>25. ASSUME NEW c \in CPU, NEW p \in Slot, WaitSleep(c, p)
      PROVE  Contexts'
  BY <1>25, <1>0, <1>old, Runner DEF WaitSleep, Contexts, Live, glob, Scanning
<1>26. ASSUME NEW c \in CPU, NEW p \in Slot, NEW v \in Slot, Kills(c, p, v)
      PROVE  Contexts'
  <2>1. UNCHANGED <<chan, ctx, pc>>
    BY <1>26, ZenonT(30) DEF Kills, cpus, local, glob, Syscall
  <2>2. \A t \in Slot : state'[t] = state[t] \/ (state[t] = "SLEEPING" /\ state'[t] = "RUNNABLE")
    BY <1>26, <1>0, ZenonT(30) DEF Kills, KillWakes, cpus, local, glob, Syscall
  <2>3. QED
    BY <1>old, <2>1, <2>2 DEF Contexts, Live
<1>27. CASE UNCHANGED vars
  BY <1>27, <1>old, ZenonT(30) DEF vars, Contexts, table, cpus, local, glob
<1>28. QED
  BY <1>1, <1>2, <1>3, <1>4, <1>5, <1>6, <1>7, <1>8, <1>9, <1>10, <1>11, <1>12, <1>13,
     <1>14, <1>15, <1>16, <1>17, <1>18, <1>19, <1>20, <1>21, <1>22, <1>23, <1>24, <1>25,
     <1>26, <1>27, ZenonT(60)
     DEF Step, Moves

(* A process between numofthread-- and the release holds ptable.lock.      *)
LEMMA DecHolds ==
  ASSUME IInv, NEW s \in Slot, pc[s] = "wait_dec"
  PROVE  \E c \in CPU : Running(c, s) /\ ptlock = c
<1>1. state[s] \in Live /\ ctx[s] = "none"
  BY ZenonT(30) DEF IInv, Contexts, TypeOK
<1>2. state[s] = "RUNNING"
  BY <1>1, ZenonT(30) DEF IInv, Contexts, Live
<1>3. PICK c \in CPU : cpc[c] = "run" /\ cproc[c] = s
  BY <1>2, ZenonT(30) DEF IInv, Cpus
<1>4. Running(c, s)
  BY <1>1, <1>3, ZenonT(30) DEF Running
<1>5. QED
  BY <1>4, Runner, ZenonT(30)

(* While one process is in the loop of wait(), no other one is there.      *)
LEMMA DecAlone ==
  ASSUME IInv, NEW c \in CPU, NEW p \in Slot, Running(c, p), ptlock \in {c, NoCpu},
         NEW s \in Slot, pc[s] = "wait_dec"
  PROVE  s = p
<1>1. PICK d \in CPU : Running(d, s) /\ ptlock = d
  BY DecHolds, ZenonT(30)
<1>2. d = c
  BY <1>1, ProcAssumption, ZenonT(30)
<1>3. QED
  BY <1>1, <1>2, ZenonT(30) DEF Running

(* The slots being filled stay what they are when a step gives up or       *)
(* completes at most slot e, and leaves the others alone.                  *)
LEMMA NewbornsFrame ==
  ASSUME IInv, NEW e \in Slot \cup {Null},
         \A t \in Slot :
           \/ pc'[t] = pc[t] /\ np'[t] = np[t]
           \/ (t = e \/ state[t] = "RUNNING") /\ pc'[t] \notin Creating \cup {"wait_dec"},
         \A t \in Slot \ {e} : state[t] = "EMBRYO" =>
           /\ state'[t] = "EMBRYO" /\ ctx'[t] = ctx[t] /\ kstack'[t] = kstack[t]
           /\ parent'[t] = parent[t] \/ pc'[parent[t]] # "fork_run",
         \A t \in Slot : pc'[t] \in Creating => np[t] # e,
         \A t \in Slot : pc'[t] = "wait_dec" => state'[np[t]] = state[np[t]]
  PROVE  Newborns'
<1>0. Newborns
  BY ZenonT(30) DEF IInv
<1>1. ASSUME NEW q \in Slot, pc'[q] \in Creating
      PROVE  /\ pc[q] = pc'[q] /\ np'[q] = np[q] /\ np[q] \in Slot \ {e}
             /\ state[np[q]] = "EMBRYO" /\ state'[np[q]] = "EMBRYO"
             /\ pc'[np[q]] = pc[np[q]] /\ ctx'[np[q]] = ctx[np[q]]
             /\ kstack'[np[q]] = kstack[np[q]]
             /\ parent'[np[q]] = parent[np[q]] \/ pc'[parent[np[q]]] # "fork_run"
  <2>1. pc[q] = pc'[q] /\ np'[q] = np[q] /\ np[q] \in Slot \ {e} /\ state[np[q]] = "EMBRYO"
    BY <1>0, <1>1, ZenonT(30) DEF Newborns
  <2>2. pc'[np[q]] = pc[np[q]]
    BY <2>1, ZenonT(30)
  <2>3. QED
    BY <2>1, <2>2, ZenonT(30)
<1>2. ASSUME NEW q \in Slot, pc'[q] \in Creating
      PROVE  /\ np'[q] \in Slot /\ state'[np'[q]] = "EMBRYO"
             /\ \A r \in Slot \ {q} : pc'[r] \in Creating => np'[r] # np'[q]
  BY <1>0, <1>1, <1>2 DEF Newborns
<1>3. ASSUME NEW q \in Slot, pc'[q] \in {"fork_kstack", "clone_kstack"}
      PROVE  pc'[np'[q]] = "none"
  BY <1>0, <1>1, <1>3 DEF Newborns, Creating
<1>4. ASSUME NEW q \in Slot, pc'[q] \in {"fork_copyuvm", "fork_run", "clone_run"}
      PROVE  pc'[np'[q]] = "user" /\ ctx'[np'[q]] = "release" /\ kstack'[np'[q]] # NoPage
  BY <1>0, <1>1, <1>4 DEF Newborns, Creating
<1>5. ASSUME NEW q \in Slot, pc'[q] = "fork_run" PROVE parent'[np'[q]] = q
  BY <1>0, <1>1, <1>5 DEF Newborns, Creating
<1>6. ASSUME NEW q \in Slot, pc'[q] = "wait_dec"
      PROVE  np'[q] \in Slot /\ state'[np'[q]] = "ZOMBIE"
  BY <1>0, <1>6 DEF Newborns
<1>7. QED
  BY <1>2, <1>3, <1>4, <1>5, <1>6, ZenonT(30) DEF Newborns

(* The same for a step that gives up and completes none.                   *)
LEMMA NewbornsKept ==
  ASSUME IInv,
         \A t \in Slot :
           \/ pc'[t] = pc[t] /\ np'[t] = np[t]
           \/ state[t] = "RUNNING" /\ pc'[t] \notin Creating \cup {"wait_dec"},
         \A t \in Slot : state[t] = "EMBRYO" =>
           /\ state'[t] = "EMBRYO" /\ ctx'[t] = ctx[t] /\ kstack'[t] = kstack[t]
           /\ parent'[t] = parent[t] \/ pc'[parent[t]] # "fork_run",
         \A t \in Slot : pc'[t] = "wait_dec" => state'[np[t]] = state[np[t]]
  PROVE  Newborns'
<1>1. \A t \in Slot : pc'[t] \in Creating => np[t] # Null
  <2>1. Null \notin Slot
    BY DEF Slot, Null
  <2>2. QED
    BY <2>1, ZenonT(30) DEF IInv, Newborns
<1>2. \E e \in Slot \cup {Null} : e = Null
  OBVIOUS
<1>3. QED
  BY <1>1, <1>2, NewbornsFrame, ZenonT(30)

(* A slot that fork() or clone() fills is nobody else's until it is ready. *)
LEMMA NextNewborns == IInv /\ Step => Newborns'
<1> SUFFICES ASSUME IInv, Step PROVE Newborns'
  OBVIOUS
<1>0. /\ state \in [Slot -> States] /\ pc \in [Slot -> PCs]
      /\ ctx \in [Slot -> {"none", "release", "sleep"}]
      /\ np \in [Slot -> Slot \cup {Null}] /\ parent \in [Slot -> Slot \cup {Null}]
      /\ kstack \in [Slot -> Page \cup {NoPage}]
  BY DEF IInv, TypeOK
<1>old. Newborns
  BY DEF IInv
<1>1. ASSUME NEW c \in CPU, SchedAcquire(c) PROVE Newborns'
  <2>1. UNCHANGED <<state, parent, ctx, pc, np, kstack>>
    BY <1>1 DEF SchedAcquire, table, local, glob
  <2>2. QED
    BY <1>old, <2>1, ZenonT(30) DEF Newborns
<1>2. ASSUME NEW c \in CPU, NEW s \in Slot, Runs(c, s) PROVE Newborns'
  <2>1. UNCHANGED <<parent, ctx, pc, np, kstack>> /\ state[s] = "RUNNABLE"
        /\ \A t \in Slot \ {s} : state'[t] = state[t]
    BY <1>2, <1>0, ZenonT(30) DEF Runs, local, glob
  <2>2. QED
    BY <1>old, <2>1, ZenonT(30) DEF Newborns
<1>3. ASSUME NEW c \in CPU, SchedRelease(c) PROVE Newborns'
  <2>1. UNCHANGED <<state, parent, ctx, pc, np, kstack>>
    BY <1>3, ZenonT(30) DEF SchedRelease, table, local, glob
  <2>2. QED
    BY <1>old, <2>1 DEF Newborns
<1>4. ASSUME NEW c \in CPU, Swtch(c) PROVE Newborns'
  <2>1. UNCHANGED <<state, parent, ctx, pc, np, kstack>>
    BY <1>4, ZenonT(30) DEF Swtch, table, local, glob
  <2>2. QED
    BY <1>old, <2>1 DEF Newborns
<1>5. ASSUME NEW c \in CPU, Resume(c) PROVE Newborns'
  <2>1. cproc[c] \in Slot /\ state[cproc[c]] = "RUNNING"
    BY <1>5 DEF Resume, IInv, Cpus, cpus, glob
  <2>2. UNCHANGED <<state, parent, pc, np, kstack>>
        /\ \A t \in Slot \ {cproc[c]} : ctx'[t] = ctx[t]
    BY <1>5, <1>0, ZenonT(30) DEF Resume, cpus, glob
  <2>3. QED
    BY <1>old, <2>1, <2>2 DEF Newborns, Creating
<1>6. ASSUME NEW c \in CPU, NEW p \in Slot, Yield(c, p) PROVE Newborns'
  <2>1. state[p] = "RUNNING"
    BY <1>6, Runner, ZenonT(30) DEF Yield, glob
  <2>2. UNCHANGED <<parent, pc, np, kstack>>
        /\ \A t \in Slot \ {p} : ctx'[t] = ctx[t] /\ state'[t] = state[t]
    BY <1>6, <1>0, ZenonT(30) DEF Yield, glob
  <2>3. QED
    BY <1>old, <2>1, <2>2 DEF Newborns, Creating
<1>7. ASSUME NEW c \in CPU, NEW p \in Slot, FindsNone(c, p)
      PROVE  Newborns'
  <2>1. state[p] = "RUNNING"
    BY <1>7, Runner, ZenonT(30) DEF FindsNone, table, cpus, glob
  <2>2. UNCHANGED <<parent, ctx, kstack>> /\ state' = state
    BY <1>7, ZenonT(30) DEF FindsNone, table, cpus, glob
  <2>3. /\ pc'[p] = "user"
        /\ \A t \in Slot \ {p} : pc'[t] = pc[t] /\ np'[t] = np[t]
    BY <1>7, <1>0, ZenonT(30) DEF FindsNone, table, cpus, glob
  <2>4. QED
    BY <2>1, <2>2, <2>3, NewbornsKept, ZenonT(30) DEF Creating
<1>8. ASSUME NEW c \in CPU, NEW p \in Slot, NEW s \in Slot,
             NEW k \in {"fork_kstack", "clone_kstack"}, Claims(c, p, s, k)
      PROVE  Newborns'
  <2>1. state[p] = "RUNNING" /\ state[s] = "UNUSED" /\ pc[s] = "none"
    BY <1>8, Runner, ZenonT(30) DEF Claims, IInv, Contexts, cpus
  <2>2. /\ UNCHANGED <<parent, ctx, kstack>>
        /\ \A t \in Slot : state'[t] = IF t = s THEN "EMBRYO" ELSE state[t]
    BY <1>8, <1>0, ZenonT(30) DEF Claims, cpus
  <2>3. /\ \A t \in Slot : pc'[t] = IF t = p THEN k ELSE pc[t]
        /\ \A t \in Slot : np'[t] = IF t = p THEN s ELSE np[t]
    BY <1>8, <1>0, ZenonT(30) DEF Claims, cpus
  <2>4. QED
    BY <1>old, <2>1, <2>2, <2>3 DEF Newborns, Creating
<1>9. ASSUME NEW c \in CPU, NEW p \in Slot, Kstack(c, p) PROVE Newborns'
  <2>1. /\ np[p] \in Slot /\ state[np[p]] = "EMBRYO" /\ state[p] = "RUNNING"
        /\ pc[p] \in {"fork_kstack", "clone_kstack"}
    BY <1>9, <1>old, Runner, ZenonT(30) DEF Kstack, Newborns, Creating, cpus
  <2>2. UNCHANGED <<state, parent, np>> /\ kstack'[np[p]] # NoPage
    <3>1. Head(free) \in Page
      BY <1>9 DEF Kstack, IInv, TypeOK, cpus
    <3>2. QED
      BY <1>9, <1>0, <2>1, <3>1 DEF Kstack, Page, NoPage, cpus
  <2>3. /\ \A t \in Slot \ {p, np[p]} : pc'[t] = pc[t]
        /\ pc'[p] \in {"fork_copyuvm", "clone_run"} /\ pc'[np[p]] = "user"
    BY <1>9, <1>0, <2>1, ZenonT(30) DEF Kstack, cpus
  <2>4. /\ \A t \in Slot : ctx'[t] = IF t = np[p] THEN "release" ELSE ctx[t]
        /\ \A t \in Slot \ {np[p]} : kstack'[t] = kstack[t]
    BY <1>9, <1>0, ZenonT(30) DEF Kstack, cpus
  <2>5. QED
    BY <1>old, <2>1, <2>2, <2>3, <2>4 DEF Newborns, Creating
<1>10. ASSUME NEW c \in CPU, NEW p \in Slot, KstackFails(c, p)
      PROVE  Newborns'
  <2>1. np[p] \in Slot /\ state[np[p]] = "EMBRYO" /\ state[p] = "RUNNING" /\ pc[p] \in Creating
    BY <1>10, <1>old, Runner, ZenonT(30) DEF KstackFails, Newborns, Creating, cpus, glob
  <2>2. \A t \in Slot \ {np[p]} : /\ state'[t] = state[t] /\ ctx'[t] = ctx[t]
                                 /\ kstack'[t] = kstack[t] /\ parent'[t] = parent[t]
    BY <1>10, <1>0, ZenonT(30) DEF KstackFails, cpus, glob
  <2>3. /\ pc'[p] = "user" /\ pc'[np[p]] \in {"none", "user"}
        /\ \A t \in Slot \ {p, np[p]} : pc'[t] = pc[t] /\ np'[t] = np[t]
    BY <1>10, <1>0, <1>old, <2>1, ZenonT(30) DEF KstackFails, Newborns, cpus, glob
  <2>4. \A t \in Slot : pc'[t] \in Creating => np[t] # np[p]
    BY <1>old, <2>1, <2>3, ZenonT(30) DEF Newborns, Creating
  <2>5. \A t \in Slot : pc'[t] = "wait_dec" => np[t] \in Slot /\ np[t] # np[p]
    BY <1>old, <2>1, <2>3, ZenonT(30) DEF Newborns
  <2>6. QED
    BY <2>1, <2>2, <2>3, <2>4, <2>5, NewbornsFrame DEF Creating
<1>11. ASSUME NEW c \in CPU, NEW p \in Slot, ForkCopy(c, p) PROVE Newborns'
  <2>1. /\ np[p] \in Slot /\ state[np[p]] = "EMBRYO" /\ state[p] = "RUNNING"
        /\ pc[p] = "fork_copyuvm"
    BY <1>11, <1>old, Runner, ZenonT(30) DEF ForkCopy, Newborns, Creating, cpus
  <2>2. UNCHANGED <<state, ctx, kstack, np>>
    BY <1>11, ZenonT(30) DEF ForkCopy, cpus
  <2>3. /\ \A t \in Slot : pc'[t] = IF t = p THEN "fork_run" ELSE pc[t]
        /\ \A t \in Slot : parent'[t] = IF t = np[p] THEN p ELSE parent[t]
    BY <1>11, <1>0, ZenonT(30) DEF ForkCopy, cpus
  <2>4. QED
    BY <1>old, <2>1, <2>2, <2>3 DEF Newborns, Creating
<1>12. ASSUME NEW c \in CPU, NEW p \in Slot, ForkCopyFails(c, p)
      PROVE  Newborns'
  <2>1. np[p] \in Slot /\ state[np[p]] = "EMBRYO" /\ state[p] = "RUNNING" /\ pc[p] \in Creating
    BY <1>12, <1>old, Runner, ZenonT(30) DEF ForkCopyFails, Newborns, Creating, cpus
  <2>2. \A t \in Slot \ {np[p]} : /\ state'[t] = state[t] /\ ctx'[t] = ctx[t]
                                 /\ kstack'[t] = kstack[t] /\ parent'[t] = parent[t]
    BY <1>12, <1>0, ZenonT(30) DEF ForkCopyFails, cpus
  <2>3. /\ pc'[p] = "user" /\ pc'[np[p]] \in {"none", "user"}
        /\ \A t \in Slot \ {p, np[p]} : pc'[t] = pc[t] /\ np'[t] = np[t]
    BY <1>12, <1>0, <1>old, <2>1, ZenonT(30) DEF ForkCopyFails, Newborns, cpus
  <2>4. \A t \in Slot : pc'[t] \in Creating => np[t] # np[p]
    BY <1>old, <2>1, <2>3 DEF Newborns, Creating
  <2>5. \A t \in Slot : pc'[t] = "wait_dec" => np[t] \in Slot /\ np[t] # np[p]
    BY <1>old, <2>1, <2>3 DEF Newborns
  <2>6. QED
    BY <2>1, <2>2, <2>3, <2>4, <2>5, NewbornsFrame DEF Creating
<1>13. ASSUME NEW c \in CPU, NEW p \in Slot, ForkRun(c, p) PROVE Newborns'
  <2>1. np[p] \in Slot /\ state[np[p]] = "EMBRYO" /\ state[p] = "RUNNING" /\ pc[p] \in Creating
    BY <1>13, <1>old, Runner, ZenonT(30) DEF ForkRun, Newborns, Creating, cpus, glob
  <2>2. \A t \in Slot \ {np[p]} : /\ state'[t] = state[t] /\ ctx'[t] = ctx[t]
                                 /\ kstack'[t] = kstack[t] /\ parent'[t] = parent[t]
    BY <1>13, <1>0, ZenonT(30) DEF ForkRun, cpus, glob
  <2>3. /\ pc'[p] = "user" /\ pc'[np[p]] \in {"none", "user"}
        /\ \A t \in Slot \ {p, np[p]} : pc'[t] = pc[t] /\ np'[t] = np[t]
    BY <1>13, <1>0, <1>old, <2>1, ZenonT(30) DEF ForkRun, Newborns, cpus, glob
  <2>4. \A t \in Slot : pc'[t] \in Creating => np[t] # np[p]
    BY <1>old, <2>1, <2>3 DEF Newborns, Creating
  <2>5. \A t \in Slot : pc'[t] = "wait_dec" => np[t] \in Slot /\ np[t] # np[p]
    BY <1>old, <2>1, <2>3 DEF Newborns
  <2>6. QED
    BY <2>1, <2>2, <2>3, <2>4, <2>5, NewbornsFrame DEF Creating
<1>14. ASSUME NEW c \in CPU, NEW p \in Slot, CloneRead(c, p)
      PROVE  Newborns'
  <2>1. state[p] = "RUNNING"
    BY <1>14, Runner, ZenonT(30) DEF CloneRead, table, cpus, glob, Syscall
  <2>2. UNCHANGED <<parent, ctx, kstack>> /\ state' = state
    BY <1>14 DEF CloneRead, table, cpus, glob, Syscall
  <2>3. /\ pc'[p] = "clone_add"
        /\ \A t \in Slot \ {p} : pc'[t] = pc[t] /\ np'[t] = np[t]
    BY <1>14, <1>0, ZenonT(30) DEF CloneRead, table, cpus, glob, Syscall
  <2>4. QED
    BY <2>1, <2>2, <2>3, NewbornsKept, ZenonT(30) DEF Creating
<1>15. ASSUME NEW c \in CPU, NEW p \in Slot, CloneAdd(c, p) PROVE Newborns'
  <2>1. state[p] = "RUNNING"
    BY <1>15, Runner, ZenonT(30) DEF CloneAdd, table, cpus
  <2>2. UNCHANGED <<parent, ctx, kstack>> /\ state' = state
    BY <1>15, ZenonT(30) DEF CloneAdd, table, cpus
  <2>3. /\ pc'[p] = "clone_alloc"
        /\ \A t \in Slot \ {p} : pc'[t] = pc[t] /\ np'[t] = np[t]
    BY <1>15, <1>0, ZenonT(30) DEF CloneAdd, table, cpus
  <2>4. QED
    BY <2>1, <2>2, <2>3, NewbornsKept, ZenonT(30) DEF Creating
<1>16. ASSUME NEW c \in CPU, NEW p \in Slot, CloneRun(c, p) PROVE Newborns'
  <2>1. np[p] \in Slot /\ state[np[p]] = "EMBRYO" /\ state[p] = "RUNNING" /\ pc[p] \in Creating
    BY <1>16, <1>old, Runner, ZenonT(30) DEF CloneRun, Newborns, Creating, cpus, glob
  <2>2. \A t \in Slot \ {np[p]} : /\ state'[t] = state[t] /\ ctx'[t] = ctx[t]
                                 /\ kstack'[t] = kstack[t] /\ parent'[t] = parent[t]
    BY <1>16, <1>0, ZenonT(30) DEF CloneRun, cpus, glob
  <2>3. /\ pc'[p] = "user" /\ pc'[np[p]] \in {"none", "user"}
        /\ \A t \in Slot \ {p, np[p]} : pc'[t] = pc[t] /\ np'[t] = np[t]
    BY <1>16, <1>0, <1>old, <2>1, ZenonT(30) DEF CloneRun, Newborns, cpus, glob
  <2>4. \A t \in Slot : pc'[t] \in Creating => np[t] # np[p]
    BY <1>old, <2>1, <2>3 DEF Newborns, Creating
  <2>5. \A t \in Slot : pc'[t] = "wait_dec" => np[t] \in Slot /\ np[t] # np[p]
    BY <1>old, <2>1, <2>3 DEF Newborns
  <2>6. QED
    BY <2>1, <2>2, <2>3, <2>4, <2>5, NewbornsFrame DEF Creating
<1>17. ASSUME NEW c \in CPU, NEW p \in Slot, Close(c, p) PROVE Newborns'
  <2>1. UNCHANGED <<state, parent, ctx, pc, np, kstack>>
    BY <1>17, ZenonT(30) DEF Close, cpus, local, Syscall
  <2>2. QED
    BY <1>old, <2>1, ZenonT(30) DEF Newborns
<1>18. ASSUME NEW c \in CPU, NEW p \in Slot, ExitFiles(c, p)
      PROVE  Newborns'
  <2>1. state[p] = "RUNNING"
    BY <1>18, Runner, ZenonT(30) DEF ExitFiles, cpus
  <2>2. UNCHANGED <<parent, ctx, kstack>> /\ state' = state
    BY <1>18, ZenonT(30) DEF ExitFiles, cpus
  <2>3. /\ pc'[p] = "exit_lock"
        /\ \A t \in Slot \ {p} : pc'[t] = pc[t] /\ np'[t] = np[t]
    BY <1>18, <1>0, ZenonT(30) DEF ExitFiles, cpus
  <2>4. QED
    BY <2>1, <2>2, <2>3, NewbornsKept, ZenonT(30) DEF Creating
<1>19. ASSUME NEW c \in CPU, NEW p \in Slot, ExitZombie(c, p)
      PROVE  Newborns'
  <2>1. state[p] = "RUNNING"
    BY <1>19, Runner, ZenonT(30) DEF ExitZombie, glob
  <2>2. /\ UNCHANGED <<ctx, kstack, np>>
        /\ \A t \in Slot : pc'[t] = IF t = p THEN "none" ELSE pc[t]
    BY <1>19, <1>0, ZenonT(30) DEF ExitZombie, glob
  <2>3. \A t \in Slot : state[t] \in {"EMBRYO", "ZOMBIE"} => state'[t] = state[t]
    BY <1>19, <1>0, <2>1, ZenonT(30) DEF ExitZombie, wakeup1, glob
  <2>4. \A t \in Slot : parent'[t] = parent[t] \/ parent[t] = p
    BY <1>19, <1>0, ZenonT(30) DEF ExitZombie, Reparent, glob
  <2>5. \A t \in Slot : pc'[t] = "wait_dec" => state'[np[t]] = state[np[t]]
    BY <1>old, <2>2, <2>3, ZenonT(30) DEF Newborns
  <2>6. QED
    BY <2>1, <2>2, <2>3, <2>4, <2>5, NewbornsKept, ZenonT(30) DEF Creating
<1>20. ASSUME NEW c \in CPU, NEW p \in Slot, Wait(c, p) PROVE Newborns'
  <2>1. state[p] = "RUNNING"
    BY <1>20, Runner, ZenonT(30) DEF Wait, table, cpus, glob, Syscall
  <2>2. UNCHANGED <<parent, ctx, kstack>> /\ state' = state
    BY <1>20, ZenonT(30) DEF Wait, table, cpus, glob, Syscall
  <2>3. /\ pc'[p] = "wait_scan"
        /\ \A t \in Slot \ {p} : pc'[t] = pc[t] /\ np'[t] = np[t]
    BY <1>20, <1>0, ZenonT(30) DEF Wait, table, cpus, glob, Syscall
  <2>4. QED
    BY <2>1, <2>2, <2>3, NewbornsKept, ZenonT(30) DEF Creating
<1>21. ASSUME NEW c \in CPU, NEW p \in Slot, NEW q \in Slot, Reaps(c, p, q)
      PROVE  Newborns'
  <2>1. state[p] = "RUNNING" /\ ptlock = c /\ pc[p] = "wait_scan" /\ Running(c, p)
    BY <1>21, Runner DEF Reaps, cpus, Scanning
  <2>2. UNCHANGED <<ctx, np>> /\ \A t \in Slot : pc'[t] = IF t = p THEN "user" ELSE pc[t]
    BY <1>21, <1>0, ZenonT(30) DEF Reaps, cpus, Scanning
  <2>3. /\ state[q] = "ZOMBIE"
        /\ \A t \in Slot \ {q} : /\ state'[t] = state[t] /\ parent'[t] = parent[t]
                                 /\ kstack'[t] = kstack[t]
    BY <1>21, <1>0, ZenonT(30) DEF Reaps, cpus, Scanning
  <2>4. \A t \in Slot : pc'[t] # "wait_dec"
    BY <2>1, <2>2, DecAlone, ZenonT(30)
  <2>5. \A t \in Slot : state[t] = "EMBRYO" =>
          /\ state'[t] = "EMBRYO" /\ ctx'[t] = ctx[t] /\ kstack'[t] = kstack[t]
          /\ parent'[t] = parent[t]
    BY <2>2, <2>3, ZenonT(30)
  <2>6. \A t \in Slot : \/ pc'[t] = pc[t] /\ np'[t] = np[t]
                        \/ state[t] = "RUNNING" /\ pc'[t] = "user"
    BY <2>1, <2>2, ZenonT(30)
  <2>7. QED
    BY <2>4, <2>5, <2>6, NewbornsKept, ZenonT(30) DEF Creating
<1>22. ASSUME NEW c \in CPU, NEW p \in Slot, NEW q \in Slot, FindsThread(c, p, q)
      PROVE  Newborns'
  <2>1. state[p] = "RUNNING" /\ state[q] = "ZOMBIE"
    BY <1>22, Runner, ZenonT(30) DEF FindsThread, table, cpus, glob, Scanning
  <2>2. UNCHANGED <<state, parent, ctx, kstack>>
    BY <1>22, ZenonT(30) DEF FindsThread, table, cpus, glob, Scanning
  <2>3. /\ \A t \in Slot : pc'[t] = IF t = p THEN "wait_dec" ELSE pc[t]
        /\ \A t \in Slot : np'[t] = IF t = p THEN q ELSE np[t]
    BY <1>22, <1>0, ZenonT(30) DEF FindsThread, table, cpus, glob, Scanning
  <2>4. QED
    BY <1>old, <2>1, <2>2, <2>3 DEF Newborns, Creating
<1>23. ASSUME NEW c \in CPU, NEW p \in Slot, WaitDec(c, p) PROVE Newborns'
  <2>1. state[p] = "RUNNING" /\ ptlock = c /\ pc[p] = "wait_dec" /\ Running(c, p)
    BY <1>23, Runner, ZenonT(30) DEF WaitDec, cpus
  <2>2. /\ UNCHANGED <<ctx, parent, kstack>>
        /\ \A t \in Slot : pc'[t] = IF t = p THEN "user" ELSE pc[t]
        /\ \A t \in Slot \ {p} : np'[t] = np[t]
    BY <1>23, <1>0, ZenonT(30) DEF WaitDec, cpus
  <2>3. state[np[p]] = "ZOMBIE" /\ \A t \in Slot \ {np[p]} : state'[t] = state[t]
    BY <1>23, <1>0, <1>old, ZenonT(30) DEF WaitDec, Newborns, cpus
  <2>4. \A t \in Slot : pc'[t] # "wait_dec"
    BY <2>1, <2>2, DecAlone, ZenonT(30)
  <2>5. \A t \in Slot : state[t] = "EMBRYO" => state'[t] = "EMBRYO"
    BY <2>3, ZenonT(30)
  <2>6. QED
    BY <2>1, <2>2, <2>4, <2>5, NewbornsKept, ZenonT(30) DEF Creating
<1>24. ASSUME NEW c \in CPU, NEW p \in Slot, WaitFails(c, p)
      PROVE  Newborns'
  <2>1. state[p] = "RUNNING"
    BY <1>24, Runner, ZenonT(30) DEF WaitFails, table, cpus, glob, Scanning
  <2>2. UNCHANGED <<parent, ctx, kstack>> /\ state' = state
    BY <1>24, ZenonT(30) DEF WaitFails, table, cpus, glob, Scanning
  <2>3. /\ pc'[p] = "user"
        /\ \A t \in Slot \ {p} : pc'[t] = pc[t] /\ np'[t] = np[t]
    BY <1>24, <1>0, ZenonT(30) DEF WaitFails, table, cpus, glob, Scanning
  <2>4. QED
    BY <2>1, <2>2, <2>3, NewbornsKept DEF Creating
<1>25. ASSUME NEW c \in CPU, NEW p \in Slot, WaitSleep(c, p)
      PROVE  Newborns'
  <2>1. state[p] = "RUNNING" /\ pc[p] = "wait_scan"
    BY <1>25, Runner, ZenonT(30) DEF WaitSleep, glob, Scanning
  <2>2. UNCHANGED <<parent, pc, np, kstack>>
        /\ \A t \in Slot \ {p} : ctx'[t] = ctx[t] /\ state'[t] = state[t]
    BY <1>25, <1>0, ZenonT(30) DEF WaitSleep, glob, Scanning
  <2>3. QED
    BY <1>old, <2>1, <2>2 DEF Newborns, Creating
<1>26. ASSUME NEW c \in CPU, NEW p \in Slot, NEW v \in Slot, Kills(c, p, v)
      PROVE  Newborns'
  <2>1. UNCHANGED <<parent, ctx, pc, np, kstack>>
    BY <1>26, ZenonT(30) DEF Kills, cpus, local, glob, Syscall
  <2>2. \A t \in Slot : state[t] \in {"EMBRYO", "ZOMBIE"} => state'[t] = state[t]
    BY <1>26, <1>0, ZenonT(30) DEF Kills, KillWakes, cpus, local, glob, Syscall
  <2>3. QED
    BY <1>old, <2>1, <2>2, ZenonT(30) DEF Newborns
<1>27. CASE UNCHANGED vars
  BY <1>27, <1>old, ZenonT(30) DEF vars, Newborns, table, cpus, local, glob
<1>28. QED
  BY <1>1, <1>2, <1>3, <1>4, <1>5, <1>6, <1>7, <1>8, <1>9, <1>10, <1>11, <1>12, <1>13,
     <1>14, <1>15, <1>16, <1>17, <1>18, <1>19, <1>20, <1>21, <1>22, <1>23, <1>24, <1>25,
     <1>26, <1>27, ZenonT(60)
     DEF Step, Moves

(* The family is the same when nobody enters it, leaves it or moves.       *)
LEMMA FamilyFrame ==
  ASSUME IInv, parent' = parent, pc'[initproc] # "exit_lock" \/ panicked',
         \A t \in Slot : /\ state'[t] \in Live <=> state[t] \in Live
                         /\ state'[t] = "ZOMBIE" => state[t] = "ZOMBIE"
  PROVE  Family'
<1>0. initproc \in Slot
  BY ProcAssumption DEF initproc, Slot
<1>1. ParentAlive'
  BY ZenonT(30) DEF IInv, Family, ParentAlive
<1>2. QED
  BY <1>0, <1>1, ZenonT(30) DEF IInv, Family

(* No exit leaves a child behind, and init does not exit.                  *)
LEMMA NextFamily == IInv /\ Step => Family'
<1> SUFFICES ASSUME IInv, Step PROVE Family'
  OBVIOUS
<1>0. /\ state \in [Slot -> States] /\ pc \in [Slot -> PCs]
      /\ np \in [Slot -> Slot \cup {Null}] /\ parent \in [Slot -> Slot \cup {Null}]
      /\ initproc \in Slot /\ Null \notin Slot
  BY ProcAssumption DEF IInv, TypeOK, initproc, Slot, Null
<1>old. Family
  BY DEF IInv
<1>1. ASSUME NEW c \in CPU, SchedAcquire(c), ~panicked PROVE Family'
  <2>1. parent' = parent /\ pc'[initproc] # "exit_lock"
    BY <1>1, <1>0, <1>old, ZenonT(30) DEF SchedAcquire, Family, table, local, glob
  <2>2. \A t \in Slot : /\ state'[t] \in Live <=> state[t] \in Live
                        /\ state'[t] = "ZOMBIE" => state[t] = "ZOMBIE"
    BY <1>1, <1>0, <1>old, ZenonT(30) DEF SchedAcquire, Live, table, local, glob
  <2>3. QED
    BY <2>1, <2>2, FamilyFrame, ZenonT(30)
<1>2. ASSUME NEW c \in CPU, NEW s \in Slot, Runs(c, s), ~panicked
      PROVE  Family'
  <2>1. parent' = parent /\ pc'[initproc] # "exit_lock"
    BY <1>2, <1>0, <1>old, ZenonT(30) DEF Runs, Family, local, glob
  <2>2. \A t \in Slot : /\ state'[t] \in Live <=> state[t] \in Live
                        /\ state'[t] = "ZOMBIE" => state[t] = "ZOMBIE"
    BY <1>2, <1>0, <1>old, ZenonT(30) DEF Runs, Live, local, glob
  <2>3. QED
    BY <2>1, <2>2, FamilyFrame
<1>3. ASSUME NEW c \in CPU, SchedRelease(c), ~panicked PROVE Family'
  <2>1. parent' = parent /\ pc'[initproc] # "exit_lock"
    BY <1>3, <1>0, <1>old, ZenonT(30) DEF SchedRelease, Family, table, local, glob
  <2>2. \A t \in Slot : /\ state'[t] \in Live <=> state[t] \in Live
                        /\ state'[t] = "ZOMBIE" => state[t] = "ZOMBIE"
    BY <1>3, <1>0, <1>old DEF SchedRelease, Live, table, local, glob
  <2>3. QED
    BY <2>1, <2>2, FamilyFrame
<1>4. ASSUME NEW c \in CPU, Swtch(c), ~panicked PROVE Family'
  <2>1. parent' = parent /\ pc'[initproc] # "exit_lock"
    BY <1>4, <1>0, <1>old, ZenonT(30) DEF Swtch, Family, table, local, glob
  <2>2. \A t \in Slot : /\ state'[t] \in Live <=> state[t] \in Live
                        /\ state'[t] = "ZOMBIE" => state[t] = "ZOMBIE"
    BY <1>4, <1>0, <1>old, ZenonT(30) DEF Swtch, Live, table, local, glob
  <2>3. QED
    BY <2>1, <2>2, FamilyFrame
<1>5. ASSUME NEW c \in CPU, Resume(c), ~panicked PROVE Family'
  <2>1. parent' = parent /\ pc'[initproc] # "exit_lock"
    BY <1>5, <1>0, <1>old, ZenonT(30) DEF Resume, Family, cpus, glob
  <2>2. \A t \in Slot : /\ state'[t] \in Live <=> state[t] \in Live
                        /\ state'[t] = "ZOMBIE" => state[t] = "ZOMBIE"
    BY <1>5, <1>0, <1>old, ZenonT(30) DEF Resume, Live, cpus, glob
  <2>3. QED
    BY <2>1, <2>2, FamilyFrame
<1>6. ASSUME NEW c \in CPU, NEW p \in Slot, Yield(c, p), ~panicked
      PROVE  Family'
  <2>1. state[p] = "RUNNING"
    BY <1>6, Runner, ZenonT(30) DEF Yield, glob
  <2>2. parent' = parent /\ pc'[initproc] # "exit_lock"
    BY <1>6, <1>0, <1>old, <2>1, ZenonT(30) DEF Yield, Family, glob
  <2>3. \A t \in Slot : /\ state'[t] \in Live <=> state[t] \in Live
                        /\ state'[t] = "ZOMBIE" => state[t] = "ZOMBIE"
    BY <1>6, <1>0, <1>old, <2>1, ZenonT(30) DEF Yield, Live, glob
  <2>4. QED
    BY <2>2, <2>3, FamilyFrame
<1>7. ASSUME NEW c \in CPU, NEW p \in Slot, FindsNone(c, p), ~panicked
      PROVE  Family'
  <2>1. state[p] = "RUNNING"
    BY <1>7, Runner, ZenonT(30) DEF FindsNone, table, cpus, glob
  <2>2. parent' = parent /\ pc'[initproc] # "exit_lock"
    BY <1>7, <1>0, <1>old, <2>1, ZenonT(30) DEF FindsNone, Family, table, cpus, glob
  <2>3. \A t \in Slot : /\ state'[t] \in Live <=> state[t] \in Live
                        /\ state'[t] = "ZOMBIE" => state[t] = "ZOMBIE"
    BY <1>7, <1>0, <1>old, <2>1, ZenonT(30) DEF FindsNone, Live, table, cpus, glob
  <2>4. QED
    BY <2>2, <2>3, FamilyFrame
<1>8. ASSUME NEW c \in CPU, NEW p \in Slot, NEW s \in Slot,
             NEW k \in {"fork_kstack", "clone_kstack"}, Claims(c, p, s, k), ~panicked
      PROVE  Family'
  <2>1. state[p] = "RUNNING" /\ k # "exit_lock"
    BY <1>8, Runner, ZenonT(30) DEF Claims, cpus
  <2>2. parent' = parent /\ pc'[initproc] # "exit_lock"
    BY <1>8, <1>0, <1>old, <2>1, ZenonT(30) DEF Claims, Family, cpus
  <2>3. \A t \in Slot : /\ state'[t] \in Live <=> state[t] \in Live
                        /\ state'[t] = "ZOMBIE" => state[t] = "ZOMBIE"
    BY <1>8, <1>0, <1>old, <2>1, ZenonT(30) DEF Claims, Live, cpus
  <2>4. QED
    BY <2>2, <2>3, FamilyFrame, ZenonT(30)
<1>9. ASSUME NEW c \in CPU, NEW p \in Slot, Kstack(c, p), ~panicked
      PROVE  Family'
  <2>1. np[p] \in Slot /\ state[np[p]] = "EMBRYO" /\ state[p] = "RUNNING"
    BY <1>9, Runner, Filling, ZenonT(30) DEF Kstack, Creating
  <2>2. parent' = parent /\ pc'[initproc] # "exit_lock"
    BY <1>9, <1>0, <1>old, <2>1, ZenonT(30) DEF Kstack, Family, cpus
  <2>3. \A t \in Slot : /\ state'[t] \in Live <=> state[t] \in Live
                        /\ state'[t] = "ZOMBIE" => state[t] = "ZOMBIE"
    BY <1>9, <1>0, <2>1, ZenonT(30) DEF Kstack, Live, cpus
  <2>4. QED
    BY <2>2, <2>3, FamilyFrame
<1>10. ASSUME NEW c \in CPU, NEW p \in Slot, KstackFails(c, p), ~panicked
      PROVE  Family'
  <2>1. np[p] \in Slot /\ state[np[p]] = "EMBRYO" /\ state[p] = "RUNNING"
    BY <1>10, Runner, Filling, ZenonT(30) DEF KstackFails, Creating
  <2>2. parent' = parent /\ pc'[initproc] # "exit_lock"
    BY <1>10, <1>0, <1>old, <2>1, ZenonT(30) DEF KstackFails, Family, cpus, glob
  <2>3. \A t \in Slot : /\ state'[t] \in Live <=> state[t] \in Live
                        /\ state'[t] = "ZOMBIE" => state[t] = "ZOMBIE"
    BY <1>10, <1>0, <2>1, ZenonT(30) DEF KstackFails, Live, cpus, glob
  <2>4. QED
    BY <2>2, <2>3, FamilyFrame
<1>11. ASSUME NEW c \in CPU, NEW p \in Slot, ForkCopy(c, p), ~panicked
      PROVE  Family'
  <2>1. /\ np[p] \in Slot /\ state[np[p]] = "EMBRYO" /\ state[p] = "RUNNING"
        /\ np[p] # initproc
    BY <1>11, Runner, Filling, ZenonT(30) DEF ForkCopy, Creating
  <2>2. state' = state /\ \A t \in Slot : parent'[t] = IF t = np[p] THEN p ELSE parent[t]
    BY <1>11, <1>0, ZenonT(30) DEF ForkCopy, cpus
  <2>3. pc'[initproc] # "exit_lock"
    BY <1>11, <1>0, <1>old, ZenonT(30) DEF ForkCopy, Family, cpus
  <2>4. ParentAlive'
    BY <1>old, <2>1, <2>2, ZenonT(30) DEF Family, ParentAlive, Live
  <2>5. QED
    BY <1>0, <1>old, <2>1, <2>2, <2>3, <2>4, ZenonT(30) DEF Family
<1>12. ASSUME NEW c \in CPU, NEW p \in Slot, ForkCopyFails(c, p), ~panicked
      PROVE  Family'
  <2>1. np[p] \in Slot /\ state[np[p]] = "EMBRYO" /\ state[p] = "RUNNING"
    BY <1>12, Runner, Filling, ZenonT(30) DEF ForkCopyFails, Creating
  <2>2. parent' = parent /\ pc'[initproc] # "exit_lock"
    BY <1>12, <1>0, <1>old, <2>1, ZenonT(30) DEF ForkCopyFails, Family, cpus
  <2>3. \A t \in Slot : /\ state'[t] \in Live <=> state[t] \in Live
                        /\ state'[t] = "ZOMBIE" => state[t] = "ZOMBIE"
    BY <1>12, <1>0, <2>1, ZenonT(30) DEF ForkCopyFails, Live, cpus
  <2>4. QED
    BY <2>2, <2>3, FamilyFrame
<1>13. ASSUME NEW c \in CPU, NEW p \in Slot, ForkRun(c, p), ~panicked
      PROVE  Family'
  <2>1. /\ np[p] \in Slot /\ state[np[p]] = "EMBRYO" /\ state[p] = "RUNNING"
        /\ np[p] # initproc /\ parent[np[p]] = p
    BY <1>13, Runner, Filling, ZenonT(30) DEF ForkRun, Creating
  <2>2. /\ parent' = parent
        /\ \A t \in Slot : state'[t] = IF t = np[p] THEN "RUNNABLE" ELSE state[t]
    BY <1>13, <1>0, ZenonT(30) DEF ForkRun, cpus, glob
  <2>3. pc'[initproc] # "exit_lock"
    BY <1>13, <1>0, <1>old, ZenonT(30) DEF ForkRun, Family, cpus, glob
  <2>4. ParentAlive'
    BY <1>old, <2>1, <2>2 DEF Family, ParentAlive, Live
  <2>5. QED
    BY <1>0, <1>old, <2>1, <2>2, <2>3, <2>4, ZenonT(30) DEF Family
<1>14. ASSUME NEW c \in CPU, NEW p \in Slot, CloneRead(c, p), ~panicked
      PROVE  Family'
  <2>1. state[p] = "RUNNING"
    BY <1>14, Runner, ZenonT(30) DEF CloneRead, table, cpus, glob, Syscall
  <2>2. parent' = parent /\ pc'[initproc] # "exit_lock"
    BY <1>14, <1>0, <1>old, <2>1, ZenonT(30) DEF CloneRead, Family, table, cpus, glob, Syscall
  <2>3. \A t \in Slot : /\ state'[t] \in Live <=> state[t] \in Live
                        /\ state'[t] = "ZOMBIE" => state[t] = "ZOMBIE"
    BY <1>14, <1>0, <1>old, <2>1, ZenonT(30) DEF CloneRead, Live, table, cpus, glob, Syscall
  <2>4. QED
    BY <2>2, <2>3, FamilyFrame
<1>15. ASSUME NEW c \in CPU, NEW p \in Slot, CloneAdd(c, p), ~panicked
      PROVE  Family'
  <2>1. state[p] = "RUNNING"
    BY <1>15, Runner, ZenonT(30) DEF CloneAdd, table, cpus
  <2>2. parent' = parent /\ pc'[initproc] # "exit_lock"
    BY <1>15, <1>0, <1>old, <2>1, ZenonT(30) DEF CloneAdd, Family, table, cpus
  <2>3. \A t \in Slot : /\ state'[t] \in Live <=> state[t] \in Live
                        /\ state'[t] = "ZOMBIE" => state[t] = "ZOMBIE"
    BY <1>15, <1>0, <1>old, <2>1, ZenonT(30) DEF CloneAdd, Live, table, cpus
  <2>4. QED
    BY <2>2, <2>3, FamilyFrame
<1>16. ASSUME NEW c \in CPU, NEW p \in Slot, CloneRun(c, p), ~panicked
      PROVE  Family'
  <2>1. /\ np[p] \in Slot /\ state[np[p]] = "EMBRYO" /\ state[p] = "RUNNING"
        /\ np[p] # initproc
    BY <1>16, Runner, Filling, ZenonT(30) DEF CloneRun, Creating
  <2>2. /\ \A t \in Slot : parent'[t] = IF t = np[p] THEN p ELSE parent[t]
        /\ \A t \in Slot : state'[t] = IF t = np[p] THEN "RUNNABLE" ELSE state[t]
    BY <1>16, <1>0, ZenonT(30) DEF CloneRun, CloneParent, cpus, glob
  <2>3. pc'[initproc] # "exit_lock"
    BY <1>16, <1>0, <1>old, ZenonT(30) DEF CloneRun, Family, cpus, glob
  <2>4. ParentAlive'
    BY <1>old, <2>1, <2>2 DEF Family, ParentAlive, Live
  <2>5. QED
    BY <1>0, <1>old, <2>1, <2>2, <2>3, <2>4, ZenonT(30) DEF Family, Live
<1>17. ASSUME NEW c \in CPU, NEW p \in Slot, Close(c, p), ~panicked
      PROVE  Family'
  <2>1. state[p] = "RUNNING"
    BY <1>17, Runner, ZenonT(30) DEF Close, cpus, local, Syscall
  <2>2. parent' = parent /\ pc'[initproc] # "exit_lock"
    BY <1>17, <1>0, <1>old, <2>1 DEF Close, Family, cpus, local, Syscall
  <2>3. \A t \in Slot : /\ state'[t] \in Live <=> state[t] \in Live
                        /\ state'[t] = "ZOMBIE" => state[t] = "ZOMBIE"
    BY <1>17, <1>0, <1>old, <2>1 DEF Close, Live, cpus, local, Syscall
  <2>4. QED
    BY <2>2, <2>3, FamilyFrame
<1>18. ASSUME NEW c \in CPU, NEW p \in Slot, ExitFiles(c, p), ~panicked
      PROVE  Family'
  <2>1. parent' = parent /\ state' = state
    BY <1>18 DEF ExitFiles, cpus
  <2>2. pc'[initproc] # "exit_lock" \/ panicked'
    <3>1. CASE p = initproc
      BY <1>18, <3>1, ZenonT(30) DEF ExitFiles, cpus
    <3>2. CASE p # initproc
      BY <1>18, <1>0, <1>old, <3>2, ZenonT(30) DEF ExitFiles, Family, cpus
    <3>3. QED
      BY <3>1, <3>2
  <2>3. QED
    BY <2>1, <2>2, FamilyFrame
<1>19. ASSUME NEW c \in CPU, NEW p \in Slot, ExitZombie(c, p), ~panicked
      PROVE  Family'
  <2>1. state[p] = "RUNNING" /\ p # initproc
    BY <1>19, <1>old, Runner, ZenonT(30) DEF ExitZombie, Family, glob
  <2>2. \A t \in Slot : parent'[t] = IF parent[t] = p THEN initproc ELSE parent[t]
    BY <1>19 DEF ExitZombie, Reparent, glob
  <2>3. /\ state'[p] = "ZOMBIE"
        /\ \A t \in Slot \ {p} : \/ state'[t] = state[t]
                                 \/ state[t] = "SLEEPING" /\ state'[t] = "RUNNABLE"
    BY <1>19, <1>0, ZenonT(30) DEF ExitZombie, wakeup1, glob
  <2>4. pc'[initproc] # "exit_lock"
    BY <1>19, <1>0, <1>old, ZenonT(30) DEF ExitZombie, Family, glob
  <2>5. state'[initproc] \in Live /\ parent'[initproc] = Null
    BY <1>0, <1>old, <2>1, <2>2, <2>3, ZenonT(30) DEF Family, Live
  <2>6. ASSUME NEW t \in Slot \ {initproc}, state'[t] \in Live \cup {"ZOMBIE"}
        PROVE  parent'[t] \in Slot /\ state'[parent'[t]] \in Live
    <3>1. state[t] \in Live \cup {"ZOMBIE"}
      BY <2>1, <2>3, <2>6 DEF Live
    <3>2. parent[t] \in Slot /\ state[parent[t]] \in Live
      BY <1>old, <3>1, ZenonT(30) DEF Family, ParentAlive
    <3>3. CASE parent[t] = p
      BY <1>0, <2>2, <2>5, <3>3, ZenonT(30)
    <3>4. CASE parent[t] # p
      BY <2>2, <2>3, <3>2, <3>4, ZenonT(30) DEF Live
    <3>5. QED
      BY <3>3, <3>4
  <2>7. ParentAlive'
    BY <2>6, ZenonT(30) DEF ParentAlive
  <2>8. \A t \in Slot : parent'[t] # t
    BY <1>0, <1>old, <2>1, <2>2, ZenonT(30) DEF Family
  <2>9. QED
    BY <2>4, <2>5, <2>7, <2>8 DEF Family
<1>20. ASSUME NEW c \in CPU, NEW p \in Slot, Wait(c, p), ~panicked
      PROVE  Family'
  <2>1. state[p] = "RUNNING"
    BY <1>20, Runner, ZenonT(30) DEF Wait, table, cpus, glob, Syscall
  <2>2. parent' = parent /\ pc'[initproc] # "exit_lock"
    BY <1>20, <1>0, <1>old, <2>1, ZenonT(30) DEF Wait, Family, table, cpus, glob, Syscall
  <2>3. \A t \in Slot : /\ state'[t] \in Live <=> state[t] \in Live
                        /\ state'[t] = "ZOMBIE" => state[t] = "ZOMBIE"
    BY <1>20, <1>0, <1>old, <2>1, ZenonT(30) DEF Wait, Live, table, cpus, glob, Syscall
  <2>4. QED
    BY <2>2, <2>3, FamilyFrame
<1>21. ASSUME NEW c \in CPU, NEW p \in Slot, NEW q \in Slot, Reaps(c, p, q), ~panicked
      PROVE  Family'
  <2>1. state[p] = "RUNNING" /\ state[q] = "ZOMBIE" /\ q # initproc
    BY <1>21, <1>old, Runner, ZenonT(30) DEF Reaps, Family, Live, cpus, Scanning
  <2>2. /\ \A t \in Slot : parent'[t] = IF t = q THEN Null ELSE parent[t]
        /\ \A t \in Slot : state'[t] = IF t = q THEN "UNUSED" ELSE state[t]
    BY <1>21, <1>0, ZenonT(30) DEF Reaps, cpus, Scanning
  <2>3. pc'[initproc] # "exit_lock"
    BY <1>21, <1>0, <1>old, ZenonT(30) DEF Reaps, Family, cpus, Scanning
  <2>4. ParentAlive'
    BY <1>old, <2>1, <2>2 DEF Family, ParentAlive, Live
  <2>5. QED
    BY <1>0, <1>old, <2>1, <2>2, <2>3, <2>4, ZenonT(30) DEF Family
<1>22. ASSUME NEW c \in CPU, NEW p \in Slot, NEW q \in Slot, FindsThread(c, p, q), ~panicked
      PROVE  Family'
  <2>1. state[p] = "RUNNING"
    BY <1>22, Runner, ZenonT(30) DEF FindsThread, table, cpus, glob, Scanning
  <2>2. parent' = parent /\ pc'[initproc] # "exit_lock"
    BY <1>22, <1>0, <1>old, <2>1, ZenonT(30) DEF FindsThread, Family, table, cpus, glob, Scanning
  <2>3. \A t \in Slot : /\ state'[t] \in Live <=> state[t] \in Live
                        /\ state'[t] = "ZOMBIE" => state[t] = "ZOMBIE"
    BY <1>22, <1>0, <1>old, <2>1 DEF FindsThread, Live, table, cpus, glob, Scanning
  <2>4. QED
    BY <2>2, <2>3, FamilyFrame
<1>23. ASSUME NEW c \in CPU, NEW p \in Slot, WaitDec(c, p), ~panicked
      PROVE  Family'
  <2>1. np[p] \in Slot /\ state[np[p]] = "ZOMBIE" /\ state[p] = "RUNNING"
    BY <1>23, Runner, WaitsFor, ZenonT(30) DEF WaitDec
  <2>2. parent' = parent /\ pc'[initproc] # "exit_lock"
    BY <1>23, <1>0, <1>old, <2>1, ZenonT(30) DEF WaitDec, Family, cpus
  <2>3. \A t \in Slot : /\ state'[t] \in Live <=> state[t] \in Live
                        /\ state'[t] = "ZOMBIE" => state[t] = "ZOMBIE"
    BY <1>23, <1>0, <2>1, ZenonT(30) DEF WaitDec, Live, cpus
  <2>4. QED
    BY <2>2, <2>3, FamilyFrame
<1>24. ASSUME NEW c \in CPU, NEW p \in Slot, WaitFails(c, p), ~panicked
      PROVE  Family'
  <2>1. state[p] = "RUNNING"
    BY <1>24, Runner, ZenonT(30) DEF WaitFails, table, cpus, glob, Scanning
  <2>2. parent' = parent /\ pc'[initproc] # "exit_lock"
    BY <1>24, <1>0, <1>old, <2>1 DEF WaitFails, Family, table, cpus, glob, Scanning
  <2>3. \A t \in Slot : /\ state'[t] \in Live <=> state[t] \in Live
                        /\ state'[t] = "ZOMBIE" => state[t] = "ZOMBIE"
    BY <1>24, <1>0, <1>old, <2>1 DEF WaitFails, Live, table, cpus, glob, Scanning
  <2>4. QED
    BY <2>2, <2>3, FamilyFrame
<1>25. ASSUME NEW c \in CPU, NEW p \in Slot, WaitSleep(c, p), ~panicked
      PROVE  Family'
  <2>1. state[p] = "RUNNING"
    BY <1>25, Runner, ZenonT(30) DEF WaitSleep, glob, Scanning
  <2>2. parent' = parent /\ pc'[initproc] # "exit_lock"
    BY <1>25, <1>0, <1>old, <2>1 DEF WaitSleep, Family, glob, Scanning
  <2>3. \A t \in Slot : /\ state'[t] \in Live <=> state[t] \in Live
                        /\ state'[t] = "ZOMBIE" => state[t] = "ZOMBIE"
    BY <1>25, <1>0, <1>old, <2>1, ZenonT(30) DEF WaitSleep, Live, glob, Scanning
  <2>4. QED
    BY <2>2, <2>3, FamilyFrame
<1>26. ASSUME NEW c \in CPU, NEW p \in Slot, NEW v \in Slot, Kills(c, p, v), ~panicked
      PROVE  Family'
  <2>1. state[p] = "RUNNING"
    BY <1>26, Runner, ZenonT(30) DEF Kills, cpus, local, glob, Syscall
  <2>2. parent' = parent /\ pc'[initproc] # "exit_lock"
    BY <1>26, <1>0, <1>old, <2>1, ZenonT(30) DEF Kills, Family, cpus, local, glob, Syscall
  <2>3. \A t \in Slot : /\ state'[t] \in Live <=> state[t] \in Live
                        /\ state'[t] = "ZOMBIE" => state[t] = "ZOMBIE"
    BY <1>26, <1>0, <1>old, <2>1, ZenonT(30) DEF Kills, Live, KillWakes, cpus, local, glob, Syscall
  <2>4. QED
    BY <2>2, <2>3, FamilyFrame
<1>27. CASE UNCHANGED vars
  BY <1>27, <1>old, ZenonT(30) DEF vars, Family, ParentAlive, table, cpus, local, glob
<1>28. QED
  BY <1>1, <1>2, <1>3, <1>4, <1>5, <1>6, <1>7, <1>8, <1>9, <1>10, <1>11, <1>12, <1>13,
     <1>14, <1>15, <1>16, <1>17, <1>18, <1>19, <1>20, <1>21, <1>22, <1>23, <1>24, <1>25,
     <1>26, <1>27, ZenonT(60)
     DEF Step, Moves

-----------------------------------------------------------------------------
(* Nobody misses an exit or a kill when nobody falls asleep or exits.      *)
LEMMA WaitersFrame ==
  ASSUME IInv,
         \A t \in Slot :
           /\ state'[t] = "SLEEPING" => state[t] = "SLEEPING" /\ killed'[t] = killed[t]
           /\ state'[t] = "ZOMBIE" => state[t] = "ZOMBIE" /\ parent'[t] = parent[t]
  PROVE  WaiterWoken'
<1>1. ASSUME NEW s \in Slot, state'[s] = "SLEEPING" PROVE Zombies(s)' = {} /\ ~killed'[s]
  <2>1. Zombies(s) = {} /\ ~killed[s]
    BY <1>1, ZenonT(30) DEF IInv, WaiterWoken
  <2>2. \A q \in Slot : ~ (parent'[q] = s /\ state'[q] = "ZOMBIE")
    BY <2>1, ZenonT(30) DEF Zombies
  <2>3. QED
    BY <1>1, <2>1, <2>2, ZenonT(30) DEF Zombies
<1>2. QED
  BY <1>1, ZenonT(30) DEF WaiterWoken

(* The wakeups of exit() and kill() reach everyone who waits for them.     *)
LEMMA NextWaiters == IInv /\ Step => WaiterWoken'
<1> SUFFICES ASSUME IInv, Step PROVE WaiterWoken'
  BY ZenonT(30)
<1>0. /\ state \in [Slot -> States] /\ parent \in [Slot -> Slot \cup {Null}]
      /\ killed \in [Slot -> BOOLEAN]
  BY ZenonT(30) DEF IInv, TypeOK
<1>1. ASSUME NEW c \in CPU, SchedAcquire(c) PROVE WaiterWoken'
  BY <1>1, <1>0, WaitersFrame, ZenonT(30) DEF SchedAcquire, table, local, glob
<1>2. ASSUME NEW c \in CPU, NEW s \in Slot, Runs(c, s) PROVE WaiterWoken'
  BY <1>2, <1>0, WaitersFrame, ZenonT(30) DEF Runs, local, glob
<1>3. ASSUME NEW c \in CPU, SchedRelease(c) PROVE WaiterWoken'
  BY <1>3, <1>0, WaitersFrame, ZenonT(30) DEF SchedRelease, table, local, glob
<1>4. ASSUME NEW c \in CPU, Swtch(c) PROVE WaiterWoken'
  BY <1>4, <1>0, WaitersFrame, ZenonT(30) DEF Swtch, table, local, glob
<1>5. ASSUME NEW c \in CPU, Resume(c) PROVE WaiterWoken'
  BY <1>5, <1>0, WaitersFrame, ZenonT(30) DEF Resume, cpus, glob
<1>6. ASSUME NEW c \in CPU, NEW p \in Slot, Yield(c, p) PROVE WaiterWoken'
  BY <1>6, <1>0, WaitersFrame, ZenonT(30) DEF Yield, glob
<1>7. ASSUME NEW c \in CPU, NEW p \in Slot, FindsNone(c, p)
      PROVE  WaiterWoken'
  BY <1>7, <1>0, WaitersFrame, ZenonT(30) DEF FindsNone, table, cpus, glob
<1>8. ASSUME NEW c \in CPU, NEW p \in Slot, NEW s \in Slot,
             NEW k \in {"fork_kstack", "clone_kstack"}, Claims(c, p, s, k)
      PROVE  WaiterWoken'
  BY <1>8, <1>0, WaitersFrame, ZenonT(30) DEF Claims, cpus
<1>9. ASSUME NEW c \in CPU, NEW p \in Slot, Kstack(c, p)
      PROVE  WaiterWoken'
  BY <1>9, <1>0, WaitersFrame, ZenonT(30) DEF Kstack, cpus
<1>10. ASSUME NEW c \in CPU, NEW p \in Slot, KstackFails(c, p)
      PROVE  WaiterWoken'
  <2>1. np[p] \in Slot /\ state[np[p]] = "EMBRYO" /\ state[p] = "RUNNING"
    BY <1>10, Runner, Filling, ZenonT(30) DEF KstackFails, Creating
  <2>2. QED
    BY <1>10, <1>0, <2>1, WaitersFrame, ZenonT(30) DEF KstackFails, cpus, glob
<1>11. ASSUME NEW c \in CPU, NEW p \in Slot, ForkCopy(c, p)
      PROVE  WaiterWoken'
  <2>1. np[p] \in Slot /\ state[np[p]] = "EMBRYO" /\ state[p] = "RUNNING"
    BY <1>11, Runner, Filling, ZenonT(30) DEF ForkCopy, Creating
  <2>2. QED
    BY <1>11, <1>0, <2>1, WaitersFrame, ZenonT(30) DEF ForkCopy, cpus
<1>12. ASSUME NEW c \in CPU, NEW p \in Slot, ForkCopyFails(c, p)
      PROVE  WaiterWoken'
  <2>1. np[p] \in Slot /\ state[np[p]] = "EMBRYO" /\ state[p] = "RUNNING"
    BY <1>12, Runner, Filling, ZenonT(30) DEF ForkCopyFails, Creating
  <2>2. QED
    BY <1>12, <1>0, <2>1, WaitersFrame, ZenonT(30) DEF ForkCopyFails, cpus
<1>13. ASSUME NEW c \in CPU, NEW p \in Slot, ForkRun(c, p)
      PROVE  WaiterWoken'
  <2>1. np[p] \in Slot /\ state[np[p]] = "EMBRYO" /\ state[p] = "RUNNING"
    BY <1>13, Runner, Filling, ZenonT(30) DEF ForkRun, Creating
  <2>2. QED
    BY <1>13, <1>0, <2>1, WaitersFrame, ZenonT(30) DEF ForkRun, cpus, glob
<1>14. ASSUME NEW c \in CPU, NEW p \in Slot, CloneRead(c, p)
      PROVE  WaiterWoken'
  BY <1>14, <1>0, WaitersFrame, ZenonT(30) DEF CloneRead, table, cpus, glob, Syscall
<1>15. ASSUME NEW c \in CPU, NEW p \in Slot, CloneAdd(c, p)
      PROVE  WaiterWoken'
  BY <1>15, <1>0, WaitersFrame, ZenonT(30) DEF CloneAdd, table, cpus
<1>16. ASSUME NEW c \in CPU, NEW p \in Slot, CloneRun(c, p)
      PROVE  WaiterWoken'
  <2>1. np[p] \in Slot /\ state[np[p]] = "EMBRYO" /\ state[p] = "RUNNING"
    BY <1>16, Runner, Filling, ZenonT(30) DEF CloneRun, Creating
  <2>2. QED
    BY <1>16, <1>0, <2>1, WaitersFrame, ZenonT(30) DEF CloneRun, cpus, glob
<1>17. ASSUME NEW c \in CPU, NEW p \in Slot, Close(c, p) PROVE WaiterWoken'
  BY <1>17, <1>0, WaitersFrame, ZenonT(30) DEF Close, cpus, local, Syscall
<1>18. ASSUME NEW c \in CPU, NEW p \in Slot, ExitFiles(c, p)
      PROVE  WaiterWoken'
  <2>1. state' = state /\ parent' = parent /\ killed' = killed
    BY <1>18, ZenonT(30) DEF ExitFiles, cpus
  <2>2. QED
    BY <2>1, WaitersFrame, ZenonT(30)
<1>19. ASSUME NEW c \in CPU, NEW p \in Slot, ExitZombie(c, p)
      PROVE  WaiterWoken'
  <2>1. /\ \A t \in Slot : parent'[t] = IF parent[t] = p THEN initproc ELSE parent[t]
        /\ killed' = killed
    BY <1>19, ZenonT(30) DEF ExitZombie, Reparent, glob
  <2>2. /\ state'[p] = "ZOMBIE"
        /\ \A t \in Slot \ {p} : state'[t] = IF state[t] = "SLEEPING" /\ chan[t] \in ExitWakes(p)
                                               THEN "RUNNABLE" ELSE state[t]
    BY <1>19, <1>0, ZenonT(30) DEF ExitZombie, wakeup1, glob
  <2>3. ASSUME NEW t \in Slot, state'[t] = "SLEEPING"
        PROVE  Zombies(t)' = {} /\ ~killed'[t]
    <3>1. t # p /\ state[t] = "SLEEPING" /\ t \notin ExitWakes(p)
      BY <2>2, <2>3 DEF IInv, Contexts
    <3>2. Zombies(t) = {} /\ ~killed[t]
      BY <3>1, ZenonT(30) DEF IInv, WaiterWoken
    <3>3. ASSUME NEW q \in Slot, parent'[q] = t, state'[q] = "ZOMBIE" PROVE FALSE
      <4>1. CASE q = p
        <5>1. parent[p] = t
          BY <2>1, <3>3, <4>1, ZenonT(30) DEF IInv, Family
        <5>2. QED
          BY <3>1, <5>1, ZenonT(30) DEF ExitWakes
      <4>2. CASE q # p
        <5>1. state[q] = "ZOMBIE"
          BY <2>2, <3>3, <4>2, ZenonT(30)
        <5>2. parent[q] = p /\ t = initproc
          BY <2>1, <3>2, <3>3, <5>1, ZenonT(30) DEF Zombies
        <5>3. initproc \in ExitWakes(p)
          BY <5>1, <5>2, ZenonT(30) DEF ExitWakes
        <5>4. QED
          BY <3>1, <5>2, <5>3
      <4>3. QED
        BY <4>1, <4>2
    <3>4. QED
      BY <2>1, <3>2, <3>3, ZenonT(30) DEF Zombies
  <2>4. QED
    BY <2>3, ZenonT(30) DEF WaiterWoken
<1>20. ASSUME NEW c \in CPU, NEW p \in Slot, Wait(c, p) PROVE WaiterWoken'
  BY <1>20, <1>0, WaitersFrame, ZenonT(30) DEF Wait, table, cpus, glob, Syscall
<1>21. ASSUME NEW c \in CPU, NEW p \in Slot, NEW q \in Slot, Reaps(c, p, q)
      PROVE  WaiterWoken'
  BY <1>21, <1>0, WaitersFrame, ZenonT(30) DEF Reaps, cpus, Scanning
<1>22. ASSUME NEW c \in CPU, NEW p \in Slot, NEW q \in Slot, FindsThread(c, p, q)
      PROVE  WaiterWoken'
  BY <1>22, <1>0, WaitersFrame, ZenonT(30) DEF FindsThread, table, cpus, glob, Scanning
<1>23. ASSUME NEW c \in CPU, NEW p \in Slot, WaitDec(c, p)
      PROVE  WaiterWoken'
  <2>1. np[p] \in Slot /\ state[np[p]] = "ZOMBIE" /\ state[p] = "RUNNING"
    BY <1>23, Runner, WaitsFor, ZenonT(30) DEF WaitDec
  <2>2. QED
    BY <1>23, <1>0, <2>1, WaitersFrame, ZenonT(30) DEF WaitDec, cpus
<1>24. ASSUME NEW c \in CPU, NEW p \in Slot, WaitFails(c, p)
      PROVE  WaiterWoken'
  BY <1>24, <1>0, WaitersFrame, ZenonT(30) DEF WaitFails, table, cpus, glob, Scanning
<1>25. ASSUME NEW c \in CPU, NEW p \in Slot, WaitSleep(c, p)
      PROVE  WaiterWoken'
  <2>1. /\ parent' = parent /\ killed' = killed /\ Zombies(p) = {} /\ ~killed[p]
        /\ \A t \in Slot : state'[t] = IF t = p THEN "SLEEPING" ELSE state[t]
    BY <1>25, <1>0, ZenonT(30) DEF WaitSleep, glob, Scanning
  <2>2. ASSUME NEW t \in Slot, state'[t] = "SLEEPING"
        PROVE  Zombies(t)' = {} /\ ~killed'[t]
    <3>1. Zombies(t) = {} /\ ~killed[t]
      BY <2>1, <2>2, ZenonT(30) DEF IInv, WaiterWoken
    <3>2. Zombies(t)' \subseteq Zombies(t)
      BY <2>1, ZenonT(30) DEF Zombies
    <3>3. QED
      BY <2>1, <3>1, <3>2, ZenonT(30)
  <2>3. QED
    BY <2>2 DEF WaiterWoken
<1>26. ASSUME NEW c \in CPU, NEW p \in Slot, NEW v \in Slot, Kills(c, p, v)
      PROVE  WaiterWoken'
  <2>1. /\ parent' = parent /\ \A t \in Slot \ {v} : killed'[t] = killed[t]
        /\ \A t \in Slot : state'[t] = state[t] \/ state'[t] = "RUNNABLE"
        /\ state'[v] # "SLEEPING"
    BY <1>26, <1>0, ZenonT(30) DEF Kills, KillWakes, cpus, local, glob, Syscall
  <2>2. QED
    BY <2>1, WaitersFrame, ZenonT(30)
<1>27. CASE UNCHANGED vars
  BY <1>27, ZenonT(30) DEF vars, IInv, WaiterWoken, Zombies, table, cpus, local, glob
<1>28. QED
  BY <1>1, <1>2, <1>3, <1>4, <1>5, <1>6, <1>7, <1>8, <1>9, <1>10, <1>11, <1>12, <1>13,
     <1>14, <1>15, <1>16, <1>17, <1>18, <1>19, <1>20, <1>21, <1>22, <1>23, <1>24, <1>25,
     <1>26, <1>27, ZenonT(60)
     DEF Step, Moves

(* kalloc() takes the head of the free list.                               *)
LEMMA Pop ==
  ASSUME NEW l \in Seq(Page), l # <<>>, IsInjective(l)
  PROVE  /\ Head(l) \in Range(l) /\ Head(l) \in Page
         /\ IsInjective(Tail(l)) /\ Range(Tail(l)) = Range(l) \ {Head(l)}
<1>1. /\ Len(l) \in Nat \ {0} /\ DOMAIN l = 1 .. Len(l) /\ Head(l) = l[1]
      /\ \A i \in 1 .. Len(l) : l[i] \in Page
  OBVIOUS
<1>2. /\ DOMAIN Tail(l) = 1 .. Len(l) - 1
      /\ \A i \in 1 .. Len(l) - 1 : Tail(l)[i] = l[i + 1] /\ i + 1 \in 1 .. Len(l)
  BY <1>1
<1>3. \A i, j \in 1 .. Len(l) : l[i] = l[j] => i = j
  BY <1>1, ZenonT(30) DEF IsInjective
<1>4. IsInjective(Tail(l))
  BY <1>1, <1>2, <1>3 DEF IsInjective
<1>5. Head(l) \in Range(l) /\ Head(l) \in Page
  BY <1>1 DEF Range
<1>6. ASSUME NEW x \in Range(Tail(l)) PROVE x \in Range(l) \ {Head(l)}
  <2>1. PICK i \in 1 .. Len(l) - 1 : x = l[i + 1] /\ i + 1 \in 1 .. Len(l)
    BY <1>2, <1>6, ZenonT(30) DEF Range
  <2>2. i + 1 # 1
    BY <1>1, <2>1
  <2>3. QED
    BY <1>1, <1>3, <2>1, <2>2 DEF Range
<1>7. ASSUME NEW x \in Range(l), x # Head(l) PROVE x \in Range(Tail(l))
  <2>1. PICK i \in 1 .. Len(l) : x = l[i] /\ i # 1
    BY <1>1, <1>7, ZenonT(30) DEF Range
  <2>2. i - 1 \in 1 .. Len(l) - 1 /\ (i - 1) + 1 = i
    BY <1>1, <2>1
  <2>3. Tail(l)[i - 1] = x
    BY <1>2, <2>1, <2>2, ZenonT(30)
  <2>4. QED
    BY <1>2, <2>2, <2>3, ZenonT(30) DEF Range
<1>8. QED
  BY <1>4, <1>5, <1>6, <1>7, ZenonT(30)

(* kfree() puts a page before it.                                          *)
LEMMA Push ==
  ASSUME NEW l \in Seq(Page), IsInjective(l), NEW x \in Page, x \notin Range(l)
  PROVE  /\ <<x>> \o l \in Seq(Page) /\ IsInjective(<<x>> \o l)
         /\ Range(<<x>> \o l) = Range(l) \cup {x}
<1> DEFINE m == <<x>> \o l
<1>1. /\ m \in Seq(Page) /\ Len(l) \in Nat /\ DOMAIN l = 1 .. Len(l)
      /\ DOMAIN m = 1 .. Len(l) + 1 /\ m[1] = x
      /\ \A i \in 1 .. Len(l) : m[i + 1] = l[i] /\ i + 1 \in 1 .. Len(l) + 1
  OBVIOUS
<1> HIDE DEF m
<1>2. \A j \in 1 .. Len(l) + 1 : j = 1 \/ (j - 1 \in 1 .. Len(l) /\ m[j] = l[j - 1])
  <2>1. ASSUME NEW j \in 1 .. Len(l) + 1, j # 1
        PROVE  j - 1 \in 1 .. Len(l) /\ (j - 1) + 1 = j
    BY <1>1, <2>1
  <2>2. QED
    BY <1>1, <2>1, ZenonT(30)
<1>3. \A i \in 1 .. Len(l) : l[i] # x
  BY <1>1, ZenonT(30) DEF Range
<1>4. \A i, j \in 1 .. Len(l) : l[i] = l[j] => i = j
  BY <1>1, ZenonT(30) DEF IsInjective
<1>5. IsInjective(m)
  <2>1. ASSUME NEW i \in 1 .. Len(l) + 1, NEW j \in 1 .. Len(l) + 1, m[i] = m[j]
        PROVE  i = j
    BY <1>1, <1>2, <1>3, <1>4, <2>1
  <2>2. QED
    BY <1>1, <2>1, ZenonT(30) DEF IsInjective
<1>6. Range(m) = Range(l) \cup {x}
  <2>1. ASSUME NEW y \in Range(m) PROVE y \in Range(l) \cup {x}
    <3>1. PICK j \in 1 .. Len(l) + 1 : y = m[j]
      BY <1>1, <2>1, ZenonT(30) DEF Range
    <3>2. CASE j = 1
      BY <1>1, <3>1, <3>2, ZenonT(30)
    <3>3. CASE j # 1
      <4>1. j - 1 \in DOMAIN l /\ y = l[j - 1]
        BY <1>1, <1>2, <3>1, <3>3, ZenonT(30)
      <4>2. QED
        BY <4>1, ZenonT(30) DEF Range
    <3>4. QED
      BY <3>2, <3>3
  <2>2. x \in Range(m)
    BY <1>1 DEF Range
  <2>3. ASSUME NEW y \in Range(l) PROVE y \in Range(m)
    BY <1>1, <2>3, ZenonT(30) DEF Range
  <2>4. QED
    BY <2>1, <2>2, <2>3, ZenonT(30)
<1>7. QED
  BY <1>1, <1>5, <1>6, ZenonT(30) DEF m

(* A slot does not come to own a directory unless fork() fills it.         *)
LEMMA OwnerKept ==
  ASSUME NEW t \in Slot, thread'[t] = thread[t],
         state'[t] \in Live \cup {"ZOMBIE"} => state[t] \in Live \cup {"ZOMBIE"},
         \A q \in Slot : pc'[q] = "fork_run" /\ np'[q] = t => pc[q] = "fork_run" /\ np[q] = t
  PROVE  Owner(t)' => Owner(t)
BY ZenonT(30) DEF Owner

(* No page changes hands in a step that allocates and frees none.          *)
LEMMA PagesFrame ==
  ASSUME IInv, free' = free,
         \A t \in Slot :
           /\ kstack'[t] \in {kstack[t], NoPage}
           /\ state'[t] \in Live \cup {"ZOMBIE"} => kstack'[t] # NoPage
           /\ Owner(t)' => Owner(t) /\ pgdir'[t] = pgdir[t]
  PROVE  Pages'
<1>0. Pages /\ NoPage \notin Page
  BY DEF IInv, NoPage, Page
<1>1. ASSUME NEW s \in Slot, kstack'[s] # NoPage
      PROVE  kstack'[s] \notin Range(free') /\ \A t \in Slot \ {s} : kstack'[t] # kstack'[s]
  BY <1>0, <1>1, ZenonT(30) DEF Pages
<1>2. ASSUME NEW s \in Slot, Owner(s)'
      PROVE  /\ pgdir'[s] \in Page \ Range(free')
             /\ \A t \in Slot : kstack'[t] # pgdir'[s]
             /\ \A t \in Slot \ {s} : Owner(t)' => pgdir'[t] # pgdir'[s]
  <2>1. Owner(s) /\ pgdir'[s] = pgdir[s]
    BY <1>2, ZenonT(30)
  <2>2. QED
    BY <1>0, <2>1, ZenonT(30) DEF Pages
<1>3. IsInjective(free')
  BY <1>0, SMTT(30) DEF Pages
<1>4. QED
  BY <1>1, <1>2, <1>3, ZenonT(30) DEF Pages

(* kalloc() and kfree() move pages between the free list and the slots.    *)
LEMMA NextPages == IInv /\ Step => Pages'
<1> SUFFICES ASSUME IInv, Step PROVE Pages'
  OBVIOUS
<1>0. /\ state \in [Slot -> States] /\ pc \in [Slot -> PCs]
      /\ np \in [Slot -> Slot \cup {Null}] /\ thread \in [Slot -> BOOLEAN]
      /\ kstack \in [Slot -> Page \cup {NoPage}] /\ pgdir \in [Slot -> Page \cup {NoPage}]
      /\ free \in Seq(Page)
  BY ZenonT(30) DEF IInv, TypeOK
<1>old. Pages
  BY ZenonT(30) DEF IInv
<1>1. ASSUME NEW c \in CPU, SchedAcquire(c) PROVE Pages'
  <2>1. /\ UNCHANGED <<free, kstack, pgdir, thread>>
        /\ \A t \in Slot :
             /\ state'[t] \in Live \cup {"ZOMBIE"} => state[t] \in Live \cup {"ZOMBIE"}
             /\ pc'[t] = "fork_run" => pc[t] = "fork_run" /\ np'[t] = np[t]
    BY <1>1, <1>0, ZenonT(30) DEF SchedAcquire, Live, table, local, glob
  <2>2. QED
    BY <1>old, <2>1, OwnerKept, PagesFrame, ZenonT(30) DEF Pages
<1>2. ASSUME NEW c \in CPU, NEW s \in Slot, Runs(c, s) PROVE Pages'
  <2>1. /\ UNCHANGED <<free, kstack, pgdir, thread>>
        /\ \A t \in Slot :
             /\ state'[t] \in Live \cup {"ZOMBIE"} => state[t] \in Live \cup {"ZOMBIE"}
             /\ pc'[t] = "fork_run" => pc[t] = "fork_run" /\ np'[t] = np[t]
    BY <1>2, <1>0, ZenonT(30) DEF Runs, Live, local, glob
  <2>2. QED
    BY <1>old, <2>1, OwnerKept, PagesFrame, ZenonT(30) DEF Pages
<1>3. ASSUME NEW c \in CPU, SchedRelease(c) PROVE Pages'
  <2>1. /\ UNCHANGED <<free, kstack, pgdir, thread>>
        /\ \A t \in Slot :
             /\ state'[t] \in Live \cup {"ZOMBIE"} => state[t] \in Live \cup {"ZOMBIE"}
             /\ pc'[t] = "fork_run" => pc[t] = "fork_run" /\ np'[t] = np[t]
    BY <1>3, <1>0, ZenonT(30) DEF SchedRelease, Live, table, local, glob
  <2>2. QED
    BY <1>old, <2>1, OwnerKept, PagesFrame DEF Pages
<1>4. ASSUME NEW c \in CPU, Swtch(c) PROVE Pages'
  <2>1. /\ UNCHANGED <<free, kstack, pgdir, thread>>
        /\ \A t \in Slot :
             /\ state'[t] \in Live \cup {"ZOMBIE"} => state[t] \in Live \cup {"ZOMBIE"}
             /\ pc'[t] = "fork_run" => pc[t] = "fork_run" /\ np'[t] = np[t]
    BY <1>4, <1>0, ZenonT(30) DEF Swtch, Live, table, local, glob
  <2>2. QED
    BY <1>old, <2>1, OwnerKept, PagesFrame DEF Pages
<1>5. ASSUME NEW c \in CPU, Resume(c) PROVE Pages'
  <2>1. /\ UNCHANGED <<free, kstack, pgdir, thread>>
        /\ \A t \in Slot :
             /\ state'[t] \in Live \cup {"ZOMBIE"} => state[t] \in Live \cup {"ZOMBIE"}
             /\ pc'[t] = "fork_run" => pc[t] = "fork_run" /\ np'[t] = np[t]
    BY <1>5, <1>0, ZenonT(30) DEF Resume, Live, cpus, glob
  <2>2. QED
    BY <1>old, <2>1, OwnerKept, PagesFrame DEF Pages
<1>6. ASSUME NEW c \in CPU, NEW p \in Slot, Yield(c, p) PROVE Pages'
  <2>1. state[p] = "RUNNING"
    BY <1>6, Runner, ZenonT(30) DEF Yield, glob
  <2>2. /\ UNCHANGED <<free, kstack, pgdir, thread>>
        /\ \A t \in Slot :
             /\ state'[t] \in Live \cup {"ZOMBIE"} => state[t] \in Live \cup {"ZOMBIE"}
             /\ pc'[t] = "fork_run" => pc[t] = "fork_run" /\ np'[t] = np[t]
    BY <1>6, <1>0, <2>1, ZenonT(30) DEF Yield, Live, glob
  <2>3. QED
    BY <1>old, <2>2, OwnerKept, PagesFrame DEF Pages
<1>7. ASSUME NEW c \in CPU, NEW p \in Slot, FindsNone(c, p) PROVE Pages'
  <2>1. state[p] = "RUNNING"
    BY <1>7, Runner, ZenonT(30) DEF FindsNone, table, cpus, glob
  <2>2. /\ UNCHANGED <<free, kstack, pgdir, thread>>
        /\ \A t \in Slot :
             /\ state'[t] \in Live \cup {"ZOMBIE"} => state[t] \in Live \cup {"ZOMBIE"}
             /\ pc'[t] = "fork_run" => pc[t] = "fork_run" /\ np'[t] = np[t]
    BY <1>7, <1>0, <2>1, ZenonT(30) DEF FindsNone, Live, table, cpus, glob
  <2>3. QED
    BY <1>old, <2>2, OwnerKept, PagesFrame DEF Pages
<1>8. ASSUME NEW c \in CPU, NEW p \in Slot, NEW s \in Slot,
             NEW k \in {"fork_kstack", "clone_kstack"}, Claims(c, p, s, k)
      PROVE  Pages'
  <2>1. state[p] = "RUNNING"
    BY <1>8, Runner, ZenonT(30) DEF Claims, cpus
  <2>2. /\ UNCHANGED <<free, kstack, pgdir, thread>>
        /\ \A t \in Slot :
             /\ state'[t] \in Live \cup {"ZOMBIE"} => state[t] \in Live \cup {"ZOMBIE"}
             /\ pc'[t] = "fork_run" => pc[t] = "fork_run" /\ np'[t] = np[t]
    BY <1>8, <1>0, <2>1, ZenonT(30) DEF Claims, Live, cpus
  <2>3. QED
    BY <1>old, <2>2, OwnerKept, PagesFrame, ZenonT(30) DEF Pages
<1>9. ASSUME NEW c \in CPU, NEW p \in Slot, Kstack(c, p) PROVE Pages'
  <2>1. /\ np[p] \in Slot /\ state[np[p]] = "EMBRYO" /\ state[p] = "RUNNING"
        /\ pc[p] \in Creating /\ pc[p] # "fork_run" /\ free # <<>>
    BY <1>9, Runner, Filling, ZenonT(30) DEF Kstack, Creating
  <2>2. /\ Head(free) \in Range(free) /\ Head(free) \in Page
        /\ IsInjective(free') /\ Range(free') = Range(free) \ {Head(free)}
    BY <1>9, <1>0, <1>old, <2>1, Pop, ZenonT(30) DEF Kstack, Pages, cpus
  <2>3. /\ UNCHANGED <<state, pgdir>>
        /\ \A t \in Slot : kstack'[t] = IF t = np[p] THEN Head(free) ELSE kstack[t]
    BY <1>9, <1>0, ZenonT(30) DEF Kstack, cpus
  <2>4. ASSUME NEW t \in Slot PROVE Owner(t)' => Owner(t) /\ t # np[p]
    <3>1. \A q \in Slot : pc'[q] = "fork_run" => pc[q] = "fork_run" /\ np'[q] = np[q]
      BY <1>9, <1>0, <2>1, ZenonT(30) DEF Kstack, cpus
    <3>2. CASE t = np[p]
      <4>1. \A q \in Slot : ~ (pc[q] = "fork_run" /\ np[q] = np[p])
        BY <2>1, Filling, ZenonT(30) DEF Creating
      <4>2. QED
        BY <2>1, <2>3, <3>1, <3>2, <4>1, ZenonT(30) DEF Owner, Live
    <3>3. CASE t # np[p]
      <4>1. thread'[t] = thread[t]
        BY <1>9, <1>0, <3>3, ZenonT(30) DEF Kstack, cpus
      <4>2. QED
        BY <2>3, <3>1, <3>3, <4>1, OwnerKept, ZenonT(30)
    <3>4. QED
      BY <3>2, <3>3, ZenonT(30)
  <2>5. \A t \in Slot : kstack[t] # Head(free) /\ (Owner(t) => pgdir[t] # Head(free))
    BY <1>old, <2>2 DEF Pages, NoPage, Page
  <2>6. Head(free) # NoPage
    BY <2>2 DEF NoPage, Page
  <2>7. QED
    BY <1>old, <2>1, <2>2, <2>3, <2>4, <2>5, <2>6 DEF Pages
<1>10. ASSUME NEW c \in CPU, NEW p \in Slot, KstackFails(c, p) PROVE Pages'
  <2>1. /\ np[p] \in Slot /\ state[np[p]] = "EMBRYO" /\ state[p] = "RUNNING"
        /\ pc[p] \in Creating /\ pc[p] # "fork_run"
    BY <1>10, Runner, Filling, ZenonT(30) DEF KstackFails, Creating
  <2>2. /\ UNCHANGED <<free, pgdir, thread>>
        /\ \A t \in Slot : kstack'[t] = IF t = np[p] THEN NoPage ELSE kstack[t]
        /\ \A t \in Slot : state'[t] = IF t = np[p] THEN "UNUSED" ELSE state[t]
    BY <1>10, <1>0, ZenonT(30) DEF KstackFails, cpus, glob
  <2>3. \A t \in Slot : pc'[t] = "fork_run" => pc[t] = "fork_run" /\ np'[t] = np[t]
    BY <1>10, <1>0, ZenonT(30) DEF KstackFails, cpus, glob
  <2>4. \A t \in Slot : state'[t] \in Live \cup {"ZOMBIE"} =>
                        state[t] \in Live \cup {"ZOMBIE"} /\ t # np[p]
    BY <2>2, ZenonT(30) DEF Live
  <2>5. \A t \in Slot : Owner(t)' => Owner(t)
    BY <2>2, <2>3, <2>4, OwnerKept, ZenonT(30)
  <2>6. QED
    BY <1>old, <2>2, <2>4, <2>5, PagesFrame DEF Pages
<1>11. ASSUME NEW c \in CPU, NEW p \in Slot, ForkCopy(c, p) PROVE Pages'
  <2>1. /\ np[p] \in Slot /\ state[np[p]] = "EMBRYO" /\ free # <<>>
        /\ pc[p] \in Creating /\ pc[p] # "fork_run"
    BY <1>11, Runner, Filling, ZenonT(30) DEF ForkCopy, Creating
  <2>2. /\ Head(free) \in Range(free) /\ Head(free) \in Page
        /\ IsInjective(free') /\ Range(free') = Range(free) \ {Head(free)}
    BY <1>11, <1>0, <1>old, <2>1, Pop, ZenonT(30) DEF ForkCopy, Pages, cpus
  <2>3. /\ UNCHANGED <<state, kstack, thread>>
        /\ \A t \in Slot : pgdir'[t] = IF t = np[p] THEN Head(free) ELSE pgdir[t]
    BY <1>11, <1>0, ZenonT(30) DEF ForkCopy, cpus
  <2>4. ASSUME NEW t \in Slot, t # np[p] PROVE Owner(t)' => Owner(t)
    <3>1. \A q \in Slot : pc'[q] = "fork_run" /\ np'[q] = t => pc[q] = "fork_run" /\ np[q] = t
      BY <1>11, <1>0, <2>4, ZenonT(30) DEF ForkCopy, cpus
    <3>2. QED
      BY <2>3, <3>1, OwnerKept, ZenonT(30)
  <2>5. \A t \in Slot : kstack[t] # Head(free) /\ (Owner(t) => pgdir[t] # Head(free))
    BY <1>old, <2>2 DEF Pages, NoPage, Page
  <2>6. QED
    BY <1>old, <2>1, <2>2, <2>3, <2>4, <2>5, ZenonT(30) DEF Pages
<1>12. ASSUME NEW c \in CPU, NEW p \in Slot, ForkCopyFails(c, p)
      PROVE  Pages'
  <2>1. /\ np[p] \in Slot /\ state[np[p]] = "EMBRYO" /\ kstack[np[p]] # NoPage
        /\ pc[p] \in Creating /\ pc[p] # "fork_run" /\ state[p] = "RUNNING"
    BY <1>12, Runner, Filling, ZenonT(30) DEF ForkCopyFails, Creating
  <2>2. kstack[np[p]] \in Page \ Range(free)
    BY <1>0, <1>old, <2>1, ZenonT(30) DEF Pages
  <2>3. IsInjective(free') /\ Range(free') = Range(free) \cup {kstack[np[p]]}
    BY <1>12, <1>0, <1>old, <2>2, Push, ZenonT(30) DEF ForkCopyFails, UndoKstack, Pages, cpus
  <2>4. /\ UNCHANGED thread
        /\ \A t \in Slot : kstack'[t] = IF t = np[p] THEN NoPage ELSE kstack[t]
        /\ \A t \in Slot : state'[t] = IF t = np[p] THEN "UNUSED" ELSE state[t]
        /\ \A t \in Slot : t # np[p] => pgdir'[t] = pgdir[t]
    BY <1>12, <1>0, ZenonT(30) DEF ForkCopyFails, cpus
  <2>5. \A t \in Slot : pc'[t] = "fork_run" => pc[t] = "fork_run" /\ np'[t] = np[t]
    BY <1>12, <1>0, <2>1, ZenonT(30) DEF ForkCopyFails, cpus
  <2>6. \A t \in Slot : state'[t] \in Live \cup {"ZOMBIE"} =>
                        state[t] \in Live \cup {"ZOMBIE"} /\ t # np[p]
    BY <2>4, ZenonT(30) DEF Live
  <2>7. \A t \in Slot : Owner(t)' => Owner(t) /\ pgdir'[t] = pgdir[t]
    <3>1. \A t \in Slot : Owner(t)' => Owner(t)
      BY <2>4, <2>5, <2>6, OwnerKept, ZenonT(30)
    <3>2. \A q \in Slot : pc[q] = "fork_run" => np[q] # np[p]
      BY <2>1, ZenonT(30) DEF IInv, Newborns, Creating
    <3>3. \A t \in Slot : Owner(t)' => t # np[p]
      BY <2>5, <2>6, <3>2, ZenonT(30) DEF Owner
    <3>4. QED
      BY <2>4, <3>1, <3>3, ZenonT(30)
  <2>8. NoPage \notin Page
    BY DEF NoPage, Page
  <2>9. ASSUME NEW s \in Slot, kstack'[s] # NoPage
        PROVE  kstack'[s] \notin Range(free') /\ \A t \in Slot \ {s} : kstack'[t] # kstack'[s]
    <3>1. s # np[p] /\ kstack'[s] = kstack[s] /\ kstack[s] # NoPage
      BY <2>4, <2>9, ZenonT(30)
    <3>2. /\ kstack[s] \notin Range(free)
          /\ \A t \in Slot \ {s} : kstack[t] # kstack[s]
      BY <1>old, <3>1, ZenonT(30) DEF Pages
    <3>3. QED
      BY <2>1, <2>3, <2>4, <3>1, <3>2, ZenonT(30)
  <2>10. ASSUME NEW s \in Slot, Owner(s)'
         PROVE  /\ pgdir'[s] \in Page \ Range(free')
                /\ \A t \in Slot : kstack'[t] # pgdir'[s]
                /\ \A t \in Slot \ {s} : Owner(t)' => pgdir'[t] # pgdir'[s]
    <3>1. /\ Owner(s) /\ pgdir[s] \in Page \ Range(free)
          /\ \A t \in Slot : kstack[t] # pgdir[s]
          /\ \A t \in Slot \ {s} : Owner(t) => pgdir[t] # pgdir[s]
      BY <1>old, <2>7, <2>10, ZenonT(30) DEF Pages
    <3>2. pgdir'[s] = pgdir[s] /\ pgdir[s] # NoPage /\ pgdir[s] # kstack[np[p]]
      BY <2>1, <2>7, <2>8, <2>10, <3>1, ZenonT(30)
    <3>3. pgdir'[s] \in Page \ Range(free')
      BY <2>3, <3>1, <3>2, ZenonT(30)
    <3>4. \A t \in Slot : kstack'[t] # pgdir'[s]
      BY <2>4, <3>1, <3>2, ZenonT(30)
    <3>5. \A t \in Slot \ {s} : Owner(t)' => pgdir'[t] # pgdir'[s]
      BY <2>7, <3>1, <3>2, ZenonT(30)
    <3>6. QED
      BY <3>3, <3>4, <3>5
  <2>11. \A t \in Slot : state'[t] \in Live \cup {"ZOMBIE"} => kstack'[t] # NoPage
    BY <1>old, <2>4, <2>6, ZenonT(30) DEF Pages
  <2>12. QED
    BY <2>3, <2>9, <2>10, <2>11, ZenonT(30) DEF Pages
<1>13. ASSUME NEW c \in CPU, NEW p \in Slot, ForkRun(c, p) PROVE Pages'
  <2>1. np[p] \in Slot /\ kstack[np[p]] # NoPage /\ pc[p] = "fork_run" /\ state[p] = "RUNNING"
    BY <1>13, Runner, Filling, ZenonT(30) DEF ForkRun, Creating
  <2>2. /\ UNCHANGED <<free, kstack, pgdir, thread>>
        /\ \A t \in Slot : state'[t] = IF t = np[p] THEN "RUNNABLE" ELSE state[t]
    BY <1>13, <1>0, ZenonT(30) DEF ForkRun, cpus, glob
  <2>3. \A t \in Slot : pc'[t] = "fork_run" => pc[t] = "fork_run" /\ np'[t] = np[t]
    BY <1>13, <1>0, ZenonT(30) DEF ForkRun, cpus, glob
  <2>4. ASSUME NEW t \in Slot, Owner(t)' PROVE Owner(t)
    <3>1. CASE t = np[p]
      BY <2>1, <2>2, <2>4, <3>1, ZenonT(30) DEF Owner
    <3>2. CASE t # np[p]
      BY <2>2, <2>3, <2>4, <3>2, OwnerKept, ZenonT(30)
    <3>3. QED
      BY <3>1, <3>2, ZenonT(30)
  <2>5. QED
    BY <1>old, <2>1, <2>2, <2>4, PagesFrame, ZenonT(30) DEF Pages
<1>14. ASSUME NEW c \in CPU, NEW p \in Slot, CloneRead(c, p) PROVE Pages'
  <2>1. state[p] = "RUNNING"
    BY <1>14, Runner, ZenonT(30) DEF CloneRead, table, cpus, glob, Syscall
  <2>2. /\ UNCHANGED <<free, kstack, pgdir, thread>>
        /\ \A t \in Slot :
             /\ state'[t] \in Live \cup {"ZOMBIE"} => state[t] \in Live \cup {"ZOMBIE"}
             /\ pc'[t] = "fork_run" => pc[t] = "fork_run" /\ np'[t] = np[t]
    BY <1>14, <1>0, <2>1, ZenonT(30) DEF CloneRead, Live, table, cpus, glob, Syscall
  <2>3. QED
    BY <1>old, <2>2, OwnerKept, PagesFrame DEF Pages
<1>15. ASSUME NEW c \in CPU, NEW p \in Slot, CloneAdd(c, p) PROVE Pages'
  <2>1. state[p] = "RUNNING"
    BY <1>15, Runner, ZenonT(30) DEF CloneAdd, table, cpus
  <2>2. /\ UNCHANGED <<free, kstack, pgdir, thread>>
        /\ \A t \in Slot :
             /\ state'[t] \in Live \cup {"ZOMBIE"} => state[t] \in Live \cup {"ZOMBIE"}
             /\ pc'[t] = "fork_run" => pc[t] = "fork_run" /\ np'[t] = np[t]
    BY <1>15, <1>0, <2>1, ZenonT(30) DEF CloneAdd, Live, table, cpus
  <2>3. QED
    BY <1>old, <2>2, OwnerKept, PagesFrame DEF Pages
<1>16. ASSUME NEW c \in CPU, NEW p \in Slot, CloneRun(c, p) PROVE Pages'
  <2>1. np[p] \in Slot /\ kstack[np[p]] # NoPage /\ state[p] = "RUNNING"
    BY <1>16, Runner, Filling, ZenonT(30) DEF CloneRun, Creating
  <2>2. /\ UNCHANGED <<free, kstack>>
        /\ \A t \in Slot : state'[t] = IF t = np[p] THEN "RUNNABLE" ELSE state[t]
        /\ \A t \in Slot \ {np[p]} : pgdir'[t] = pgdir[t]
    BY <1>16, <1>0, ZenonT(30) DEF CloneRun, cpus, glob
  <2>3. \A t \in Slot : pc'[t] = "fork_run" => pc[t] = "fork_run" /\ np'[t] = np[t]
    BY <1>16, <1>0, ZenonT(30) DEF CloneRun, cpus, glob
  <2>4. thread'[np[p]] /\ \A t \in Slot \ {np[p]} : thread'[t] = thread[t]
    BY <1>16, <1>0, <2>1, ZenonT(30) DEF CloneRun, cpus, glob
  <2>5. ASSUME NEW t \in Slot, Owner(t)' PROVE Owner(t) /\ t # np[p]
    <3>1. t # np[p]
      BY <2>4, <2>5, ZenonT(30) DEF Owner
    <3>2. QED
      BY <2>2, <2>3, <2>4, <2>5, <3>1, OwnerKept, ZenonT(30)
  <2>6. QED
    BY <1>old, <2>1, <2>2, <2>5, PagesFrame, ZenonT(30) DEF Pages
<1>17. ASSUME NEW c \in CPU, NEW p \in Slot, Close(c, p) PROVE Pages'
  <2>1. state[p] = "RUNNING"
    BY <1>17, Runner, ZenonT(30) DEF Close, cpus, local, Syscall
  <2>2. /\ UNCHANGED <<free, kstack, pgdir, thread>>
        /\ \A t \in Slot :
             /\ state'[t] \in Live \cup {"ZOMBIE"} => state[t] \in Live \cup {"ZOMBIE"}
             /\ pc'[t] = "fork_run" => pc[t] = "fork_run" /\ np'[t] = np[t]
    BY <1>17, <1>0, <2>1, ZenonT(30) DEF Close, Live, cpus, local, Syscall
  <2>3. QED
    BY <1>old, <2>2, OwnerKept, PagesFrame DEF Pages
<1>18. ASSUME NEW c \in CPU, NEW p \in Slot, ExitFiles(c, p) PROVE Pages'
  <2>1. state[p] = "RUNNING"
    BY <1>18, Runner, ZenonT(30) DEF ExitFiles, cpus
  <2>2. /\ UNCHANGED <<free, kstack, pgdir, thread>>
        /\ \A t \in Slot :
             /\ state'[t] \in Live \cup {"ZOMBIE"} => state[t] \in Live \cup {"ZOMBIE"}
             /\ pc'[t] = "fork_run" => pc[t] = "fork_run" /\ np'[t] = np[t]
    BY <1>18, <1>0, <2>1, ZenonT(30) DEF ExitFiles, Live, cpus
  <2>3. QED
    BY <1>old, <2>2, OwnerKept, PagesFrame DEF Pages
<1>19. ASSUME NEW c \in CPU, NEW p \in Slot, ExitZombie(c, p) PROVE Pages'
  <2>1. state[p] = "RUNNING"
    BY <1>19, Runner, ZenonT(30) DEF ExitZombie, glob
  <2>2. /\ UNCHANGED <<free, kstack, pgdir, thread>>
        /\ \A t \in Slot :
             /\ state'[t] \in Live \cup {"ZOMBIE"} => state[t] \in Live \cup {"ZOMBIE"}
             /\ pc'[t] = "fork_run" => pc[t] = "fork_run" /\ np'[t] = np[t]
    BY <1>19, <1>0, <2>1, ZenonT(30) DEF ExitZombie, Live, wakeup1, glob
  <2>3. QED
    BY <1>old, <2>2, OwnerKept, PagesFrame DEF Pages
<1>20. ASSUME NEW c \in CPU, NEW p \in Slot, Wait(c, p) PROVE Pages'
  <2>1. state[p] = "RUNNING"
    BY <1>20, Runner, ZenonT(30) DEF Wait, table, cpus, glob, Syscall
  <2>2. /\ UNCHANGED <<free, kstack, pgdir, thread>>
        /\ \A t \in Slot :
             /\ state'[t] \in Live \cup {"ZOMBIE"} => state[t] \in Live \cup {"ZOMBIE"}
             /\ pc'[t] = "fork_run" => pc[t] = "fork_run" /\ np'[t] = np[t]
    BY <1>20, <1>0, <2>1, ZenonT(30) DEF Wait, Live, table, cpus, glob, Syscall
  <2>3. QED
    BY <1>old, <2>2, OwnerKept, PagesFrame DEF Pages
<1>21. ASSUME NEW c \in CPU, NEW p \in Slot, NEW q \in Slot, Reaps(c, p, q)
      PROVE  Pages'
  <2>1. /\ state[q] = "ZOMBIE" /\ Owner(q) /\ kstack[q] \in Page \ Range(free)
        /\ pgdir[q] \in Page \ Range(free) /\ kstack[q] # pgdir[q]
    BY <1>21, <1>0, <1>old, ZenonT(30) DEF Reaps, Owner, Pages, cpus, Scanning
  <2>2. /\ <<kstack[q]>> \o free \in Seq(Page) /\ IsInjective(<<kstack[q]>> \o free)
        /\ Range(<<kstack[q]>> \o free) = Range(free) \cup {kstack[q]}
    BY <1>0, <1>old, <2>1, Push, ZenonT(30) DEF Pages
  <2>3. <<pgdir[q], kstack[q]>> \o free = <<pgdir[q]>> \o (<<kstack[q]>> \o free)
    BY <1>0, <2>1
  <2>4. IsInjective(free') /\ Range(free') = Range(free) \cup {kstack[q], pgdir[q]}
    <3>1. free' = <<pgdir[q]>> \o (<<kstack[q]>> \o free)
      BY <1>21, <2>3 DEF Reaps, Reaped, cpus, Scanning
    <3>2. pgdir[q] \in Page /\ pgdir[q] \notin Range(<<kstack[q]>> \o free)
      BY <2>1, <2>2
    <3>3. /\ IsInjective(<<pgdir[q]>> \o (<<kstack[q]>> \o free))
          /\ Range(<<pgdir[q]>> \o (<<kstack[q]>> \o free))
               = Range(<<kstack[q]>> \o free) \cup {pgdir[q]}
      BY <2>2, <3>2, Push, ZenonT(30)
    <3>4. QED
      BY <2>2, <3>1, <3>3, Zenon
  <2>5. /\ UNCHANGED <<pgdir, thread>>
        /\ \A t \in Slot : kstack'[t] = IF t = q THEN NoPage ELSE kstack[t]
        /\ \A t \in Slot : state'[t] = IF t = q THEN "UNUSED" ELSE state[t]
    BY <1>21, <1>0, ZenonT(30) DEF Reaps, cpus, Scanning
  <2>6. \A t \in Slot : pc'[t] = "fork_run" => pc[t] = "fork_run" /\ np'[t] = np[t]
    BY <1>21, <1>0, ZenonT(30) DEF Reaps, cpus, Scanning
  <2>7. \A t \in Slot : state'[t] \in Live \cup {"ZOMBIE"} =>
                        state[t] \in Live \cup {"ZOMBIE"} /\ t # q
    BY <2>5, ZenonT(30) DEF Live
  <2>8. ASSUME NEW t \in Slot, Owner(t)' PROVE Owner(t) /\ t # q
    <3>1. Owner(t)
      BY <2>5, <2>6, <2>7, <2>8, OwnerKept, ZenonT(30)
    <3>2. \A r \in Slot : ~ (pc[r] = "fork_run" /\ np[r] = q)
      BY <2>1, Filling, ZenonT(30) DEF Creating
    <3>3. t # q
      BY <2>5, <2>6, <2>8, <3>2, ZenonT(30) DEF Owner, Live
    <3>4. QED
      BY <3>1, <3>3, ZenonT(30)
  <2>9. NoPage \notin Page
    BY DEF NoPage, Page
  <2>10. QED
    BY <1>old, <2>1, <2>4, <2>5, <2>7, <2>8, <2>9 DEF Pages
<1>22. ASSUME NEW c \in CPU, NEW p \in Slot, NEW q \in Slot, FindsThread(c, p, q)
      PROVE  Pages'
  <2>1. state[p] = "RUNNING"
    BY <1>22, Runner, ZenonT(30) DEF FindsThread, table, cpus, glob, Scanning
  <2>2. /\ UNCHANGED <<free, kstack, pgdir, thread>>
        /\ \A t \in Slot :
             /\ state'[t] \in Live \cup {"ZOMBIE"} => state[t] \in Live \cup {"ZOMBIE"}
             /\ pc'[t] = "fork_run" => pc[t] = "fork_run" /\ np'[t] = np[t]
    BY <1>22, <1>0, <2>1, ZenonT(30) DEF FindsThread, Live, table, cpus, glob, Scanning
  <2>3. QED
    BY <1>old, <2>2, OwnerKept, PagesFrame, ZenonT(30) DEF Pages
<1>23. ASSUME NEW c \in CPU, NEW p \in Slot, WaitDec(c, p) PROVE Pages'
  <2>1. np[p] \in Slot /\ state[np[p]] = "ZOMBIE" /\ state[p] = "RUNNING"
    BY <1>23, Runner, WaitsFor DEF WaitDec
  <2>2. /\ UNCHANGED <<free, kstack, pgdir, thread>>
        /\ \A t \in Slot :
             /\ state'[t] \in Live \cup {"ZOMBIE"} => state[t] \in Live \cup {"ZOMBIE"}
             /\ pc'[t] = "fork_run" => pc[t] = "fork_run" /\ np'[t] = np[t]
    BY <1>23, <1>0, <2>1, ZenonT(30) DEF WaitDec, Live, cpus
  <2>3. QED
    BY <1>old, <2>2, OwnerKept, PagesFrame DEF Pages
<1>24. ASSUME NEW c \in CPU, NEW p \in Slot, WaitFails(c, p) PROVE Pages'
  <2>1. state[p] = "RUNNING"
    BY <1>24, Runner, ZenonT(30) DEF WaitFails, table, cpus, glob, Scanning
  <2>2. /\ UNCHANGED <<free, kstack, pgdir, thread>>
        /\ \A t \in Slot :
             /\ state'[t] \in Live \cup {"ZOMBIE"} => state[t] \in Live \cup {"ZOMBIE"}
             /\ pc'[t] = "fork_run" => pc[t] = "fork_run" /\ np'[t] = np[t]
    BY <1>24, <1>0, <2>1, ZenonT(30) DEF WaitFails, Live, table, cpus, glob, Scanning
  <2>3. QED
    BY <1>old, <2>2, OwnerKept, PagesFrame DEF Pages
<1>25. ASSUME NEW c \in CPU, NEW p \in Slot, WaitSleep(c, p) PROVE Pages'
  <2>1. state[p] = "RUNNING"
    BY <1>25, Runner, ZenonT(30) DEF WaitSleep, glob, Scanning
  <2>2. /\ UNCHANGED <<free, kstack, pgdir, thread>>
        /\ \A t \in Slot :
             /\ state'[t] \in Live \cup {"ZOMBIE"} => state[t] \in Live \cup {"ZOMBIE"}
             /\ pc'[t] = "fork_run" => pc[t] = "fork_run" /\ np'[t] = np[t]
    BY <1>25, <1>0, <2>1, ZenonT(30) DEF WaitSleep, Live, glob, Scanning
  <2>3. QED
    BY <1>old, <2>2, OwnerKept, PagesFrame DEF Pages
<1>26. ASSUME NEW c \in CPU, NEW p \in Slot, NEW v \in Slot, Kills(c, p, v)
      PROVE  Pages'
  <2>1. state[p] = "RUNNING"
    BY <1>26, Runner, ZenonT(30) DEF Kills, cpus, local, glob, Syscall
  <2>2. /\ UNCHANGED <<free, kstack, pgdir, thread>>
        /\ \A t \in Slot :
             /\ state'[t] \in Live \cup {"ZOMBIE"} => state[t] \in Live \cup {"ZOMBIE"}
             /\ pc'[t] = "fork_run" => pc[t] = "fork_run" /\ np'[t] = np[t]
    BY <1>26, <1>0, <2>1, ZenonT(30) DEF Kills, Live, KillWakes, cpus, local, glob, Syscall
  <2>3. QED
    BY <1>old, <2>2, OwnerKept, PagesFrame DEF Pages
<1>27. CASE UNCHANGED vars
  <2>1. UNCHANGED <<free, kstack, pgdir, thread, state, pc, np>>
    BY <1>27, ZenonT(30) DEF vars, table, cpus, local, glob
  <2>2. QED
    BY <1>old, <2>1, OwnerKept, PagesFrame, ZenonT(30) DEF Pages
<1>28. QED
  BY <1>1, <1>2, <1>3, <1>4, <1>5, <1>6, <1>7, <1>8, <1>9, <1>10, <1>11, <1>12, <1>13,
     <1>14, <1>15, <1>16, <1>17, <1>18, <1>19, <1>20, <1>21, <1>22, <1>23, <1>24, <1>25,
     <1>26, <1>27, ZenonT(60)
     DEF Step, Moves

LOCAL INSTANCE WellFoundedInduction

(* The first of a set of numbers that is not empty is one of them.         *)
LEMMA MinNat ==
  ASSUME NEW T, T \subseteq Nat, T # {}
  PROVE  Min(T) \in T
<1> DEFINE R == OpToRel(<, Nat)
<1>1. IsWellFoundedOn(R, Nat)
  BY NatLessThanWellFounded, Zenon
<1>2. \A x, y \in Nat : <<y, x>> \in R <=> y < x
  BY ZenonT(30) DEF OpToRel
<1> HIDE DEF R
<1>3. PICK x \in T : \A y \in T : ~ (<<y, x>> \in R)
  BY <1>1, WFMin, ZenonT(30)
<1>4. \A y \in T : ~ (y < x)
  BY <1>2, <1>3, ZenonT(30)
<1>5. \A y \in T : x <= y
  BY <1>4
<1>6. QED
  BY <1>5, ZenonT(30) DEF Min

(* The slots that scheduler(), allocproc(), wait() and kill() pick.        *)
LEMMA Picks ==
  /\ \A c \in CPU : Runnable(c) # {} => Min(Runnable(c)) \in Runnable(c)
  /\ Unused # {} => Min(Unused) \in Unused
  /\ \A p \in Slot : Zombies(p) # {} => Min(Zombies(p)) \in Zombies(p)
  /\ \A k \in KillPids : Victims(k) # {} => Min(Victims(k)) \in Victims(k)
<1>0. Slot \subseteq Nat
  BY DEF Slot
<1>1. ASSUME NEW c \in CPU, Runnable(c) # {} PROVE Min(Runnable(c)) \in Runnable(c)
  <2>1. Runnable(c) \subseteq Nat
    BY <1>0, ZenonT(30) DEF Runnable
  <2>2. QED
    BY <1>1, <2>1, MinNat, ZenonT(30)
<1>2. ASSUME Unused # {} PROVE Min(Unused) \in Unused
  <2>1. Unused \subseteq Nat
    BY <1>0, ZenonT(30) DEF Unused
  <2>2. QED
    BY <1>2, <2>1, MinNat, ZenonT(30)
<1>3. ASSUME NEW p \in Slot, Zombies(p) # {} PROVE Min(Zombies(p)) \in Zombies(p)
  <2>1. Zombies(p) \subseteq Nat
    BY <1>0, ZenonT(30) DEF Zombies
  <2>2. QED
    BY <1>3, <2>1, MinNat, ZenonT(30)
<1>4. ASSUME NEW k \in KillPids, Victims(k) # {} PROVE Min(Victims(k)) \in Victims(k)
  <2>1. Victims(k) \subseteq Nat
    BY <1>0, ZenonT(30) DEF Victims
  <2>2. QED
    BY <1>4, <2>1, MinNat
<1>5. QED
  BY <1>1, <1>2, <1>3, <1>4, ZenonT(30)

(* Every scan finds a slot of the kind it looks for.                       *)
LEMMA ScanFinds ==
  /\ \A c \in CPU : SchedRun(c) => \E s \in Slot : Runs(c, s)
  /\ \A c \in CPU, p \in Slot :
       /\ Fork(c, p) \/ CloneAlloc(c, p) =>
            \/ FindsNone(c, p)
            \/ \E s \in Slot, k \in {"fork_kstack", "clone_kstack"} : Claims(c, p, s, k)
       /\ WaitReap(c, p) => \E q \in Slot : Reaps(c, p, q)
       /\ WaitThread(c, p) => \E q \in Slot : FindsThread(c, p, q)
       /\ \A k \in KillPids : Kill(c, p, k) => \E v \in Slot : Kills(c, p, v)
<1>1. ASSUME NEW c \in CPU, SchedRun(c) PROVE \E s \in Slot : Runs(c, s)
  <2>1. Min(Runnable(c)) \in Runnable(c)
    BY <1>1, Picks, ZenonT(30) DEF SchedRun
  <2>2. Runs(c, Min(Runnable(c))) /\ Min(Runnable(c)) \in Slot
    BY <1>1, <2>1, ZenonT(30) DEF SchedRun, Runs, Runnable
  <2>3. QED
    BY <2>2, ZenonT(30)
<1>2. ASSUME NEW c \in CPU, NEW p \in Slot, Fork(c, p) \/ CloneAlloc(c, p)
      PROVE  \/ FindsNone(c, p)
             \/ \E s \in Slot, k \in {"fork_kstack", "clone_kstack"} : Claims(c, p, s, k)
  <2>1. PICK k \in {"fork_kstack", "clone_kstack"} : allocproc(p, k)
    BY <1>2, ZenonT(30) DEF Fork, CloneAlloc
  <2>2. Running(c, p) /\ pc[p] \in {"user", "clone_alloc"}
    BY <1>2, ZenonT(30) DEF Fork, CloneAlloc, Syscall
  <2>3. CASE Unused = {}
    <3>1. FindsNone(c, p)
      BY <2>1, <2>2, <2>3, ZenonT(30) DEF allocproc, FindsNone, table, glob
    <3>2. QED
      BY <3>1, ZenonT(30)
  <2>4. CASE Unused # {}
    <3>1. Min(Unused) \in Slot /\ state[Min(Unused)] = "UNUSED"
      BY <2>4, Picks, ZenonT(30) DEF Unused
    <3>2. Claims(c, p, Min(Unused), k)
      BY <2>1, <2>2, <2>4, <3>1, ZenonT(30) DEF allocproc, Claims
    <3>3. QED
      BY <3>1, <3>2, ZenonT(30)
  <2>5. QED
    BY <2>3, <2>4, ZenonT(30)
<1>3. ASSUME NEW c \in CPU, NEW p \in Slot, WaitReap(c, p)
      PROVE  \E q \in Slot : Reaps(c, p, q)
  <2>1. Min(Zombies(p)) \in Zombies(p)
    BY <1>3, Picks, ZenonT(30) DEF WaitReap
  <2>2. Reaps(c, p, Min(Zombies(p))) /\ Min(Zombies(p)) \in Slot
    BY <1>3, <2>1, ZenonT(30) DEF WaitReap, Reaps, Zombies, NoParent
  <2>3. QED
    BY <2>2, ZenonT(30)
<1>4. ASSUME NEW c \in CPU, NEW p \in Slot, WaitThread(c, p)
      PROVE  \E q \in Slot : FindsThread(c, p, q)
  <2>1. Min(Zombies(p)) \in Zombies(p)
    BY <1>4, Picks, ZenonT(30) DEF WaitThread
  <2>2. FindsThread(c, p, Min(Zombies(p))) /\ Min(Zombies(p)) \in Slot
    BY <1>4, <2>1, ZenonT(30) DEF WaitThread, FindsThread, Zombies
  <2>3. QED
    BY <2>2
<1>5. ASSUME NEW c \in CPU, NEW p \in Slot, NEW k \in KillPids, Kill(c, p, k)
      PROVE  \E v \in Slot : Kills(c, p, v)
  <2>1. Min(Victims(k)) \in Slot
    <3>1. Min(Victims(k)) \in Victims(k)
      BY <1>5, Picks, ZenonT(30) DEF Kill
    <3>2. QED
      BY <3>1, ZenonT(30) DEF Victims
  <2>2. Kills(c, p, Min(Victims(k)))
    BY <1>5, ZenonT(30) DEF Kill, Kills
  <2>3. QED
    BY <2>1, <2>2, ZenonT(30)
<1>6. QED
  BY <1>1, <1>2, <1>3, <1>4, <1>5, ZenonT(30)

(* Every step of Next but a stutter is one of them.                        *)
LEMMA NextMoves == [Next]_vars => Step
<1> SUFFICES ASSUME Next PROVE Step
  BY ZenonT(30) DEF Step
<1>1. CASE Halted
  BY <1>1, ZenonT(30) DEF Halted, Step
<1>2. ASSUME NEW c \in CPU, Sched(c) PROVE Moves
  BY <1>2, ScanFinds, ZenonT(30) DEF Sched, Moves
<1>3. ASSUME NEW c \in CPU, NEW p \in Slot, Enter(c, p) PROVE Moves
  BY <1>3, ScanFinds, ZenonT(30) DEF Enter, Moves
<1>4. ASSUME NEW c \in CPU, NEW p \in Slot, Continue(c, p) PROVE Moves
  BY <1>4, ScanFinds, ZenonT(30) DEF Continue, Moves
<1>5. ASSUME NEW c \in CPU, NEW p \in Slot, Yield(c, p) \/ ExitFiles(c, p) PROVE Moves
  BY <1>5, ZenonT(30) DEF Moves
<1>6. QED
  BY <1>1, <1>2, <1>3, <1>4, <1>5, ZenonT(30) DEF Next, Step

(* userinit() and the first pass of the schedulers start inside it.        *)
LEMMA InitIInv == Init => IInv
<1> SUFFICES ASSUME Init PROVE IInv
  OBVIOUS
<1> USE ProcAssumption
<1>0. /\ initproc \in Slot /\ Null \notin Slot /\ NPAGE - 1 \in Page /\ NPAGE \in Page
      /\ NoPage \notin Page
  BY DEF initproc, Slot, Null, Page, NoPage
<1>1. free \in Seq(Page)
  <2>1. NPAGE - 2 \in Nat /\ \A i \in 1 .. NPAGE - 2 : NPAGE - 1 - i \in Page
    BY DEF Page
  <2>2. QED
    BY <2>1 DEF Init
<1>2. TypeOK
  <2>1. 1 \in 1 .. NPROC + 1 /\ 1 \in Nat /\ 0 \in Nat /\ 2 \in Nat /\ 0 \in Int /\ 1 \in Int
    OBVIOUS
  <2>2. /\ state \in [Slot -> States] /\ pc \in [Slot -> PCs]
        /\ ctx \in [Slot -> {"none", "release", "sleep"}]
        /\ cpc \in [CPU -> {"loop", "scan", "run", "sched"}]
    BY ZenonT(30) DEF Init, States, PCs
  <2>3. /\ kstack \in [Slot -> Page \cup {NoPage}] /\ pgdir \in [Slot -> Page \cup {NoPage}]
        /\ pid \in [Slot -> Nat] /\ reg \in [Slot -> Int] /\ scan \in [CPU -> 1 .. NPROC + 1]
    BY <1>0, <2>1, ZenonT(30) DEF Init
  <2>4. /\ parent \in [Slot -> Slot \cup {Null}] /\ chan \in [Slot -> Slot \cup {Null}]
        /\ np \in [Slot -> Slot \cup {Null}] /\ cproc \in [CPU -> Slot \cup {Null}]
    BY ZenonT(30) DEF Init
  <2>5. /\ killed \in [Slot -> BOOLEAN] /\ thread \in [Slot -> BOOLEAN]
        /\ ofile \in [Slot -> BOOLEAN]
    BY ZenonT(30) DEF Init
  <2>6. QED
    BY <1>1, <2>1, <2>2, <2>3, <2>4, <2>5, ZenonT(30) DEF Init, TypeOK
<1>3. Lock
  BY ZenonT(30) DEF Init, Lock, Holds
<1>4. Cpus
  BY <1>0, ZenonT(30) DEF Init, Cpus
<1>5. Contexts
  BY ZenonT(30) DEF Init, Contexts, Live
<1>6. Newborns
  BY ZenonT(30) DEF Init, Newborns, Creating
<1>7. Family
  BY <1>0, ZenonT(30) DEF Init, Family, ParentAlive, Live
<1>8. WaiterWoken
  BY ZenonT(30) DEF Init, WaiterWoken
<1>9. Pages
  <2>1. DOMAIN free = 1 .. NPAGE - 2 /\ \A i \in 1 .. NPAGE - 2 : free[i] = NPAGE - 1 - i
    BY ZenonT(30) DEF Init
  <2>2. IsInjective(free)
    BY <2>1 DEF IsInjective
  <2>3. NPAGE \notin Range(free) /\ NPAGE - 1 \notin Range(free)
    BY <2>1 DEF Range
  <2>4. \A s \in Slot : Owner(s) => s = initproc
    BY ZenonT(30) DEF Init, Owner, Live
  <2>5. \A s \in Slot : /\ kstack[s] = IF s = initproc THEN NPAGE ELSE NoPage
                        /\ pgdir[s] = IF s = initproc THEN NPAGE - 1 ELSE NoPage
                        /\ state[s] \in Live \cup {"ZOMBIE"} => s = initproc
    BY ZenonT(30) DEF Init, Live
  <2>6. NPAGE # NPAGE - 1
    OBVIOUS
  <2>7. QED
    BY <1>0, <2>2, <2>3, <2>4, <2>5, <2>6, ZenonT(30) DEF Pages
<1>10. QED
  BY <1>2, <1>3, <1>4, <1>5, <1>6, <1>7, <1>8, <1>9, ZenonT(30) DEF IInv

(* IInv is an invariant of the process table.                              *)
LEMMA Invariance == Spec => []IInv
<1>1. ASSUME IInv, [Next]_vars PROVE IInv'
  BY <1>1, NextMoves, NextTypeOK, NextLock, NextCpus, NextContexts, NextNewborns, NextFamily,
     NextWaiters, NextPages, ZenonT(30) DEF IInv
<1>2. QED
  BY <1>1, InitIInv, PTL DEF Spec

(* A process runs on one processor at a time, and c->proc and p->state     *)
(* agree, for any number of slots, processors, pages and system calls in   *)
(* any order (scheduler(), sched(), yield(), sleep(), wakeup1(), kill()).  *)
THEOREM ProcRunsOnce == Spec => []RunningOnce
<1>1. IInv => RunningOnce
  <2> SUFFICES ASSUME IInv PROVE RunningOnce
    OBVIOUS
  <2>1. Cpus
    BY ZenonT(30) DEF IInv
  <2>2. QED
    BY <2>1 DEF Cpus, RunningOnce
<1>2. QED
  BY <1>1, Invariance, PTL

(* No processor executes on a kernel stack that is on the free list or     *)
(* belongs to another slot: a zombie leaves its stack in swtch() before    *)
(* wait() can take ptable.lock and free it.                                *)
THEOREM ProcKernelStacks == Spec => []KernelStacks
<1>1. IInv => KernelStacks
  <2> SUFFICES ASSUME IInv, NEW c \in CPU, cpc[c] \in {"run", "sched"}
               PROVE  /\ kstack[cproc[c]] # NoPage /\ kstack[cproc[c]] \notin Range(free)
                      /\ \A s \in Slot \ {cproc[c]} : kstack[s] # kstack[cproc[c]]
    BY DEF KernelStacks
  <2>1. cproc[c] \in Slot /\ state[cproc[c]] \in Live \cup {"ZOMBIE"}
    BY ZenonT(30) DEF IInv, Cpus, Live
  <2>2. QED
    BY <2>1, ZenonT(30) DEF IInv, Pages
<1>2. QED
  BY <1>1, Invariance, PTL

(* exit() leaves no child without a parent that can still call wait().     *)
THEOREM ProcParentAlive == Spec => []ParentAlive
<1>1. IInv => ParentAlive
  BY DEF IInv, Family
<1>2. QED
  BY <1>1, Invariance, PTL

(* A process asleep in wait() has no exited child and no pending kill: the *)
(* wakeups of exit(), of its reparenting and of kill() are never lost.     *)
THEOREM ProcWaiterWoken == Spec => []WaiterWoken
<1>1. IInv => WaiterWoken
  BY ZenonT(30) DEF IInv
<1>2. QED
  BY <1>1, Invariance, PTL

=============================================================================
