---------------------------- MODULE LockProofs ----------------------------
(***************************************************************************)
(* The two locks of the system, for any number of their users.  First the  *)
(* safety of sleeplock.c over sleep() and wakeup(), then the token that    *)
(* the threads of prog3.c pass under the spin lock of thread_lib.h, for    *)
(* any number of passes and for both builds of output++.                   *)
(***************************************************************************)
EXTENDS SleepLock, Prog3, FiniteSetTheorems, TLAPS

(* lk is held exactly inside the critical sections of acquiresleep() and   *)
(* releasesleep(), ptable.lock exactly in sleep() between taking it and    *)
(* sched().                                                                *)
Spinlocks ==
  \A p \in Proc :
    /\ pc[p] \in {"test", "sleeplock1", "release", "wakeup", "release_lk"} <=> lk = p
    /\ pc[p] \in {"release", "sleep"} <=> ptable = p

(* The sleep-lock is locked exactly when its owner is past acquiresleep(). *)
Ownership ==
  \A p \in Proc : pc[p] = "held" <=> locked /\ owner = p

Locked == locked => owner \in Proc

(* A process sleeps, or waits to be scheduled, only inside sched().        *)
Asleep == \A p \in Proc : state[p] # "RUNNING" => pc[p] = "sched"

(* On its way to sleep a process knows that a wakeup is still to come.     *)
WakeupComing ==
  \A p \in Proc :
    /\ pc[p] \in {"sleeplock1", "release"} => locked
    /\ pc[p] = "sleep" => locked \/ \E q \in Proc : pc[q] = "wakeup"

IInv == TypeOK /\ Spinlocks /\ Ownership /\ Locked /\ Asleep /\ WakeupComing
        /\ NoLostWakeup

-----------------------------------------------------------------------------
(* The invariant holds when the lock has been initialised.                 *)
LEMMA InitIInv == Init => IInv
BY NoneAssumption, ZenonT(30)
   DEF Init, IInv, TypeOK, Spinlocks, Ownership, Locked, Asleep, WakeupComing,
       NoLostWakeup

(* Every step of acquiresleep(), sleep(), releasesleep(), wakeup() and     *)
(* kill() preserves the invariant.                                         *)
LEMMA NextIInv == IInv /\ [Next]_vars => IInv'
<1> USE NoneAssumption
<1> SUFFICES ASSUME IInv, [Next]_vars PROVE IInv'
  OBVIOUS
<1> USE DEF IInv, TypeOK, Spinlocks, Ownership, Locked, Asleep, WakeupComing,
            NoLostWakeup
<1>1. ASSUME NEW p \in Proc, AcquireLk(p) PROVE IInv'
  BY <1>1 DEF AcquireLk
<1>2. ASSUME NEW p \in Proc, TestFree(p) PROVE IInv'
  BY <1>2 DEF TestFree
<1>3. ASSUME NEW p \in Proc, TestLocked(p) PROVE IInv'
  BY <1>3 DEF TestLocked
<1>4. ASSUME NEW p \in Proc, SleepAcquirePtable(p) PROVE IInv'
  BY <1>4 DEF SleepAcquirePtable
<1>5. ASSUME NEW p \in Proc, SleepReleaseLk(p) PROVE IInv'
  BY <1>5 DEF SleepReleaseLk
<1>6. ASSUME NEW p \in Proc, SleepSched(p) PROVE IInv'
  BY <1>6 DEF SleepSched
<1>7. ASSUME NEW p \in Proc, Resume(p) PROVE IInv'
  BY <1>7 DEF Resume
<1>8. ASSUME NEW p \in Proc, Reacquire(p) PROVE IInv'
  BY <1>8 DEF Reacquire
<1>9. ASSUME NEW p \in Proc, ReleaseSleep(p) PROVE IInv'
  BY <1>9, ZenonT(30) DEF ReleaseSleep
<1>10. ASSUME NEW p \in Proc, Wakeup(p) PROVE IInv'
  BY <1>10 DEF Wakeup, wakeup1
<1>11. ASSUME NEW p \in Proc, ReleaseLk(p) PROVE IInv'
  BY <1>11 DEF ReleaseLk
<1>12. ASSUME NEW p \in Proc, Kill(p) PROVE IInv'
  BY <1>12 DEF Kill
<1>13. CASE UNCHANGED vars
  BY <1>13 DEF vars
<1>14. QED
  BY <1>1, <1>2, <1>3, <1>4, <1>5, <1>6, <1>7, <1>8, <1>9, <1>10, <1>11,
     <1>12, <1>13, ZenonT(30) DEF Next, Step

(* Types, as established by every operation of the sleep-lock.             *)
THEOREM SleepLockType == Spec => []TypeOK
<1>1. IInv => TypeOK
  BY DEF IInv
<1>2. QED
  BY InitIInv, NextIInv, <1>1, PTL DEF Spec

(* acquiresleep() admits one process at a time, for any number of them,    *)
(* and holdingsleep() recognises that one.                                 *)
THEOREM SleepLockSafe == Spec => []MutualExclusion
<1>1. IInv => MutualExclusion
  BY DEF IInv, Ownership, MutualExclusion, holdingsleep
<1>2. QED
  BY InitIInv, NextIInv, <1>1, PTL DEF Spec

(* sleep() never misses the wakeup() of the release it waits for.          *)
THEOREM SleepMissesNoWakeup == Spec => []NoLostWakeup
<1>1. IInv => NoLostWakeup
  BY DEF IInv
<1>2. QED
  BY InitIInv, NextIInv, <1>1, PTL DEF Spec

-----------------------------------------------------------------------------
(* The threads of prog3.c.                                                 *)
Passing == \E w \in Worker : wpc[w] = "pass"

(* The token has been round q times and is with workpid: each thread below *)
(* workpid has made q + 1 passes, the others q.                            *)
Round(q) ==
    /\ passes = numofthread * q + workpid + (IF Passing THEN 1 ELSE 0)
    /\ output >= q + (IF Passing \/ workpid > 0 THEN 1 ELSE 0)
    /\ \A w \in Worker : wpc[w] \in {"lock", "check"} =>
          seen[w] >= q + (IF w < workpid THEN 1 ELSE 0)
    /\ Passing => q < passnum
    /\ q < passnum \/ (q = passnum /\ workpid = 0)

(* A thread is past the loop test only if it saw work to do.               *)
SawWork == \A w \in Worker : wpc[w] \in {"lock", "check"} => seen[w] < passnum

Reaped == {w \in Worker : wpc[w] = "reaped"}
AllReaped == \A w \in Worker : wpc[w] \in {"none", "reaped"}

(* main() has reaped a thread with each wait() that found one.             *)
Reaping ==
    /\ mpc = "create" => Reaped = {} /\ \A w \in Worker : w >= i => wpc[w] = "none"
    /\ mpc = "wait" => AllReaped \/ Cardinality(Reaped) = i
    /\ mpc = "exit" /\ pid => AllReaped

PassInv ==
    /\ Prog3TypeOK /\ TokenExclusion /\ SawWork /\ Reaping
    /\ numofthread > 0 => \E q \in Nat : Round(q)
    /\ numofthread = 0 => passes = 0

-----------------------------------------------------------------------------
(* The invariant holds when main() starts.                                 *)
LEMMA InitPassing == Prog3Init => PassInv
<1> SUFFICES ASSUME Prog3Init PROVE PassInv
  BY ZenonT(30)
<1> USE Prog3Constants DEF Prog3Init
<1>1. Prog3TypeOK
  <2>1. /\ wpc \in [Worker -> {"none"}] /\ seen \in [Worker -> Nat]
        /\ numofthread > 0 => workpid \in Worker
    BY DEF Worker
  <2>2. pid \in BOOLEAN
    BY Zenon
  <2>3. lockword \in {0, 1} /\ output \in Nat /\ passes \in Nat /\ workpid \in Nat /\ i \in 0 .. numofthread
    OBVIOUS
  <2>4. QED
    BY <2>1, <2>2, <2>3, Zenon DEF Prog3TypeOK
<1>2. TokenExclusion /\ SawWork
  BY DEF TokenExclusion, InSection, SawWork
<1>3. Reaping
  BY ZenonT(30) DEF Reaping, Reaped
<1>4. numofthread > 0 => Round(0)
  BY DEF Round, Passing
<1>5. QED
  BY <1>1, <1>2, <1>3, <1>4, ZenonT(30) DEF PassInv

(* Types.                                                                  *)
LEMMA NextPassType == PassInv /\ [Prog3Next]_vars3 => Prog3TypeOK'
<1> SUFFICES ASSUME PassInv, [Prog3Next]_vars3 PROVE Prog3TypeOK'
  BY ZenonT(30)
<1> USE Prog3Constants DEF PassInv, Prog3TypeOK, Worker, WGoto, shared
<1>1. CASE thread_create
  <2>1. wpc' \in [Worker -> {"none", "test", "lock", "check", "pass", "release", "exit", "reaped"}]
    BY <1>1, ZenonT(30) DEF thread_create
  <2>2. i' \in 0 .. numofthread
    BY <1>1 DEF thread_create
  <2>3. pid' \in BOOLEAN
    BY <1>1, Zenon DEF thread_create
  <2>4. QED
    BY <1>1, <2>1, <2>2, <2>3, ZenonT(30) DEF thread_create
<1>2. CASE Created
  BY <1>2 DEF Created
<1>3. CASE wait
  BY <1>3 DEF wait, WaitCount
<1>4. CASE Waited
  BY <1>4, ZenonT(30) DEF Waited
<1>5. ASSUME NEW w \in Worker, Test(w) PROVE Prog3TypeOK'
  BY <1>5, ZenonT(30) DEF Test
<1>6. ASSUME NEW w \in Worker, lock_acquire(w) PROVE Prog3TypeOK'
  BY <1>6, ZenonT(30) DEF lock_acquire
<1>7. ASSUME NEW w \in Worker, Check(w) PROVE Prog3TypeOK'
  BY <1>7, SMTT(30) DEF Check
<1>8. ASSUME NEW w \in Worker, Pass(w) PROVE Prog3TypeOK'
  BY <1>8 DEF Pass, NextWorker
<1>9. ASSUME NEW w \in Worker, lock_release(w) PROVE Prog3TypeOK'
  BY <1>9, ZenonT(30) DEF lock_release
<1>10. CASE UNCHANGED vars3
  BY <1>10, ZenonT(30) DEF vars3
<1>11. QED
  BY <1>1, <1>2, <1>3, <1>4, <1>5, <1>6, <1>7, <1>8, <1>9, <1>10, ZenonT(30)
     DEF Prog3Next, Main, WorkerStep, Ended

(* The lock admits one thread, and only the thread with the token passes.  *)
LEMMA NextExclusion == PassInv /\ [Prog3Next]_vars3 => TokenExclusion' /\ SawWork'
<1> SUFFICES ASSUME PassInv, [Prog3Next]_vars3 PROVE TokenExclusion' /\ SawWork'
  OBVIOUS
<1> USE Prog3Constants
        DEF PassInv, Prog3TypeOK, TokenExclusion, InSection, SawWork, WGoto, shared
<1>1. CASE thread_create
  BY <1>1, SMTT(30) DEF thread_create, Reaping, Worker
<1>2. CASE Created
  BY <1>2, ZenonT(30) DEF Created
<1>3. CASE wait
  BY <1>3, ZenonT(30) DEF wait
<1>4. CASE Waited
  BY <1>4, ZenonT(30) DEF Waited
<1>5. ASSUME NEW w \in Worker, Test(w) PROVE TokenExclusion' /\ SawWork'
  BY <1>5, ZenonT(30) DEF Test, Unfinished
<1>6. ASSUME NEW w \in Worker, lock_acquire(w) PROVE TokenExclusion' /\ SawWork'
  BY <1>6 DEF lock_acquire, LockFree
<1>7. ASSUME NEW w \in Worker, Check(w) PROVE TokenExclusion' /\ SawWork'
  BY <1>7, ZenonT(30) DEF Check
<1>8. ASSUME NEW w \in Worker, Pass(w) PROVE TokenExclusion' /\ SawWork'
  BY <1>8, ZenonT(30) DEF Pass
<1>9. ASSUME NEW w \in Worker, lock_release(w) PROVE TokenExclusion' /\ SawWork'
  BY <1>9 DEF lock_release
<1>10. CASE UNCHANGED vars3
  BY <1>10, ZenonT(30) DEF vars3
<1>11. QED
  BY <1>1, <1>2, <1>3, <1>4, <1>5, <1>6, <1>7, <1>8, <1>9, <1>10, ZenonT(30)
     DEF Prog3Next, Main, WorkerStep, Ended

(* main() reaps: a wait() that returns a thread counts it, so when as many *)
(* have returned as threads were asked for, none of them is left.          *)
LEMMA ReapedFinite == IsFiniteSet(Reaped) /\ Cardinality(Worker) = numofthread /\ IsFiniteSet(Worker)
<1>1. IsFiniteSet(Worker) /\ Cardinality(Worker) = numofthread
  BY FS_Interval, Prog3Constants DEF Worker
<1>2. IsFiniteSet(Reaped)
  BY <1>1, FS_Subset DEF Reaped
<1>3. QED
  BY <1>1, <1>2, ZenonT(30)

LEMMA NextReaping == PassInv /\ [Prog3Next]_vars3 => Reaping'
<1> SUFFICES ASSUME PassInv, [Prog3Next]_vars3 PROVE Reaping'
  OBVIOUS
<1> USE Prog3Constants DEF PassInv, Prog3TypeOK, WGoto, shared
<1>1. CASE thread_create
  <2>1. mpc' = "create" /\ i \in Worker /\ i' = i + 1
    BY <1>1 DEF thread_create, Worker
  <2>2. Reaped' = {} /\ \A w \in Worker : w >= i + 1 => wpc'[w] = "none"
    BY <1>1, <2>1, SMTT(30) DEF thread_create, Reaping, Reaped, Worker
  <2>3. QED
    BY <2>1, <2>2, ZenonT(30) DEF Reaping
<1>2. CASE Created
  <2>1. Reaped' = Reaped /\ Reaped = {}
    BY <1>2, ZenonT(30) DEF Created, Reaping, Reaped
  <2>2. Cardinality(Reaped') = i'
    BY <1>2, <2>1, FS_EmptySet, ZenonT(30) DEF Created
  <2>3. CASE pid
    BY <1>2, <2>2, <2>3, ZenonT(30) DEF Created, Reaping
  <2>4. CASE ~pid
    BY <1>2, <2>4, ZenonT(30) DEF Created, Reaping
  <2>5. QED
    BY <2>3, <2>4, ZenonT(30)
<1>3. CASE wait
  <2>1. mpc' = "wait" /\ mpc = "wait" /\ i' = i + 1
    BY <1>3, ZenonT(30) DEF wait
  <2>2. ASSUME NEW w \in Worker, wpc[w] = "exit", WGoto(w, "reaped")
        PROVE  Cardinality(Reaped') = i'
    <3>1. Reaped' = Reaped \cup {w} /\ w \notin Reaped
      BY <2>2, ZenonT(30) DEF Reaped
    <3>2. Cardinality(Reaped) = i
      BY <2>1, <2>2, ZenonT(30) DEF Reaping, AllReaped
    <3>3. QED
      BY <2>1, <3>1, <3>2, ReapedFinite, FS_AddElement, ZenonT(30)
  <2>3. CASE AllReaped /\ UNCHANGED wpc
    BY <2>1, <2>3, ZenonT(30) DEF Reaping, AllReaped
  <2>4. QED
    BY <1>3, <2>1, <2>2, <2>3, ZenonT(30) DEF wait, Reaping, AllReaped
<1>4. CASE Waited
  <2>1. AllReaped
    <3>1. CASE Cardinality(Reaped) = i
      <4>1. Cardinality(Reaped) = Cardinality(Worker) /\ Reaped \subseteq Worker
        BY <1>4, <3>1, ReapedFinite, ZenonT(30) DEF Waited, WaitCount, Reaped
      <4>2. Reaped = Worker
        BY <4>1, ReapedFinite, FS_Subset, ZenonT(30)
      <4>3. QED
        BY <4>2 DEF Reaped, AllReaped
    <3>2. QED
      BY <1>4, <3>1, ZenonT(30) DEF Waited, Reaping
  <2>2. QED
    BY <1>4, <2>1, ZenonT(30) DEF Waited, Reaping, AllReaped
<1>5. ASSUME NEW w \in Worker, WorkerStep(w) PROVE Reaping'
  <2>1. /\ wpc[w] \notin {"none", "reaped"} /\ wpc'[w] \notin {"none", "reaped"}
        /\ \A v \in Worker : v # w => wpc'[v] = wpc[v]
        /\ UNCHANGED <<mpc, i, pid>>
    <3>1. CASE Test(w)
      BY <3>1, ZenonT(30) DEF Test
    <3>2. CASE lock_acquire(w)
      BY <3>2, ZenonT(30) DEF lock_acquire
    <3>3. CASE Check(w)
      BY <3>3, ZenonT(30) DEF Check
    <3>4. CASE Pass(w)
      BY <3>4, ZenonT(30) DEF Pass
    <3>5. CASE lock_release(w)
      BY <3>5, ZenonT(30) DEF lock_release
    <3>6. QED
      BY <1>5, <3>1, <3>2, <3>3, <3>4, <3>5, ZenonT(30) DEF WorkerStep
  <2>2. Reaped' = Reaped
    BY <2>1, ZenonT(30) DEF Reaped
  <2>3. ~ AllReaped
    BY <2>1, ZenonT(30) DEF AllReaped
  <2>4. QED
    BY <2>1, <2>2, <2>3, ZenonT(30) DEF Reaping
<1>6. CASE UNCHANGED vars3
  BY <1>6, ZenonT(30) DEF vars3, Reaping, Reaped, AllReaped
<1>7. QED
  BY <1>1, <1>2, <1>3, <1>4, <1>5, <1>6, ZenonT(30) DEF Prog3Next, Main, Ended

(* The token goes round: only Check() and Pass() concern it.               *)
LEMMA NextRound ==
    PassInv /\ [Prog3Next]_vars3 /\ numofthread > 0 => \E q \in Nat : Round(q)'
<1> SUFFICES ASSUME PassInv, [Prog3Next]_vars3, numofthread > 0
             PROVE  \E q \in Nat : Round(q)'
  BY ZenonT(30)
<1> USE Prog3Constants DEF PassInv, Prog3TypeOK, WGoto, shared
<1> PICK q \in Nat : Round(q)
  BY ZenonT(30)
<1>0. numofthread * q \in Nat
  OBVIOUS
<1>1. CASE Main
  <2>1. UNCHANGED <<seen, shared>>
    BY <1>1, ZenonT(30) DEF Main, thread_create, Created, wait, Waited
  <2>2. \A w \in Worker : wpc'[w] = wpc[w] \/ (wpc[w] # "pass" /\ wpc'[w] \in {"test", "reaped"})
    <3>1. CASE thread_create
      BY <3>1 DEF thread_create, Reaping, Worker
    <3>2. CASE Created \/ wait \/ Waited
      BY <3>2, ZenonT(30) DEF Created, wait, Waited
    <3>3. QED
      BY <1>1, <3>1, <3>2, ZenonT(30) DEF Main
  <2>3. Passing' = Passing
    BY <2>2, ZenonT(30) DEF Passing
  <2>4. QED
    BY <2>1, <2>2, <2>3, ZenonT(30) DEF Round
<1>2. ASSUME NEW w \in Worker, Test(w) PROVE Round(q)'
  <2>1. Passing' = Passing
    BY <1>2, ZenonT(30) DEF Test, Passing, Unfinished
  <2>2. \A v \in Worker : wpc'[v] \in {"lock", "check"} =>
           seen'[v] >= q + (IF v < workpid THEN 1 ELSE 0)
    BY <1>2 DEF Test, Round, Worker
  <2>3. QED
    BY <1>2, <2>1, <2>2, ZenonT(30) DEF Test, Round
<1>3. ASSUME NEW w \in Worker, lock_acquire(w) PROVE Round(q)'
  <2>1. Passing' = Passing
    BY <1>3, ZenonT(30) DEF lock_acquire, Passing
  <2>2. \A v \in Worker : wpc'[v] \in {"lock", "check"} <=> wpc[v] \in {"lock", "check"}
    BY <1>3, ZenonT(30) DEF lock_acquire
  <2>3. QED
    BY <1>3, <2>1, <2>2, ZenonT(30) DEF lock_acquire, Round
<1>4. ASSUME NEW w \in Worker, Check(w) PROVE Round(q)'
  <2>1. \A v \in Worker : wpc'[v] \in {"lock", "check"} =>
           wpc[v] \in {"lock", "check"} /\ seen'[v] = seen[v]
    BY <1>4, ZenonT(30) DEF Check
  <2>2. CASE w # workpid
    <3>1. Passing' = Passing
      BY <1>4, <2>2, ZenonT(30) DEF Check, Passing
    <3>2. QED
      BY <1>4, <2>1, <2>2, <3>1, ZenonT(30) DEF Check, Round
  <2>3. CASE w = workpid
    <3>1. ~Passing /\ Passing'
      BY <1>4, <2>3, ZenonT(30) DEF Check, Passing, TokenExclusion, InSection
    <3>2. q <= seen[w] /\ seen[w] < passnum /\ q <= output
      BY <1>4, <2>3 DEF Check, Round, SawWork, Worker
    <3>3. output' >= q + 1 /\ passes' = passes + 1 /\ workpid' = workpid
      BY <1>4, <2>3, <3>2 DEF Check
    <3>4. q < passnum
      BY <3>2
    <3>5. QED
      BY <1>0, <2>1, <3>1, <3>3, <3>4 DEF Round
  <2>4. QED
    BY <2>2, <2>3, ZenonT(30)
<1>5. ASSUME NEW w \in Worker, Pass(w) PROVE Round(q)' \/ Round(q + 1)'
  <2>1. /\ Passing /\ ~Passing' /\ w = workpid
    BY <1>5, ZenonT(30) DEF Pass, Passing, TokenExclusion, InSection
  <2>2. \A v \in Worker : wpc'[v] \in {"lock", "check"} =>
           wpc[v] \in {"lock", "check"} /\ seen'[v] = seen[v] /\ v # w
    BY <1>5, ZenonT(30) DEF Pass
  <2>3. CASE workpid + 1 = numofthread
    <3>1. workpid' = 0 /\ UNCHANGED <<seen, output, passes>>
      BY <1>5, <2>3, ZenonT(30) DEF Pass, NextWorker
    <3>2. passes = numofthread * (q + 1)
      BY <2>1, <2>3 DEF Round
    <3>3. \A v \in Worker : wpc'[v] \in {"lock", "check"} => seen'[v] >= q + 1
      BY <2>1, <2>2, <2>3 DEF Round, Worker
    <3>4. output >= q + 1 /\ q < passnum
      BY <2>1, ZenonT(30) DEF Round
    <3>5. QED
      BY <2>1, <3>1, <3>2, <3>3, <3>4 DEF Round, Worker
  <2>4. CASE workpid + 1 # numofthread
    <3>1. workpid' = workpid + 1 /\ UNCHANGED <<seen, output, passes>>
      BY <1>5, <2>4, ZenonT(30) DEF Pass, NextWorker
    <3>2. \A v \in Worker : wpc'[v] \in {"lock", "check"} =>
             seen'[v] >= q + (IF v < workpid + 1 THEN 1 ELSE 0)
      BY <2>1, <2>2 DEF Round, Worker
    <3>3. QED
      BY <1>0, <2>1, <3>1, <3>2 DEF Round
  <2>5. QED
    BY <2>3, <2>4
<1>6. ASSUME NEW w \in Worker, lock_release(w) PROVE Round(q)'
  <2>1. Passing' = Passing
    BY <1>6, ZenonT(30) DEF lock_release, Passing
  <2>2. \A v \in Worker : wpc'[v] \in {"lock", "check"} => wpc[v] \in {"lock", "check"}
    BY <1>6, ZenonT(30) DEF lock_release
  <2>3. QED
    BY <1>6, <2>1, <2>2, ZenonT(30) DEF lock_release, Round
<1>7. CASE UNCHANGED vars3
  BY <1>7, ZenonT(30) DEF vars3, Round, Passing
<1>8. q + 1 \in Nat
  OBVIOUS
<1>9. QED
  BY <1>1, <1>2, <1>3, <1>4, <1>5, <1>6, <1>7, <1>8, ZenonT(30)
     DEF Prog3Next, WorkerStep, Ended

(* Without threads no pass is made.                                        *)
LEMMA NextNone == PassInv /\ [Prog3Next]_vars3 => (numofthread = 0 => passes' = 0)
<1> SUFFICES ASSUME PassInv, [Prog3Next]_vars3, numofthread = 0 PROVE passes' = 0
  OBVIOUS
<1>1. Worker = {}
  BY DEF Worker
<1>2. UNCHANGED passes
  BY <1>1, ZenonT(30) DEF Prog3Next, Main, thread_create, Created, wait, Waited, Ended, vars3, shared
<1>3. QED
  BY <1>2 DEF PassInv

(* What the invariant says of the passes.                                  *)
LEMMA RoundSound ==
    PassInv => PassesInTurn /\ PassesBounded /\ MainExitsLast
<1> SUFFICES ASSUME PassInv PROVE PassesInTurn /\ PassesBounded /\ MainExitsLast
  OBVIOUS
<1> USE Prog3Constants DEF PassInv, Prog3TypeOK
<1>1. MainExitsLast
  BY ZenonT(30) DEF MainExitsLast, Reaping, AllReaped
<1>2. CASE numofthread = 0
  <2>1. numofthread * passnum = 0
    BY <1>2
  <2>2. QED
    BY <1>1, <1>2, <2>1 DEF PassesInTurn, PassesBounded
<1>3. CASE numofthread > 0
  <2> PICK q \in Nat : Round(q)
    BY <1>3, ZenonT(30)
  <2>1. (IF Passing THEN passes - 1 ELSE passes) = numofthread * q + workpid
    BY DEF Round
  <2>2. workpid \in 0 .. numofthread - 1
    BY <1>3, ZenonT(30) DEF Worker
  <2>3. (numofthread * q + workpid) % numofthread = workpid
    BY <1>3, <2>2
  <2>4. PassesInTurn
    BY <2>1, <2>3, ZenonT(30) DEF PassesInTurn, Passing
  <2>5. CASE q < passnum
    <3>1. passes <= numofthread * (q + 1)
      BY <2>2 DEF Round
    <3>2. q + 1 <= passnum => numofthread * (q + 1) <= numofthread * passnum
      OBVIOUS
    <3>3. QED
      BY <1>1, <2>4, <2>5, <3>1, <3>2 DEF PassesBounded
  <2>6. CASE q = passnum /\ workpid = 0
    BY <1>1, <2>4, <2>6 DEF PassesBounded, Round
  <2>7. QED
    BY <2>5, <2>6, ZenonT(30) DEF Round
<1>4. QED
  BY <1>1, <1>2, <1>3

(* prog3.c:60-85: for any number of threads and passes, and whether the    *)
(* compiler keeps output in a register or not, one thread at a time has    *)
(* the token, it goes round in order, no thread makes more than passnum    *)
(* passes and main() exits after the threads it has waited for.            *)
THEOREM TokenPassing == Prog3Spec => []PassingSound
<1>1. PassInv /\ [Prog3Next]_vars3 => PassInv'
  BY NextPassType, NextExclusion, NextReaping, NextRound, NextNone, ZenonT(30) DEF PassInv
<1>2. PassInv => PassingSound
  BY RoundSound, ZenonT(30) DEF PassInv, PassingSound
<1>3. QED
  BY <1>1, <1>2, InitPassing, PTL DEF Prog3Spec

=============================================================================
