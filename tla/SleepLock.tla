----------------------------- MODULE SleepLock -----------------------------
(***************************************************************************)
(* sleeplock.c over sleep() and wakeup() of proc.c: one sleep-lock, its    *)
(* inner spinlock lk, and ptable.lock, with every acquire and release a    *)
(* step of its own.  A process that sleeps gives the processor up in       *)
(* sched(); the scheduler releases ptable.lock for it and takes it again   *)
(* before it resumes the process.                                          *)
(***************************************************************************)
EXTENDS Naturals

CONSTANTS Proc,     \* processes that use the sleep-lock
          None      \* no process

ASSUME NoneAssumption == None \notin Proc

VARIABLES lk,       \* holder of the spinlock lk->lk
          ptable,   \* holder of ptable.lock
          locked,   \* lk->locked
          owner,    \* lk->pid
          state,    \* proc->state, for a process that has gone to sleep
          pc

vars == <<lk, ptable, locked, owner, state, pc>>

TypeOK ==
  /\ lk \in Proc \cup {None}
  /\ ptable \in Proc \cup {None}
  /\ locked \in BOOLEAN
  /\ owner \in Proc \cup {None}
  /\ state \in [Proc -> {"RUNNING", "SLEEPING", "RUNNABLE"}]
  /\ pc \in [Proc -> {"idle", "test", "sleeplock1", "release", "sleep", "sched",
                      "sleeplock2", "held", "wakeup", "release_lk"}]

Init == /\ lk = None /\ ptable = None
        /\ locked = FALSE /\ owner = None
        /\ state = [p \in Proc |-> "RUNNING"]
        /\ pc = [p \in Proc |-> "idle"]

-----------------------------------------------------------------------------
(* acquiresleep(): take lk and test the lock.                              *)
AcquireLk(p) ==
  /\ pc[p] = "idle"
  /\ lk = None /\ lk' = p
  /\ pc' = [pc EXCEPT ![p] = "test"]
  /\ UNCHANGED <<ptable, locked, owner, state>>

TestFree(p) ==
  /\ pc[p] = "test" /\ ~locked
  /\ locked' = TRUE /\ owner' = p
  /\ lk' = None
  /\ pc' = [pc EXCEPT ![p] = "held"]
  /\ UNCHANGED <<ptable, state>>

TestLocked(p) ==
  /\ pc[p] = "test" /\ locked
  /\ pc' = [pc EXCEPT ![p] = "sleeplock1"]
  /\ UNCHANGED <<lk, ptable, locked, owner, state>>

(* sleep(lk, &lk->lk): ptable.lock is taken before lk is released.         *)
SleepReleaseFirst(p) ==
  /\ pc[p] = "sleeplock1"
  /\ lk' = None
  /\ pc' = [pc EXCEPT ![p] = "sleep"]
  /\ UNCHANGED <<ptable, locked, owner, state>>

SleepAcquirePtable(p) ==
  /\ pc[p] = "sleeplock1"
  /\ ptable = None /\ ptable' = p
  /\ pc' = [pc EXCEPT ![p] = "release"]
  /\ UNCHANGED <<lk, locked, owner, state>>

SleepReleaseLk(p) ==
  /\ pc[p] = "release"
  /\ lk' = None
  /\ pc' = [pc EXCEPT ![p] = "sleep"]
  /\ UNCHANGED <<ptable, locked, owner, state>>

(* SLEEPING, then sched(): the scheduler drops ptable.lock.                *)
SleepSched(p) ==
  /\ pc[p] = "sleep"
  /\ state' = [state EXCEPT ![p] = "SLEEPING"]
  /\ ptable' = None
  /\ pc' = [pc EXCEPT ![p] = "sched"]
  /\ UNCHANGED <<lk, locked, owner>>

(* The scheduler picks the process, which leaves sleep()'s critical        *)
(* section; ptable.lock is held from the choice to the release.            *)
Resume(p) ==
  /\ pc[p] = "sched" /\ state[p] = "RUNNABLE"
  /\ ptable = None
  /\ state' = [state EXCEPT ![p] = "RUNNING"]
  /\ pc' = [pc EXCEPT ![p] = "sleeplock2"]
  /\ UNCHANGED <<lk, ptable, locked, owner>>

(* The end of sleep(): take lk again and go round acquiresleep()'s loop.   *)
ReacquireNoLoop(p) ==
  /\ pc[p] = "sleeplock2"
  /\ lk = None
  /\ locked' = TRUE /\ owner' = p
  /\ pc' = [pc EXCEPT ![p] = "held"]
  /\ UNCHANGED <<lk, ptable, state>>

Reacquire(p) ==
  /\ pc[p] = "sleeplock2"
  /\ lk = None /\ lk' = p
  /\ pc' = [pc EXCEPT ![p] = "test"]
  /\ UNCHANGED <<ptable, locked, owner, state>>

-----------------------------------------------------------------------------
(* releasesleep(): clear the lock, wake the sleepers, release lk.          *)
ReleaseSleep(p) ==
  /\ pc[p] = "held"
  /\ lk = None /\ lk' = p
  /\ locked' = FALSE /\ owner' = None
  /\ pc' = [pc EXCEPT ![p] = "wakeup"]
  /\ UNCHANGED <<ptable, state>>

(* wakeup1(): every sleeper on this channel becomes RUNNABLE.              *)
wakeup1 == [p \in Proc |-> IF state[p] = "SLEEPING" THEN "RUNNABLE" ELSE state[p]]

Wakeup(p) ==
  /\ pc[p] = "wakeup"
  /\ ptable = None
  /\ state' = wakeup1
  /\ pc' = [pc EXCEPT ![p] = "release_lk"]
  /\ UNCHANGED <<lk, ptable, locked, owner>>

ReleaseLk(p) ==
  /\ pc[p] = "release_lk"
  /\ lk' = None
  /\ pc' = [pc EXCEPT ![p] = "idle"]
  /\ UNCHANGED <<ptable, locked, owner, state>>

(* kill() of a process that sleeps here: it wakes with the lock taken.     *)
Kill(p) ==
  /\ ptable = None
  /\ state[p] = "SLEEPING"
  /\ state' = [state EXCEPT ![p] = "RUNNABLE"]
  /\ UNCHANGED <<lk, ptable, locked, owner, pc>>

(* holdingsleep(), as the holder's code asserts it.                        *)
holdingsleep(p) == locked /\ owner = p

-----------------------------------------------------------------------------
Step(p) == \/ AcquireLk(p) \/ TestFree(p) \/ TestLocked(p)
           \/ SleepAcquirePtable(p) \/ SleepReleaseLk(p) \/ SleepSched(p)
           \/ Resume(p) \/ Reacquire(p)
           \/ ReleaseSleep(p) \/ Wakeup(p) \/ ReleaseLk(p)

Next == \E p \in Proc : Step(p) \/ Kill(p)

Spec == Init /\ [][Next]_vars

(* A process that runs goes on; the holder releases the lock some day; a   *)
(* spinlock that is free again and again is some day taken by a process    *)
(* that spins on it.  Nobody has to call acquiresleep() or kill().         *)
Fairness == \A p \in Proc : SF_vars(Step(p) /\ ~AcquireLk(p))

FairSpec == Spec /\ Fairness

-----------------------------------------------------------------------------
(* Properties.                                                             *)

(* At most one process is between acquiresleep() and releasesleep(), and   *)
(* it is the one that holdingsleep() recognises.                           *)
MutualExclusion ==
  \A p \in Proc : pc[p] = "held" =>
    holdingsleep(p) /\ \A q \in Proc \ {p} : pc[q] # "held"

(* "Once we hold ptable.lock, we can be guaranteed that we won't miss any  *)
(* wakeup": a process sleeps only while the lock is taken, or while the    *)
(* process that released it is on its way to wakeup().                     *)
NoLostWakeup ==
  \A p \in Proc : state[p] = "SLEEPING" =>
    locked \/ \E q \in Proc : pc[q] = "wakeup"

(* Every sleeper is woken, by the release it waits for or by kill().       *)
SleeperWoken == \A p \in Proc : state[p] = "SLEEPING" ~> state[p] # "SLEEPING"
=============================================================================
