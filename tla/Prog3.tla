-------------------------------- MODULE Prog3 --------------------------------
(***************************************************************************)
(* prog3.c: threads made with clone() pass a token around in turn, under   *)
(* the spin lock of thread_lib.h.  The loop test reads output without the  *)
(* lock.  xchg() in x86.h does not tell the compiler that memory changes,  *)
(* so output++ under the lock adds to the value in memory in one build     *)
(* (prog3.asm) and to the value of the loop test, kept in a register, in   *)
(* another (gcc -O2 of this source): both are outcomes of the model.       *)
(***************************************************************************)
EXTENDS Integers

CONSTANTS numofthread,   \* threads to create
          passnum        \* passes to make

ASSUME Prog3Constants == numofthread \in Nat /\ passnum \in Nat

VARIABLES wpc, seen,         \* worker: label and the output of its loop test
          lockword, output, workpid,
          mpc, i, pid,       \* main(): label, loop counter, did the last clone succeed?
          passes             \* history: passes made

vars3 == <<wpc, seen, lockword, output, workpid, mpc, i, pid, passes>>
shared == <<lockword, output, workpid, passes>>

Worker == 0 .. numofthread - 1

Prog3Init ==
    /\ wpc = [w \in Worker |-> "none"] /\ seen = [w \in Worker |-> 0]
    /\ lockword = 0 /\ output = 0 /\ workpid = 0 /\ passes = 0
    /\ mpc = "create" /\ i = 0 /\ pid = FALSE

WGoto(w, label) == wpc' = [wpc EXCEPT ![w] = label]

-----------------------------------------------------------------------------
\* main() creates the threads; a clone() that fails leaves none.  It waits
\* only when the last thread_create() returned a pid.
thread_create ==
    /\ mpc = "create" /\ i < numofthread
    /\ \/ WGoto(i, "test") /\ pid' = TRUE
       \/ pid' = FALSE /\ UNCHANGED wpc
    /\ i' = i + 1 /\ UNCHANGED <<seen, mpc, shared>>

Created ==
    /\ mpc = "create" /\ i = numofthread
    /\ mpc' = (IF pid THEN "wait" ELSE "exit") /\ i' = 0
    /\ UNCHANGED <<wpc, seen, pid, shared>>

WaitCount == numofthread

\* One wait(): a thread that has exited, or -1 when there is none left.
wait ==
    /\ mpc = "wait" /\ i < WaitCount
    /\ \/ \E w \in Worker : wpc[w] = "exit" /\ WGoto(w, "reaped")
       \/ (\A w \in Worker : wpc[w] \in {"none", "reaped"}) /\ UNCHANGED wpc
    /\ i' = i + 1 /\ UNCHANGED <<seen, mpc, pid, shared>>

Waited ==
    /\ mpc = "wait" /\ i = WaitCount /\ mpc' = "exit"
    /\ UNCHANGED <<wpc, seen, i, pid, shared>>

-----------------------------------------------------------------------------
\* worker(): the loop test, both reads of output in one.
Unfinished == output < passnum

Test(w) ==
    /\ wpc[w] = "test" /\ seen' = [seen EXCEPT ![w] = output]
    /\ WGoto(w, IF Unfinished THEN "lock" ELSE "exit")
    /\ UNCHANGED <<mpc, i, pid, shared>>

LockFreeInverted == lockword # 0
LockFree == lockword = 0

\* One xchg(): the thread enters when it finds 0 and tries again when not.
lock_acquire(w) ==
    /\ wpc[w] = "lock"
    /\ IF LockFree THEN lockword' = 1 /\ WGoto(w, "check") ELSE UNCHANGED <<lockword, wpc>>
    /\ UNCHANGED <<seen, output, workpid, passes, mpc, i, pid>>

Check(w) ==
    /\ wpc[w] = "check"
    /\ IF w = workpid
       THEN /\ output' \in {output + 1, seen[w] + 1}
            /\ passes' = passes + 1 /\ WGoto(w, "pass")
       ELSE WGoto(w, "release") /\ UNCHANGED <<output, passes>>
    /\ UNCHANGED <<seen, lockword, workpid, mpc, i, pid>>

NextWorkerSame == workpid
NextWorker == IF workpid + 1 = numofthread THEN 0 ELSE workpid + 1

Pass(w) ==
    /\ wpc[w] = "pass" /\ workpid' = NextWorker /\ WGoto(w, "release")
    /\ UNCHANGED <<seen, lockword, output, passes, mpc, i, pid>>

\* lock_release() and sleep(1).
lock_release(w) ==
    /\ wpc[w] = "release" /\ lockword' = 0 /\ WGoto(w, "test")
    /\ UNCHANGED <<seen, output, workpid, passes, mpc, i, pid>>

-----------------------------------------------------------------------------
Main == thread_create \/ Created \/ wait \/ Waited
WorkerStep(w) == Test(w) \/ lock_acquire(w) \/ Check(w) \/ Pass(w) \/ lock_release(w)

\* main() and all threads have exited.
Ended ==
    /\ mpc = "exit" /\ \A w \in Worker : wpc[w] \in {"none", "exit", "reaped"}
    /\ UNCHANGED vars3

Prog3Next == Main \/ Ended \/ \E w \in Worker : WorkerStep(w)

Prog3Spec == Prog3Init /\ [][Prog3Next]_vars3

\* A thread that released the lock sleeps for a tick, during which a thread
\* that spins on it keeps trying: it is strongly fair.
Prog3Fairness == WF_vars3(Main) /\ \A w \in Worker : SF_vars3(WorkerStep(w))

-----------------------------------------------------------------------------
Prog3TypeOK ==
    /\ wpc \in [Worker -> {"none", "test", "lock", "check", "pass", "release", "exit", "reaped"}]
    /\ seen \in [Worker -> Nat] /\ lockword \in {0, 1} /\ output \in Nat /\ passes \in Nat
    /\ workpid \in Nat /\ (numofthread > 0 => workpid \in Worker)
    /\ mpc \in {"create", "wait", "exit"} /\ i \in 0 .. numofthread /\ pid \in BOOLEAN

InSection(w) == wpc[w] \in {"check", "pass", "release"}

(* At most one thread is between lock_acquire() and lock_release(), and it *)
(* is what the lock word says; a thread about to hand the token on is the  *)
(* one that has it.                                                        *)
TokenExclusion ==
    /\ \A v, w \in Worker : InSection(v) /\ InSection(w) => v = w
    /\ lockword = 1 <=> \E w \in Worker : InSection(w)
    /\ \A w \in Worker : wpc[w] = "pass" => w = workpid

(* The token goes round in order: the k-th pass is made by thread k mod    *)
(* numofthread, whatever the order in which the threads get the lock.      *)
PassesInTurn ==
    numofthread > 0 =>
        workpid = (IF \E w \in Worker : wpc[w] = "pass" THEN passes - 1 ELSE passes) % numofthread

(* prog3.c:71 counts the passes in output, which is compared with passnum  *)
(* without the lock, and a count read before the lock may lose those of a  *)
(* whole round: still no thread makes more than passnum passes.            *)
PassesBounded == passes <= numofthread * passnum

(* main() exits only when every thread it created has, provided that the   *)
(* last clone() succeeded: the threads run in the memory of main().        *)
MainExitsLast ==
    mpc = "exit" /\ pid => \A w \in Worker : wpc[w] \in {"none", "reaped"}

(* When no clone() fails and no pass is lost from the count, all threads   *)
(* stop and main() exits: the token reaches every thread, each sees the    *)
(* end.  A count that goes back after some threads have left it at passnum *)
(* keeps the others waiting for a token that does not come.                *)
AllEnd == (\A w \in Worker : wpc[w] # "none") ~> (mpc = "exit" \/ output # passes)

\* prog3.c, all of it that is safety: one thread has the token, it goes round
\* in order, not too often, and main() outlives the threads.
PassingSound ==
    Prog3TypeOK /\ TokenExclusion /\ PassesInTurn /\ PassesBounded /\ MainExitsLast

=============================================================================
