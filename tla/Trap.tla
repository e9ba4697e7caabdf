-------------------------------- MODULE Trap --------------------------------
(***************************************************************************)
(* Spin locks and interrupts: spinlock.c, the timer and keyboard traps of  *)
(* trap.c and console.c, and the calls that share a lock with them (sleep, *)
(* a console read, a message on the console), with sched(), sleep() and    *)
(* the round-robin scheduler() under them.                                 *)
(*                                                                         *)
(* A context is what runs on a CPU: a process in the kernel, or the CPU's  *)
(* scheduler.  code[x] is what context x has still to execute, a sequence  *)
(* of instructions <<operation, argument>>; <<>> is a process in user      *)
(* space.  An interrupt puts its handler in front of what it interrupts,   *)
(* as the trap frame on the kernel stack does, so a handler moves to       *)
(* another CPU with the process it interrupted when that one yields.       *)
(***************************************************************************)
EXTENDS Integers, Sequences, FiniteSets, SequencesExt

CONSTANTS CPU, Cpu0, NPROC, None,
          Calls,     \* the system calls that each process makes
          Ticks,     \* the argument of sleep()
          Victims    \* the processes that kill() is called on

ASSUME TrapConstants ==
    /\ Cpu0 \in CPU /\ NPROC \in Nat /\ Ticks \in Nat
    /\ Victims \subseteq 1 .. NPROC
    /\ None \notin CPU \cup (1 .. NPROC) /\ CPU \cap (1 .. NPROC) = {}

Proc == 1 .. NPROC
Lock == {"ptable", "ticks", "cons"}

VARIABLES IF_, ncli, intena,    \* per CPU: interrupts enabled, struct cpu
          cur,                  \* mycpu()->proc
          lock,                 \* the CPU that holds each spin lock, or None
          code,
          state, chan, saved,   \* per process: state, chan, sched()'s intena
          left,                 \* n - (ticks - ticks0), down to 0
          line,                 \* input.r != input.w
          killed,
          panicked

vars == <<IF_, ncli, intena, cur, lock, code, state, chan, saved, left, line, killed, panicked>>

Ctx(c) == IF cur[c] = None THEN c ELSE cur[c]

-----------------------------------------------------------------------------
(* Code as sequences of instructions                                       *)

acquire(lk) == <<"acquire", lk>>
release(lk) == <<"release", lk>>

\* sleep(chan, lk): under ptable.lock from before lk is released.
sleepOnReleasesFirst(ch, lk) == <<release(lk), acquire("ptable"), <<"block", ch>>,
                                  release("ptable"), acquire(lk)>>
sleepOn(ch, lk) == <<acquire("ptable"), release(lk), <<"block", ch>>,
                     release("ptable"), acquire(lk)>>

wakeup(ch) == <<acquire("ptable"), <<"wakeup1", ch>>, release("ptable")>>

\* The locking of cprintf() and consolewrite().
cprintf == <<acquire("cons"), release("cons")>>

\* yield(), without a message under ptable.lock.
yield == <<acquire("ptable"), <<"ready", "">>, release("ptable")>>

\* sys_sleep(), consoleread(), a call that prints, kill(), the locking of
\* exit(), and the branch of wait() that reaps a thread and prints with
\* ptable.lock held.
sys_sleep == <<acquire("ticks"), <<"ticks0", "">>, <<"untilticks", "">>, release("ticks")>>
consoleread == <<acquire("cons"), <<"untilline", "">>, release("cons")>>
kill == <<acquire("ptable"), <<"setkilled", "">>, release("ptable")>>
exit == cprintf \o <<acquire("ptable"), <<"zombie", "">>>>
waitThread == <<acquire("ptable")>> \o cprintf \o <<release("ptable")>>

syscall(k) ==
    CASE k = "sleep" -> sys_sleep [] k = "read" -> consoleread
      [] k = "print" -> cprintf [] k = "kill" -> kill [] k = "wait" -> waitThread

\* The end of trap(): a killed process that was in user space exits, also
\* when it was killed while the timer made it yield.  "iret" restores the
\* flags of what was interrupted, which had interrupts on.
timerTrap(c) ==
    (IF c = Cpu0 THEN <<acquire("ticks"), <<"tick", "">>>> \o wakeup("ticks") \o <<release("ticks")>>
     ELSE <<>>) \o <<<<"preempt", "">>, <<"ifkilled", "">>, <<"iret", "">>>>

\* kbdintr(): keys that may complete a line.
kbdTrap(c) == <<acquire("cons"), <<"keys", "">>, release("cons"), <<"ifkilled", "">>, <<"iret", "">>>>

scheduler == <<<<"sti", "">>, acquire("ptable"), <<"scan", 1>>, release("ptable")>>

\* The first time a process runs: no sched() to return to, and interrupts as
\* the scheduler left them until trapret() loads the user's flags.
forkret == <<release("ptable"), <<"trapret", "">>>>

-----------------------------------------------------------------------------
Init ==
    /\ IF_ = [c \in CPU |-> FALSE] /\ ncli = [c \in CPU |-> 0]
    /\ intena = [c \in CPU |-> FALSE] /\ cur = [c \in CPU |-> None]
    /\ lock = [lk \in Lock |-> None]
    /\ code = [x \in CPU \cup Proc |-> IF x \in CPU THEN scheduler ELSE forkret]
    /\ state = [p \in Proc |-> "RUNNABLE"]
    /\ chan = [p \in Proc |-> ""]
    /\ saved = [p \in Proc |-> FALSE] /\ left = [p \in Proc |-> 0]
    /\ line = FALSE /\ killed = [p \in Proc |-> FALSE] /\ panicked = FALSE

\* The CPU executes the first instruction of its context, named op; the rest
\* of the context's code becomes more \o what follows.
At(c, op) == code[Ctx(c)] # <<>> /\ Head(code[Ctx(c)])[1] = op
Arg(c) == Head(code[Ctx(c)])[2]
Then(c, more) == code' = [code EXCEPT ![Ctx(c)] = more \o Tail(@)]
Skip(c) == Then(c, <<>>)

holding(c, lk) == lock[lk] = c

\* pushcli() and popcli() on the fields of CPU c.
pushcli(c) ==
    /\ IF_' = [IF_ EXCEPT ![c] = FALSE]
    /\ intena' = IF ncli[c] = 0 THEN [intena EXCEPT ![c] = IF_[c]] ELSE intena
    /\ ncli' = [ncli EXCEPT ![c] = @ + 1]

stiWhenZero(c) == ncli[c] = 1 /\ intena[c]

popcli(c) ==
    /\ ncli' = [ncli EXCEPT ![c] = @ - 1]
    /\ IF_' = IF stiWhenZero(c) THEN [IF_ EXCEPT ![c] = TRUE] ELSE IF_
    /\ UNCHANGED intena

-----------------------------------------------------------------------------
(* acquire() and release()                                                 *)

Acquire(c) ==
    /\ At(c, "acquire")
    /\ IF holding(c, Arg(c))
       THEN panicked' = TRUE /\ UNCHANGED <<IF_, ncli, intena, code>>
       ELSE pushcli(c) /\ Then(c, <<<<"spin", Arg(c)>>>>) /\ UNCHANGED panicked
    /\ UNCHANGED <<cur, lock, state, chan, saved, left, line, killed>>

\* The xchg() that finds the lock free.
Spin(c) ==
    /\ At(c, "spin") /\ lock[Arg(c)] = None
    /\ lock' = [lock EXCEPT ![Arg(c)] = c]
    /\ Skip(c)
    /\ UNCHANGED <<IF_, ncli, intena, cur, state, chan, saved, left, line, killed, panicked>>

Release(c) ==
    /\ At(c, "release")
    /\ IF ~holding(c, Arg(c)) \/ IF_[c] \/ ncli[c] = 0
       THEN panicked' = TRUE /\ UNCHANGED <<IF_, ncli, intena, lock, code>>
       ELSE popcli(c) /\ lock' = [lock EXCEPT ![Arg(c)] = None] /\ Skip(c) /\ UNCHANGED panicked
    /\ UNCHANGED <<cur, state, chan, saved, left, line, killed>>

-----------------------------------------------------------------------------
(* sched() and scheduler()                                                 *)

\* sched()'s four panics, then swtch() to the scheduler: when the process is
\* resumed it puts its own intena back.
sched(c, st, ch) ==
    LET p == cur[c] IN
    IF ~holding(c, "ptable") \/ ncli[c] # 1 \/ IF_[c]
    THEN panicked' = TRUE /\ UNCHANGED <<cur, code, state, chan, saved>>
    ELSE /\ state' = [state EXCEPT ![p] = st] /\ chan' = [chan EXCEPT ![p] = ch]
         /\ saved' = [saved EXCEPT ![p] = intena[c]]
         /\ cur' = [cur EXCEPT ![c] = None]
         /\ Then(c, <<<<"resume", "">>>>) /\ UNCHANGED panicked

Block(c) ==
    /\ At(c, "block") /\ sched(c, "SLEEPING", Arg(c))
    /\ UNCHANGED <<IF_, ncli, intena, lock, left, line, killed>>

Ready(c) ==
    /\ At(c, "ready") /\ sched(c, "RUNNABLE", "")
    /\ UNCHANGED <<IF_, ncli, intena, lock, left, line, killed>>

Zombie(c) ==
    /\ At(c, "zombie") /\ sched(c, "ZOMBIE", "")
    /\ UNCHANGED <<IF_, ncli, intena, lock, left, line, killed>>

\* mycpu()->intena = intena, on whichever CPU this is now.
RestoredNot(c) == intena
Restored(c) == [intena EXCEPT ![c] = saved[cur[c]]]

Resume(c) ==
    /\ At(c, "resume") /\ Skip(c)
    /\ intena' = Restored(c) /\ chan' = [chan EXCEPT ![cur[c]] = ""]
    /\ UNCHANGED <<IF_, ncli, cur, lock, state, saved, left, line, killed, panicked>>

Sti(c) ==
    /\ At(c, "sti") /\ Skip(c) /\ IF_' = [IF_ EXCEPT ![c] = TRUE]
    /\ UNCHANGED <<ncli, intena, cur, lock, state, chan, saved, left, line, killed, panicked>>

\* The scan of the process table: a process found RUNNABLE is run, with
\* ptable.lock held, and the scan goes on when it gives the CPU back.
Scan(c) ==
    /\ At(c, "scan")
    /\ LET p == Arg(c) IN
          /\ Then(c, IF p = NPROC THEN <<>> ELSE <<<<"scan", p + 1>>>>)
          /\ IF state[p] = "RUNNABLE"
             THEN cur' = [cur EXCEPT ![c] = p] /\ state' = [state EXCEPT ![p] = "RUNNING"]
             ELSE UNCHANGED <<cur, state>>
    /\ UNCHANGED <<IF_, ncli, intena, lock, chan, saved, left, line, killed, panicked>>

\* for(;;)
SchedulerLoop(c) ==
    /\ cur[c] = None /\ code[c] = <<>>
    /\ code' = [code EXCEPT ![c] = scheduler]
    /\ UNCHANGED <<IF_, ncli, intena, cur, lock, state, chan, saved, left, line, killed, panicked>>

-----------------------------------------------------------------------------
(* Calls and interrupts                                                    *)

\* trap() for a system call: a killed process exits before it and after it.
Syscall(c) ==
    /\ cur[c] # None /\ code[cur[c]] = <<>>
    /\ \E k \in Calls[cur[c]] :
          code' = [code EXCEPT ![cur[c]] = IF killed[cur[c]] THEN exit
                                           ELSE Append(syscall(k), <<"ifkilled", "">>)]
    /\ UNCHANGED <<IF_, ncli, intena, cur, lock, state, chan, saved, left, line, killed, panicked>>

Ticks0(c) ==
    /\ At(c, "ticks0") /\ Skip(c) /\ left' = [left EXCEPT ![cur[c]] = Ticks]
    /\ UNCHANGED <<IF_, ncli, intena, cur, lock, state, chan, saved, line, killed, panicked>>

\* while(ticks - ticks0 < n) sleep(&ticks, &tickslock), unless killed
UntilTicks(c) ==
    /\ At(c, "untilticks")
    /\ IF left[cur[c]] = 0 \/ killed[cur[c]] THEN Skip(c)
       ELSE Then(c, Append(sleepOn("ticks", "ticks"), <<"untilticks", "">>))
    /\ UNCHANGED <<IF_, ncli, intena, cur, lock, state, chan, saved, left, line, killed, panicked>>

\* while(input.r == input.w) sleep(&input.r, &cons.lock), unless killed; then
\* the line is taken
UntilLine(c) ==
    /\ At(c, "untilline")
    /\ IF line \/ killed[cur[c]] THEN Skip(c)
       ELSE Then(c, Append(sleepOn("input", "cons"), <<"untilline", "">>))
    /\ line' = FALSE
    /\ UNCHANGED <<IF_, ncli, intena, cur, lock, state, chan, saved, left, killed, panicked>>

Wakeup1(c) ==
    /\ At(c, "wakeup1") /\ Skip(c)
    /\ state' = [p \in Proc |-> IF state[p] = "SLEEPING" /\ chan[p] = Arg(c)
                                THEN "RUNNABLE" ELSE state[p]]
    /\ UNCHANGED <<IF_, ncli, intena, cur, lock, chan, saved, left, line, killed, panicked>>

Tick(c) ==
    /\ At(c, "tick") /\ Skip(c)
    /\ left' = [p \in Proc |-> IF left[p] = 0 THEN 0 ELSE left[p] - 1]
    /\ UNCHANGED <<IF_, ncli, intena, cur, lock, state, chan, saved, line, killed, panicked>>

\* consoleintr(): a key that ends a line wakes the readers.
Keys(c) ==
    /\ At(c, "keys")
    /\ \E newline \in BOOLEAN :
          line' = (line \/ newline) /\ Then(c, IF newline THEN wakeup("input") ELSE <<>>)
    /\ UNCHANGED <<IF_, ncli, intena, cur, lock, state, chan, saved, left, killed, panicked>>

\* The process is in user space when nothing but the way back is left.
KilledInUser(c) ==
    /\ cur[c] # None /\ killed[cur[c]]
    /\ Tail(code[cur[c]]) \in {<<>>, <<<<"iret", "">>>>, <<<<"ifkilled", "">>, <<"iret", "">>>>}

Preempt(c) ==
    /\ At(c, "preempt")
    /\ Then(c, IF cur[c] = None THEN <<>> ELSE IF KilledInUser(c) THEN exit ELSE yield)
    /\ UNCHANGED <<IF_, ncli, intena, cur, lock, state, chan, saved, left, line, killed, panicked>>

IfKilled(c) ==
    /\ At(c, "ifkilled") /\ Then(c, IF KilledInUser(c) THEN exit ELSE <<>>)
    /\ UNCHANGED <<IF_, ncli, intena, cur, lock, state, chan, saved, left, line, killed, panicked>>

\* kill(): its victim no longer sleeps.
SetKilled(c) == \E p \in Victims :
    /\ At(c, "setkilled") /\ Skip(c)
    /\ killed' = [killed EXCEPT ![p] = TRUE]
    /\ state' = [state EXCEPT ![p] = IF @ = "SLEEPING" THEN "RUNNABLE" ELSE @]
    /\ UNCHANGED <<IF_, ncli, intena, cur, lock, chan, saved, left, line, panicked>>

Iret(c) ==
    /\ At(c, "iret") \/ At(c, "trapret")
    /\ Skip(c) /\ IF_' = [IF_ EXCEPT ![c] = TRUE]
    /\ UNCHANGED <<ncli, intena, cur, lock, state, chan, saved, left, line, killed, panicked>>

\* An interrupt gate turns interrupts off.  The keyboard's goes to CPU 0.
Interrupt(c, handler) ==
    /\ IF_[c]
    /\ IF_' = [IF_ EXCEPT ![c] = FALSE]
    /\ code' = [code EXCEPT ![Ctx(c)] = handler \o @]
    /\ UNCHANGED <<ncli, intena, cur, lock, state, chan, saved, left, line, killed, panicked>>

Timer(c) == ~panicked /\ Interrupt(c, timerTrap(c))
Keyboard == ~panicked /\ Interrupt(Cpu0, kbdTrap(Cpu0))

-----------------------------------------------------------------------------
CpuStep(c) == ~panicked /\
    (\/ Acquire(c) \/ Spin(c) \/ Release(c) \/ Block(c) \/ Ready(c) \/ Resume(c)
     \/ Sti(c) \/ Scan(c) \/ SchedulerLoop(c) \/ Ticks0(c) \/ UntilTicks(c)
     \/ UntilLine(c) \/ Wakeup1(c) \/ Tick(c) \/ Keys(c) \/ Preempt(c) \/ Iret(c)
     \/ IfKilled(c) \/ SetKilled(c) \/ Zombie(c))

InHandler(x) == \E i \in DOMAIN code[x] : code[x][i][1] = "iret"

Next == (\E c \in CPU : CpuStep(c) \/ (~panicked /\ Syscall(c)) \/ Timer(c)) \/ Keyboard

Spec == Init /\ [][Next]_vars

-----------------------------------------------------------------------------
TypeOK ==
    /\ IF_ \in [CPU -> BOOLEAN] /\ intena \in [CPU -> BOOLEAN]
    /\ ncli \in [CPU -> 0 .. Cardinality(Lock)]
    /\ cur \in [CPU -> Proc \cup {None}] /\ lock \in [Lock -> CPU \cup {None}]
    /\ \A x \in CPU \cup Proc : Len(code[x]) <= 16
    /\ state \in [Proc -> {"RUNNABLE", "RUNNING", "SLEEPING", "ZOMBIE"}]
    /\ chan \in [Proc -> {"", "ticks", "input"}]
    /\ saved \in [Proc -> BOOLEAN] /\ left \in [Proc -> 0 .. Ticks]
    /\ line \in BOOLEAN /\ killed \in [Proc -> BOOLEAN] /\ panicked \in BOOLEAN

(* A CPU that holds or waits for a spin lock has interrupts off, and its   *)
(* ncli counts exactly those locks, also after ptable.lock has been handed *)
(* from a process to the scheduler and on to another process by swtch().   *)
NcliCounts ==
    \A c \in CPU :
        LET held == {lk \in Lock : lock[lk] = c}
            n == Cardinality(held) + (IF At(c, "spin") THEN 1 ELSE 0)
        IN ncli[c] = n /\ (n > 0 => ~IF_[c])

(* intena belongs to the thread: whatever CPU it comes back on from        *)
(* sched(), a handler keeps interrupts off from its gate to its iret, so   *)
(* it is never interrupted itself, and a process outside any handler and   *)
(* critical section has them on, once it has been in user space.           *)
InterruptsFollowThread ==
    \A c \in CPU :
        cur[c] # None /\ ncli[c] = 0 /\ <<"trapret", "">> \notin Range(code[cur[c]]) =>
            (IF_[c] <=> ~InHandler(cur[c]))

(* None of the panics of acquire(), release(), popcli() and sched(): no    *)
(* handler wants a lock its own CPU holds.                                 *)
NoPanic == ~panicked

(* Two CPUs never spin on locks that each holds for the other: acquire()   *)
(* "loops (spins) until the lock is acquired".                             *)
SpinEnds ==
    ~\E c, d \in CPU :
        /\ At(c, "spin") /\ lock[Arg(c)] = d
        /\ At(d, "spin") /\ lock[Arg(d)] = c

\* A wakeup(ch) that some context is about to do.
WakeupComing(ch) == \E x \in CPU \cup Proc : <<"wakeup1", ch>> \in Range(code[x])

(* No wakeup is missed: a process asleep in sys_sleep() has ticks to wait  *)
(* for, one asleep in consoleread() has no line to read, or the interrupt  *)
(* handler that changed that is on its way to wakeup() (the order of the   *)
(* two locks in sleep(), against the handlers' order on the other CPU).    *)
NoMissedWakeup ==
    \A p \in Proc : state[p] = "SLEEPING" =>
        \/ chan[p] = "ticks" /\ left[p] > 0
        \/ chan[p] = "input" /\ ~line
        \/ WakeupComing(chan[p])

\* ncli, intena and the interrupt flag are right on every CPU, so that no panic
\* of spinlock.c or sched() and no deadlock of two CPUs is reached.
InterruptsSound ==
    TypeOK /\ NcliCounts /\ InterruptsFollowThread /\ NoPanic /\ SpinEnds

=============================================================================
