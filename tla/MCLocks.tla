------------------------------ MODULE MCLocks ------------------------------
(* What sleeps and what spins: a behaviour is one of the sleep locks of    *)
(* the kernel, of the spin lock of thread_lib.h, or of the log with its    *)
(* sleepers.                                                               *)
EXTENDS SleepLock, Prog3

CONSTANTS Caller, Block, Val, NoBuf

VARIABLES outstanding, committing, lh, lpc, wrote, wb, stage, tail, cache, dirty,
          disk, dlog, dhead, panicked,   \* of Log; its pc is lpc
          unit

WAL == INSTANCE Log WITH Proc <- Caller, pc <- lpc,
                         MAXOPBLOCKS <- 2, LOGSIZE <- 4, NLOG <- 4, OPBLOCKS <- 1

logVars == <<outstanding, committing, lh, lpc, wrote, wb, stage, tail, cache, dirty,
             disk, dlog, dhead, panicked>>

MCInit == unit \in {"sleeplock", "prog3", "log"} /\ Init /\ Prog3Init /\ WAL!Init
          /\ (unit # "log" => disk = [b \in Block |-> CHOOSE v \in Val : TRUE]
                              /\ dlog = [k \in DOMAIN dlog |-> CHOOSE v \in Val : TRUE])

MCNext ==
    /\ UNCHANGED unit
    /\ \/ unit = "sleeplock" /\ Next /\ UNCHANGED <<vars3, logVars>>
       \/ unit = "prog3" /\ Prog3Next /\ UNCHANGED <<vars, logVars>>
       \/ unit = "log" /\ WAL!Next /\ UNCHANGED <<vars, vars3>>

MCSpec ==
    /\ MCInit /\ [][MCNext]_<<unit, vars, vars3, logVars>>
    /\ \/ unit = "sleeplock" /\ Fairness
       \/ unit = "prog3" /\ Prog3Fairness
       \/ unit = "log" /\ WAL!Fairness

\* Whoever sleeps on a sleep-lock (sleeplock.c), or in begin_op() for room in
\* the log or for the end of a commit (log.c), is woken.
SleepersWoken == SleeperWoken /\ WAL!SleeperWoken
=============================================================================
