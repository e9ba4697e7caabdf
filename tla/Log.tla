-------------------------------- MODULE Log --------------------------------
(***************************************************************************)
(* The write-ahead log of log.c, with the parts of bio.c it relies on: the *)
(* contents of the buffer cache, B_DIRTY pinning, synchronous block writes.*)
(* log.lock makes each critical section one action.  commit() and          *)
(* recover_from_log() run without it, one disk write per action, and the   *)
(* machine may crash between any two actions.                              *)
(***************************************************************************)
EXTENDS Integers, Sequences, FiniteSets, Functions

CONSTANTS Proc,         \* processes making file system calls
          Block,        \* home locations of the blocks the calls modify
          Val,          \* block contents
          NoBuf,        \* "no buffer": not cached, or no buffer held
          MAXOPBLOCKS,  \* blocks begin_op() reserves for one call (param.h)
          LOGSIZE,      \* entries of the in-memory header (param.h)
          NLOG,         \* sb.nlog: blocks of the on-disk log, header included
          OPBLOCKS      \* most distinct blocks one call really modifies

ASSUME LogAssumption ==
  /\ IsFiniteSet(Proc)
  /\ NoBuf \notin Val \cup Block
  /\ MAXOPBLOCKS \in Nat /\ LOGSIZE \in Nat /\ NLOG \in Nat /\ OPBLOCKS \in Nat
  /\ 0 < OPBLOCKS

(* The sizes of param.h and mkfs.c are MAXOPBLOCKS = 10 and LOGSIZE =      *)
(* sb.nlog = 30.  No call of the kernel modifies as many as MAXOPBLOCKS    *)
(* blocks.                                                                 *)
ASSUME LogSizes == OPBLOCKS < MAXOPBLOCKS /\ MAXOPBLOCKS < LOGSIZE /\ LOGSIZE <= NLOG

VARIABLES outstanding, committing, lh,   \* struct log (lh.n is Len(lh))
          pc,                            \* where each process is
          wrote,                         \* blocks its call has logged
          wb,                            \* block it is inside log_write() for
          stage, tail,                   \* commit() or recover_from_log()
          cache, dirty,                  \* buffer cache; blocks with B_DIRTY
          disk, dlog, dhead,             \* home blocks, log blocks, header
          panicked

calls == <<outstanding, committing, pc, wrote, wb>>
bufs  == <<cache, dirty>>
store == <<disk, dlog, dhead>>
vars  == <<calls, lh, stage, tail, bufs, store, panicked>>

Stages == {"none", "write_log", "write_head", "install", "clear", "done", "read_head"}

TypeOK ==
  /\ outstanding \in Nat
  /\ committing \in BOOLEAN
  /\ lh \in Seq(Block)
  /\ pc \in [Proc -> {"idle", "sleep", "woken", "op", "log_write", "commit"}]
  /\ wrote \in [Proc -> SUBSET Block]
  /\ wb \in [Proc -> Block \cup {NoBuf}]
  /\ stage \in Stages
  /\ tail \in Nat
  /\ cache \in [Block -> Val \cup {NoBuf}]
  /\ dirty \in SUBSET Block
  /\ disk \in [Block -> Val]
  /\ dlog \in [1 .. NLOG - 1 -> Val]
  /\ dhead \in Seq(Block)
  /\ panicked \in BOOLEAN

-----------------------------------------------------------------------------
(* Booting: memory is empty, the disk keeps what it had.                   *)

Boot ==
  /\ outstanding = 0 /\ committing = FALSE /\ lh = <<>>
  /\ pc = [p \in Proc |-> "idle"]
  /\ wrote = [p \in Proc |-> {}]
  /\ wb = [p \in Proc |-> NoBuf]
  /\ stage = "read_head" /\ tail = 1
  /\ cache = [b \in Block |-> NoBuf] /\ dirty = {}
  /\ panicked = FALSE

(* mkfs zeroes the whole image, the log included, and then writes any file *)
(* system to the home blocks.                                              *)
Init == /\ Boot
        /\ disk \in [Block -> Val]
        /\ \E zero \in Val : dlog = [i \in 1 .. NLOG - 1 |-> zero]
        /\ dhead = <<>>

(* Power loss or reset in any state, a panicked one included.              *)
Crash ==
  /\ outstanding' = 0 /\ committing' = FALSE /\ lh' = <<>>
  /\ pc' = [p \in Proc |-> "idle"]
  /\ wrote' = [p \in Proc |-> {}]
  /\ wb' = [p \in Proc |-> NoBuf]
  /\ stage' = "read_head" /\ tail' = 1
  /\ cache' = [b \in Block |-> NoBuf] /\ dirty' = {}
  /\ panicked' = FALSE
  /\ UNCHANGED store

-----------------------------------------------------------------------------
(* The buffer cache, as far as the log depends on it.                      *)

(* bread(): the cached contents, else what is on the disk.                 *)
bread(b) == IF cache[b] = NoBuf THEN disk[b] ELSE cache[b]

(* bget() recycles a buffer that nobody references and that is not dirty.  *)
Evict(b) ==
  /\ b \notin dirty
  /\ cache[b] # NoBuf
  /\ \A p \in Proc : wb[p] # b
  /\ cache' = [cache EXCEPT ![b] = NoBuf]
  /\ UNCHANGED <<calls, lh, stage, tail, dirty, store, panicked>>

-----------------------------------------------------------------------------
(* File system calls.  The first process runs recover_from_log() before it *)
(* reaches user code, so no call starts while recovery is in progress.     *)

Booted == stage = "none" \/ committing

(* The reservation that begin_op() makes for the calls in progress and for *)
(* the one that begins.                                                    *)
LogSpaceForOthers == Len(lh) + outstanding * MAXOPBLOCKS <= LOGSIZE
LogSpace == Len(lh) + (outstanding + 1) * MAXOPBLOCKS <= LOGSIZE

BeginOp(p) ==
  /\ Booted
  /\ pc[p] \in {"idle", "woken"}
  /\ ~committing /\ LogSpace
  /\ outstanding' = outstanding + 1
  /\ pc' = [pc EXCEPT ![p] = "op"]
  /\ wrote' = [wrote EXCEPT ![p] = {}]
  /\ UNCHANGED <<committing, wb, lh, stage, tail, bufs, store, panicked>>

BeginOpSleep(p) ==
  /\ Booted
  /\ pc[p] \in {"idle", "woken"}
  /\ committing \/ ~LogSpace
  /\ pc' = [pc EXCEPT ![p] = "sleep"]
  /\ UNCHANGED <<outstanding, committing, wrote, wb, lh, stage, tail, bufs,
                 store, panicked>>

(* wakeup(&log), in the critical section of the caller.                    *)
NoWakeup(f) == f
Wakeup(f) == [p \in Proc |-> IF f[p] = "sleep" THEN "woken" ELSE f[p]]

(* The tests at the top of log_write(), made before log.lock is taken.     *)
TooBig == Len(lh) >= LOGSIZE \/ Len(lh) >= NLOG - 1

(* A call locks buffer b, changes its contents and enters log_write().     *)
Modify(p, b, v) ==
  /\ pc[p] = "op"
  /\ b \in wrote[p] \/ Cardinality(wrote[p]) < OPBLOCKS
  /\ \A q \in Proc : wb[q] # b
  /\ cache' = [cache EXCEPT ![b] = v]
  /\ wb' = [wb EXCEPT ![p] = b]
  /\ pc' = [pc EXCEPT ![p] = "log_write"]
  /\ panicked' = (TooBig \/ outstanding < 1)
  /\ UNCHANGED <<outstanding, committing, wrote, lh, stage, tail, dirty, store>>

(* The rest of log_write(), under log.lock: absorb or append, then pin.    *)
Absorbed(b) == IF b \in Range(lh) THEN lh ELSE Append(lh, b)

LogWrite(p) ==
  /\ pc[p] = "log_write"
  /\ lh' = Absorbed(wb[p])
  /\ dirty' = dirty \cup {wb[p]}
  /\ wrote' = [wrote EXCEPT ![p] = @ \cup {wb[p]}]
  /\ pc' = [pc EXCEPT ![p] = "op"]
  /\ wb' = [wb EXCEPT ![p] = NoBuf]
  /\ UNCHANGED <<outstanding, committing, stage, tail, cache, store, panicked>>

(* end_op() of a call that is not the last: release its reservation.       *)
EndOp(p) ==
  /\ pc[p] = "op"
  /\ outstanding # 1
  /\ outstanding' = outstanding - 1
  /\ panicked' = committing
  /\ pc' = Wakeup([pc EXCEPT ![p] = "idle"])
  /\ wrote' = [wrote EXCEPT ![p] = {}]
  /\ UNCHANGED <<committing, wb, lh, stage, tail, bufs, store>>

(* commit() has nothing to do when no block was logged.                    *)
CommitNothing == "done"
CommitStage == IF Len(lh) > 0 THEN "write_log" ELSE "done"

(* end_op() of the last outstanding call, which goes on to commit().       *)
EndOpLast(p) ==
  /\ pc[p] = "op"
  /\ outstanding = 1
  /\ outstanding' = 0
  /\ panicked' = committing
  /\ committing' = TRUE
  /\ pc' = [pc EXCEPT ![p] = "commit"]
  /\ wrote' = [wrote EXCEPT ![p] = {}]
  /\ stage' = CommitStage
  /\ tail' = 1
  /\ UNCHANGED <<wb, lh, bufs, store>>

(* The end of end_op(), after commit().                                    *)
EndCommit(p) ==
  /\ pc[p] = "commit"
  /\ stage = "done"
  /\ stage' = "none"
  /\ committing' = FALSE
  /\ pc' = Wakeup([pc EXCEPT ![p] = "idle"])
  /\ UNCHANGED <<outstanding, wrote, wb, lh, tail, bufs, store, panicked>>

-----------------------------------------------------------------------------
(* commit() and recover_from_log(), one disk write per action.             *)

(* Both loops over the header run while tail < lh.n; tail counts from 1    *)
(* here.                                                                   *)
LoopEndsEarly == tail < Len(lh)
LoopGoesOn == tail <= Len(lh)

(* write_log(): copy block lh[tail] from the cache to its log block.       *)
WriteLog ==
  /\ stage = "write_log"
  /\ IF LoopGoesOn
       THEN LET v == bread(lh[tail]) IN
            /\ dlog' = [dlog EXCEPT ![tail] = v]
            /\ cache' = [cache EXCEPT ![lh[tail]] = v]
            /\ tail' = tail + 1
            /\ UNCHANGED stage
       ELSE /\ stage' = "write_head"
            /\ UNCHANGED <<dlog, cache, tail>>
  /\ UNCHANGED <<calls, lh, dirty, disk, dhead, panicked>>

(* write_head() with lh.n > 0: the header on disk names the transaction.   *)
WriteHead ==
  /\ stage = "write_head"
  /\ dhead' = lh
  /\ stage' = "install" /\ tail' = 1
  /\ UNCHANGED <<calls, lh, bufs, disk, dlog, panicked>>

(* read_head(), the first step after a boot.                               *)
ReadHead ==
  /\ stage = "read_head"
  /\ lh' = dhead
  /\ stage' = "install" /\ tail' = 1
  /\ UNCHANGED <<calls, bufs, store, panicked>>

(* install_trans(): copy log block tail to its home location.              *)
InstallTrans ==
  /\ stage = "install"
  /\ IF LoopGoesOn
       THEN /\ cache' = [cache EXCEPT ![lh[tail]] = dlog[tail]]
            /\ disk' = [disk EXCEPT ![lh[tail]] = dlog[tail]]
            /\ dirty' = dirty \ {lh[tail]}
            /\ tail' = tail + 1
            /\ UNCHANGED stage
       ELSE /\ stage' = "clear"
            /\ UNCHANGED <<bufs, disk, tail>>
  /\ UNCHANGED <<calls, lh, dlog, dhead, panicked>>

(* lh.n = 0 and write_head(): erase the transaction from the log.          *)
ClearHead ==
  /\ stage = "clear"
  /\ lh' = <<>>
  /\ dhead' = <<>>
  /\ stage' = IF committing THEN "done" ELSE "none"
  /\ UNCHANGED <<calls, tail, bufs, disk, dlog, panicked>>

-----------------------------------------------------------------------------
Step(p) == \/ BeginOp(p)
           \/ BeginOpSleep(p)
           \/ \E b \in Block, v \in Val : Modify(p, b, v)
           \/ LogWrite(p)
           \/ EndOp(p)
           \/ EndOpLast(p)
           \/ EndCommit(p)

DiskStep == WriteLog \/ WriteHead \/ ReadHead \/ InstallTrans \/ ClearHead

Next == \/ /\ ~panicked
           /\ \/ \E p \in Proc : Step(p)
              \/ DiskStep
              \/ \E b \in Block : Evict(b)
        \/ Crash

Spec == Init /\ [][Next]_vars

(* A call modifies finitely many blocks and then reaches its end_op(); the *)
(* disk completes the writes of commit() and of recovery.  Nothing obliges *)
(* a process to begin another call.                                        *)
Fairness ==
  /\ \A p \in Proc : /\ WF_vars(~panicked /\ LogWrite(p))
                     /\ SF_vars(~panicked /\ (EndOp(p) \/ EndOpLast(p)))
                     /\ WF_vars(~panicked /\ EndCommit(p))
  /\ WF_vars(~panicked /\ DiskStep)

FairSpec == Spec /\ Fairness

-----------------------------------------------------------------------------
(* Properties.                                                             *)

(* What recovery would leave on the disk if the machine crashed now.       *)
Recovered ==
  [b \in Block |-> IF b \in Range(dhead)
                     THEN dlog[CHOOSE i \in DOMAIN dhead : dhead[i] = b]
                     ELSE disk[b]]

(* What a file system call reads; while recovery runs, what it will read.  *)
View == IF Booted THEN [b \in Block |-> bread(b)] ELSE Recovered

Active == {p \in Proc : pc[p] \in {"op", "log_write"}}

Abs == INSTANCE AtomicDisk WITH stable <- Recovered, mem <- View, active <- Active

(* log.c implements the atomic disk: every crash, at any point of          *)
(* write_log, write_head, install_trans or recovery, leaves the file       *)
(* system as the last whole transaction left it.                           *)
AtomicTransactions == Abs!Spec

(* When no call is in progress and no commit is running, everything the    *)
(* finished calls wrote survives a crash: end_op() of the last outstanding *)
(* call does not return before commit() has made its group durable.        *)
Durable == stage = "none" /\ outstanding = 0 => Recovered = View

(* The blocks that the calls in progress may still log, one slot for each. *)
Slots == {s \in Active \X (1 .. OPBLOCKS) : Cardinality(wrote[s[1]]) < s[2]}

(* begin_op()'s reservation: however calls and commits overlap, there is   *)
(* room for every block that a call in progress may still write, and the   *)
(* entry that the header's own block costs the log on disk is never        *)
(* needed.  So the tests of log_write(), made before log.lock is taken,    *)
(* are never true, two calls that pass them together both fit, and neither *)
(* "log_write outside of trans" nor "log.committing" of end_op() happens.  *)
Reserved ==
  /\ TypeOK
  /\ \A i, j \in DOMAIN lh : lh[i] = lh[j] => i = j
  /\ Len(lh) + Cardinality(Slots) <= LOGSIZE - 2
  /\ ~panicked

(* Whoever sleeps in begin_op() is woken: no end_op() and no commit()      *)
(* leaves a sleeper behind, whatever order they come in.                   *)
SleeperWoken == \A p \in Proc : pc[p] = "sleep" ~> pc[p] # "sleep"
=============================================================================
