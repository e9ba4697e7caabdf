------------------------------- MODULE Bcache -------------------------------
(***************************************************************************)
(* The buffer cache of bio.c on top of the IDE driver of ide.c: processes  *)
(* that bread(), change, bwrite(), log_write() and brelse() blocks.  A     *)
(* critical section of bcache.lock or of idelock is one action; a buffer's *)
(* sleep-lock is its owner (module SleepLock).                             *)
(***************************************************************************)
EXTENDS Integers, Sequences, FiniteSets, Functions

CONSTANTS Proc, Block, Data,
          NBUF,       \* buffers
          Logged,     \* blocks written through the log (not the log's own)
          BadBlock,   \* blocks whose read the disk may report as failed
          None

ASSUME BcacheAssumption ==
  /\ IsFiniteSet(Proc) /\ Block \subseteq Nat /\ BadBlock \subseteq Block
  /\ NBUF \in Nat \ {0} /\ None \notin Proc \cup Nat /\ Logged \subseteq Block

Buf == 1 .. NBUF

VARIABLES
  blockno, refcnt, valid, dirty, owner, data,  \* struct buf, by buffer
  lru,        \* bcache.head.next ... prev: the most recently used first
  idequeue,   \* requests, the active one first
  disk,       \* contents of the disk
  pc, cur,    \* where a process is, and the buffer it works on
  mem         \* what was last written to a block (history variable)

bufs  == <<blockno, refcnt, valid, dirty, owner, data>>
vars  == <<bufs, lru, idequeue, disk, pc, cur, mem>>

TypeOK ==
  /\ blockno \in [Buf -> Block \cup {None}]
  /\ refcnt \in [Buf -> 0 .. Cardinality(Proc)]
  /\ valid \in [Buf -> BOOLEAN] /\ dirty \in [Buf -> BOOLEAN]
  /\ owner \in [Buf -> Proc \cup {None}]
  /\ data \in [Buf -> Data] /\ disk \in [Block -> Data] /\ mem \in [Block -> Data]
  /\ lru \in [Buf -> Buf] /\ Range(lru) = Buf
  /\ idequeue \in Seq(Buf)
  /\ pc \in [Proc -> {"idle", "lock", "rw", "sleep", "woken", "held", "put",
                      "panic"}]
  /\ cur \in [Proc -> Buf \cup {None}]

(* binit() links the buffers in front of one another; nothing is cached.   *)
Init ==
  /\ blockno = [b \in Buf |-> None] /\ refcnt = [b \in Buf |-> 0]
  /\ valid = [b \in Buf |-> FALSE] /\ dirty = valid
  /\ owner = [b \in Buf |-> None]
  /\ lru = [k \in Buf |-> NBUF + 1 - k] /\ idequeue = <<>>
  /\ \E v \in Data : disk = [k \in Block |-> v] /\ data = [b \in Buf |-> v]
  /\ mem = disk
  /\ pc = [p \in Proc |-> "idle"] /\ cur = [p \in Proc |-> None]

Goto(p, l) == pc' = [pc EXCEPT ![p] = l]
Running    == \A p \in Proc : pc[p] # "panic"

-----------------------------------------------------------------------------
(* bget() under bcache.lock.                                               *)
CachedValid(k) == {b \in Buf : blockno[b] = k /\ valid[b]}
Cached(k) == {b \in Buf : blockno[b] = k}
Reusable(b) == refcnt[b] = 0 /\ ~dirty[b]

bgetHit(p, k) ==
  /\ Running /\ pc[p] = "idle"
  /\ \E b \in Cached(k) :
       /\ refcnt' = [refcnt EXCEPT ![b] = @ + 1]
       /\ cur' = [cur EXCEPT ![p] = b]
  /\ Goto(p, "lock")
  /\ UNCHANGED <<blockno, valid, dirty, owner, data, lru, idequeue, disk, mem>>

(* The least recently used of those that may be reused.                    *)
Victim(b) ==
  \E i \in Buf : /\ b = lru[i] /\ Reusable(b)
                 /\ \A j \in Buf : j > i => ~Reusable(lru[j])

bgetRecycle(p, k) ==
  /\ Running /\ pc[p] = "idle" /\ Cached(k) = {}
  /\ \E b \in Buf :
       /\ Victim(b)
       /\ blockno' = [blockno EXCEPT ![b] = k]
       /\ refcnt' = [refcnt EXCEPT ![b] = 1]
       /\ valid' = [valid EXCEPT ![b] = FALSE]
       /\ cur' = [cur EXCEPT ![p] = b]
  /\ Goto(p, "lock")
  /\ UNCHANGED <<dirty, owner, data, lru, idequeue, disk, mem>>

bgetPanic(p, k) ==
  /\ Running /\ pc[p] = "idle" /\ Cached(k) = {} /\ \A b \in Buf : ~Reusable(b)
  /\ Goto(p, "panic")
  /\ UNCHANGED <<bufs, lru, idequeue, disk, cur, mem>>

(* acquiresleep() at the end of bget(), and bread()'s test of B_VALID.     *)
bread(p) ==
  LET b == cur[p] IN
  /\ Running /\ pc[p] = "lock" /\ owner[b] = None
  /\ owner' = [owner EXCEPT ![b] = p]
  /\ Goto(p, IF valid[b] THEN "held" ELSE "rw")
  /\ UNCHANGED <<blockno, refcnt, valid, dirty, data, lru, idequeue, disk, cur, mem>>

(* The holder changes the block and calls bwrite() or log_write().         *)
Change(p, v) ==
  /\ Running /\ pc[p] = "held"
  /\ data' = [data EXCEPT ![cur[p]] = v] /\ mem' = [mem EXCEPT ![blockno[cur[p]]] = v]
  /\ dirty' = [dirty EXCEPT ![cur[p]] = TRUE]

bwrite(p, v) ==
  /\ Change(p, v)
  /\ Goto(p, "rw")
  /\ UNCHANGED <<blockno, refcnt, valid, owner, lru, idequeue, disk, cur>>

log_write(p, v) ==
  /\ Change(p, v)
  /\ blockno[cur[p]] \in Logged
  /\ UNCHANGED <<blockno, refcnt, valid, owner, lru, idequeue, disk, pc, cur>>

(* brelse(): releasesleep(), then the reference under bcache.lock.         *)
brelse(p) ==
  /\ Running /\ pc[p] = "held"
  /\ owner' = [owner EXCEPT ![cur[p]] = None]
  /\ Goto(p, "put")
  /\ UNCHANGED <<blockno, refcnt, valid, dirty, data, lru, idequeue, disk, cur, mem>>

Decrement(b) == refcnt[b] - 1

(* The buffer moves to the front of the list.                              *)
MoveToFront(b) ==
  LET i == CHOOSE k \in Buf : lru[k] = b
  IN  [k \in Buf |-> IF k = 1 THEN b ELSE IF k <= i THEN lru[k - 1] ELSE lru[k]]

brelseRef(p) ==
  LET b == cur[p] IN
  /\ Running /\ pc[p] = "put"
  /\ refcnt' = [refcnt EXCEPT ![b] = Decrement(b)]
  /\ lru' = IF refcnt'[b] = 0 THEN MoveToFront(b) ELSE lru
  /\ Goto(p, "idle") /\ cur' = [cur EXCEPT ![p] = None]
  /\ UNCHANGED <<blockno, valid, dirty, owner, data, idequeue, disk, mem>>

-----------------------------------------------------------------------------
(* iderw() under idelock: append the buffer, start the disk when it is the *)
(* first, and sleep.                                                       *)
Panics(p) == owner[cur[p]] # p \/ (valid[cur[p]] /\ ~dirty[cur[p]])

iderw(p) ==
  /\ Running /\ pc[p] = "rw"
  /\ IF Panics(p) THEN Goto(p, "panic") /\ UNCHANGED idequeue
     ELSE Goto(p, "sleep") /\ idequeue' = Append(idequeue, cur[p])
  /\ UNCHANGED <<bufs, lru, disk, cur, mem>>

DoneEarly(b) == TRUE
Done(b) == valid[b] /\ ~dirty[b]

iderwWoken(p) ==
  /\ Running /\ pc[p] = "woken"
  /\ Goto(p, IF Done(cur[p]) THEN "held" ELSE "sleep")
  /\ UNCHANGED <<bufs, lru, idequeue, disk, cur, mem>>

(* kill() of a process that waits for the disk: awake too early.           *)
Kill(p) ==
  /\ Running /\ pc[p] = "sleep"
  /\ Goto(p, "woken")
  /\ UNCHANGED <<bufs, lru, idequeue, disk, cur, mem>>

(* wakeup(b): every process asleep on b.                                   *)
wakeupNobody(b) == pc
wakeup(b) == [p \in Proc |-> IF pc[p] = "sleep" /\ cur[p] = b THEN "woken" ELSE pc[p]]

Dequeue == Tail(idequeue)

(* ideintr(): the active request is done.  When the disk reports an error  *)
(* the data is not read, and the buffer becomes valid all the same.        *)
ideintr(failed) ==
  /\ Running /\ idequeue # <<>>
  /\ LET b == Head(idequeue) IN
       /\ failed => ~dirty[b] /\ blockno[b] \in BadBlock
       /\ disk' = IF dirty[b] THEN [disk EXCEPT ![blockno[b]] = data[b]] ELSE disk
       /\ data' = IF dirty[b] \/ failed THEN data
                  ELSE [data EXCEPT ![b] = disk[blockno[b]]]
       /\ valid' = [valid EXCEPT ![b] = TRUE]
       /\ dirty' = [dirty EXCEPT ![b] = FALSE]
       /\ pc' = wakeup(b)
  /\ idequeue' = Dequeue
  /\ UNCHANGED <<blockno, refcnt, owner, lru, cur, mem>>

-----------------------------------------------------------------------------
InKernel(p) == bread(p) \/ brelseRef(p) \/ iderw(p) \/ iderwWoken(p)

Next ==
  \/ \E p \in Proc : InKernel(p) \/ brelse(p) \/ Kill(p)
  \/ \E p \in Proc, k \in Block : bgetHit(p, k) \/ bgetRecycle(p, k) \/ bgetPanic(p, k)
  \/ \E p \in Proc, v \in Data : bwrite(p, v) \/ log_write(p, v)
  \/ ideintr(TRUE) \/ ideintr(FALSE)

Spec == Init /\ [][Next]_vars

(* The disk answers, a process in the kernel is scheduled, a lock freed    *)
(* again and again is obtained, and every bread() has its brelse().        *)
FairSpec ==
  /\ Spec /\ WF_vars(ideintr(FALSE))
  /\ \A p \in Proc : SF_vars(InKernel(p)) /\ SF_vars(brelse(p))

-----------------------------------------------------------------------------
(* Properties.                                                             *)

(* A block is in at most one buffer (bio.c:69-91), so that its sleep-lock  *)
(* synchronizes all users of the block.                                    *)
OneBufferPerBlock == \A k \in Block : Cardinality(Cached(k)) <= 1

(* Whoever holds a block sees what the last holder wrote, wherever it has  *)
(* been since: in the cache, pinned by the log, evicted, in the queue or   *)
(* on the disk.  Reads that the disk reports as failed are the exception:  *)
(* ideintr() marks the buffer valid with the data of another block.        *)
Coherent ==
  \A p \in Proc : LET b == cur[p] IN
    pc[p] = "held" /\ blockno[b] \notin BadBlock =>
      owner[b] = p /\ valid[b] /\ data[b] = mem[blockno[b]]

(* bget() panics only when every buffer is pinned or in somebody's hands,  *)
(* and the checks of iderw() never fail: no buffer is lost to a reference  *)
(* that nobody holds.                                                      *)
PanicOnlyWhenFull ==
  (~Running) => \A b \in Buf : dirty[b] \/ \E p \in Proc : cur[p] = b

(* A queued request belongs to the process that holds the buffer and       *)
(* sleeps on it; no buffer is queued twice.                                *)
RequestsOwned ==
  /\ IsInjective(idequeue)
  /\ \A b \in Range(idequeue) :
       \E p \in Proc : owner[b] = p /\ cur[p] = b /\ pc[p] \in {"sleep", "woken"}

(* Every bread() and bwrite() returns: no request is forgotten in the      *)
(* queue, no wakeup is missed, no two processes wait for each other.       *)
CallsReturn == \A p \in Proc : pc[p] # "idle" ~> (pc[p] = "idle" \/ ~Running)

\* Buffers hold what they are said to hold, and requests and references have
\* an owner (bio.c, ide.c).
CacheSound ==
    TypeOK /\ Coherent /\ RequestsOwned /\ PanicOnlyWhenFull

=============================================================================
