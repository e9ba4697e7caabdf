# A TLA+ model of this xv6

This directory holds a formal model of the kernel in `src/`: an xv6 for x86 with
kernel threads (`clone`), a lottery and a stride scheduler, and the `info` and
`tickets` system calls.  TLA+ modules state what its parts do, TLC checks them on
small instances, and TLAPS proves the safety of seven of them for every size.
`PROJECT.json` lists the components, the runs, the hazards and, for every
definition, the source lines it models.

## 1. The system

| part | source | modelled in |
|---|---|---|
| process table, fork/exit/wait/kill, round-robin scheduler | proc.c, sysproc.c | Proc |
| threads | proc.c `clone` | Proc |
| lottery and stride schedulers, tickets | proc.c | Sched |
| sleep, wakeup, sleep-locks | proc.c, sleeplock.c | SleepLock |
| spinlocks, interrupts, timer, killed checks | spinlock.c, trap.c | Trap |
| write-ahead log | log.c | Log, AtomicDisk |
| buffer cache, disk driver | bio.c, ide.c | Bcache (contents and pinning in Log too) |
| file contents, block allocator, image of mkfs | fs.c, file.c, mkfs.c | FileData, ByteFile |
| inodes, directories, file system calls, file table | fs.c, sysfile.c, file.c | Fs |
| pipes | pipe.c, file.c | Pipe, ByteQueue |
| page tables, exec, sbrk, page allocator | vm.c, exec.c, kalloc.c, proc.c | Vm |
| user memory allocator | umalloc.c | Umalloc |
| console input, keyboard | console.c, kbd.c | Console, LineQueue |
| shell | sh.c | Shell |
| string routines, names, argument checks | string.c, fs.c, syscall.c, printf.c, ulib.c | Strings |
| grep, wc | grep.c, wc.c | Filters |
| user spin lock and its program | thread_lib.h, prog3.c | Prog3 |

How they interact: every blocking operation is built on `sleep`/`wakeup`, which
is built on `ptable.lock` and the hand-over of that lock between a process and
the scheduler of its processor.  The file system reaches the disk through the
log, the log through the buffer cache, the cache through sleep-locks and the
driver.  `fork`, `exit` and `wait` tie processes to pages and open files.

## 2. Modules

Every module splits the code where another processor, process or interrupt can
come in between, and nowhere else.

**`Log`** is `log.c` with the part of `bio.c` it relies on.  `outstanding`,
`committing` and `lh` are fields of `struct log` (`lh.n` is `Len(lh)`); `cache` and
`dirty` are the buffer cache; `disk`, `dlog` and `dhead` the home blocks, log blocks
and log header.  A critical section under `log.lock` is one action.  `log_write()`
tests `lh.n` and `outstanding` before it takes the lock, so the test is a step of its
own (`Modify`).  `commit()` and `recover_from_log()` run without the lock, one disk
write per action.  `Crash` may happen in any state, during recovery too.
**`AtomicDisk`** is what a file system may assume: a state `stable` that survives a
crash, a state `mem` that calls read and write, and one atomic step that makes
`mem` stable when no call is active.

**`FileData`** starts from the image that `mkfs` lays out (one root directory, one
file), with `balloc`, `bmap`, `readi`, `writei`, `iupdate`, `filewrite`'s loop of
transactions, `fileread` with its shared offset, and a reboot that forgets the
inodes in memory.  Sectors, inodes and the bitmap are records of `img`.
**`ByteFile`** is the sequence of bytes it stands for.

**`SleepLock`** is `sleeplock.c` with `sleep()` and `wakeup()` for a lock other than
`ptable.lock`, every acquire and release of a spinlock a step; `kill()` may wake a
sleeper at any time.  **`Prog3`** is `prog3.c` with `lock_acquire`, `lock_release`
and `thread_create`: threads that pass a token, `output` and `workpid` in shared
memory.

**`Proc`** is the process table with the round-robin `scheduler()`.  Per slot:
`state`, `pid`, `parent`, `chan`, `killed`, `thread` (`thread_indictor`), `kstack`,
`pgdir`, `ofile`, the position `pc` inside a system call and the saved context
`ctx`.  Per processor: `cproc` (`c->proc`), the position `cpc` and the scan index.
`free` is `kmem.freelist` in its LIFO order.  `ptlock` is the processor that holds
`ptable.lock`; it stays held across `swtch()`.  `mpmain` (main.c:57) starts this
scheduler and has the other two in comments, to be exchanged for it: **`Sched`** has
them, the critical sections in which they look, choose and run, the fields `tickets`,
`stride` and `pass`, and what `fork` and `tickets` do to them.  The numbers of tickets
are any ints, as `sys_tickets` refuses none, and sums wrap around at `INT_MAX`.

**`Pipe`** has the ring with indices modulo `UINT`, the descriptors, `fork` and
`exit` that copy and close them, and `kill`; **`ByteQueue`** is the queue it
implements.  **`Bcache`** has the LRU list, reference counts, flags and sleep-locks
of `bio.c` and the request queue of `ide.c`, with sectors that fail.

**`Fs`** has inodes in memory and on disk, `ref`, `nlink`, the sleep-lock of each
inode, directories, the file table and one call at a time per process; `todo` is
the tail of `iput`s and unlocks a call still owes.  **`Vm`** has a two-level page
table, the frames, and `fork`, `exec`, `sbrk`, `exit`, `wait` split at each
`kalloc()`.  **`Umalloc`** is the circular free list.

**`Trap`** executes the instruction sequences of system calls and handlers on two
processors: `IF_`, `ncli`, `intena`, the spin locks, `swtch`.  **`Console`** has the
input ring, the readers and the keyboard's `shift`; **`LineQueue`** is what the ring
stands for.  **`Shell`** parses a line with the functions of `sh.c`, then runs the
tree as processes with descriptors.  **`Strings`** and **`Filters`** are routines,
compared with definitions of what they are for.

**`MC*`** modules give the constants their values.  `MCLog`, `MCLocks`, `MCMemory` and
`MCTerminal` put modules that share no variable side by side: `unit` says which of
them a behaviour is about.

**`LockProofs`**, **`LogProofs`**, **`LogRecovery`**, **`ProcProofs`**, **`ProcSafety`**,
**`PipeProofs`**, **`BcacheProofs`** and **`SchedProofs`** hold the TLAPS proofs
(section 6).

## 3. Runs

| run | properties | what it shows |
|---|---|---|
| `log` | `AtomicTransactions`, `Durable`, `Reserved`; `FileIsBytes`, `FilesIntact` | `Log` implements `AtomicDisk` under `stable <- Recovered`, `mem <- View` with crashes anywhere; what finished calls wrote survives; the reservation of `begin_op` holds.  `FileData` implements `ByteFile`; blocks are mapped, owned once, saved, and a write fits its transaction |
| `locks` | `MutualExclusion`, `NoLostWakeup`, `PassingSound`, `AllEnd`, `SleepersWoken` | sleep-locks exclude and wake; the token of `prog3` goes round in order and all threads end; nobody is left asleep in `begin_op` |
| `proc` | `RunningOnce`, `KernelStacks`, `ParentAlive`, `WaiterWoken`, `ProcAccounted` | one processor per process and per kernel stack, no parent that is gone, no missed exit, pages and file references counted |
| `pipe` | `PipeIntact`, `NoMissedWakeup`, `RingIsQueue`, `CallsEnd` | the ring is a byte queue across the wrap of its indices, is freed once and last, and no reader waits for a writer that is gone |
| `bcache` | `OneBufferPerBlock`, `CacheSound`, `CallsReturn` | one copy of a block, never stale; requests have owners; every call returns |
| `sched` | `RunsOnce`, `PassesSound`, `NobodyStarves` | the schedulers that look at the table in one critical section and act in the next never run a process twice; passes are bounded while no number of tickets is negative; nobody starves while the numbers are in range |
| `fs` | `NoDanglingName`, `InodesSound` | `nlink` is the number of names in every state, the half-finished ones of other calls included; references and blocks agree with who uses them |
| `memory` | `MemorySound`, `ImagesKept`; `HeapSound`; `RunnableRuns`, `ProcessesEnd` | no frame leaked or held twice on any error path, exactly the pages below `sz` mapped; `malloc` and `free` keep the heap tiled; `scheduler()` starves nobody, a killed process exits, init reaps orphans |
| `trap` | `InterruptsSound`, `NoMissedWakeup` | `ncli` and `intena` follow threads across `swtch`; no panic of `spinlock.c` or `sched`; no wakeup lost to an interrupt |
| `terminal` | `ConsoleSound`, `LinesRead`, `ShellSound`, `StringsAgree`, `FiltersAgree` | console ring, parser and process trees of the shell, strings, grep and wc against references |

A property named `...Sound`, `...Intact` or `...Agree` is the conjunction of the
named ones before it in its module.

Two runs end in a counterexample.

`trap_print` (`SpinEnds`): `wait()` and `exit()` call `cprintf()`, which takes
`cons.lock`, under `ptable.lock`, and `consoleintr()` and `consoleread()` take
`ptable.lock` (in `wakeup` and `sleep`) under `cons.lock`.  Two processors can spin
for ever, where spinlock.c says of `acquire` that it "Loops (spins) until the lock is
acquired."  In `trap` no call prints under a lock.

`fs_deadlock` (`NoCircularWait`): `create()` ends with `iunlockput(dp)` while it holds
the inode it made (sysfile.c:280), and `iput` takes the lock of `dp` once more
(fs.c:334).  In between `sys_unlink()` of the same name can lock `dp` (sysfile.c:201) and
then wait for the new inode (sysfile.c:209): both sleep for ever.  usertests.c:855-856
has a test of such calls "to look for deadlocks", and fs.c:149-150 says that keeping
`ilock` apart from `iget` "helps avoid deadlock".  In `fs` the same behaviours are
present: what it checks holds up to and in a deadlock too.

## 4. Bounds

* `log`.  Three processes whose calls write up to two of two blocks: two calls share a
  transaction and a block (absorption) while the third has to wait for room in a log
  of six entries, three of which `begin_op` reserves per call.  Two values tell old
  from new.  Crashes are not bounded.  Files: blocks of
  two bytes, one direct block, so that three bytes reach the indirect block, and a
  bitmap sector per block, the worst case for a transaction; writes of up to three
  bytes by two writers, one reboot.
* `locks`.  Four processes: one that holds, one between `locked` and `sleep`, one
  asleep, one that is killed.  Three threads and three passes: a whole round.
* `proc`.  Four slots hold init, a child, a grandchild and a further slot, which
  reparenting needs; two processors interleave every pair of unlocked steps.  Six
  pages are memory for three processes, so `fork` fails at both of its allocations.
  A behaviour has one of three workloads: processes with `kill` and `close`, threads
  with `close`, and processes beside threads.
  `MaxPid` bounds the processes ever created, `MaxThread` the value of `numofthread`
  at which `clone` is still called.
* `pipe`.  A ring of two with indices modulo four wraps both; a read or write of two
  bytes blocks half-way.
* `bcache`.  Three blocks in two buffers force eviction; one pinned buffer leaves one
  to recycle; one block goes through `log_write`, one sector fails.
* `sched`.  `max` of three is passed within a few choices; tickets 1 and 2 give
  strides 2 and 1, 7 is above `TOTAL_MAX_TICKETS` and gives stride 0, -1 gives -2;
  two calls of `fork` or `tickets` change them while both processors choose.
  `INT_MAX` is 7, the smallest that leaves room above `max` for a stride of both
  processors (at the sizes of proc.c there is much more): a negative stride wraps a
  pass around, 7 tickets beside 1 wrap the total, and a total of -1 makes the draw
  divide by 0.
* `fs`, `fs_deadlock`.  Two names, three inodes, three blocks: a directory in a directory and a file
  with two links exist, and inodes and blocks run out.  Three calls is what it takes for one to find
  the state another has changed half-way.
* `memory`.  Three sizes of memory make each `kalloc()` of `fork` and `exec` fail;
  tables of two entries make a size cross a table; pages of two units make sizes that
  are not page multiples.  Three calls in a row change an address space;
  the heap has eleven units, of which `morecore` asks for four.  Beside them three
  slots on one processor, because starvation by the scan shows only there: init, a
  child and a grandchild that is orphaned, with `fork`, `exit`, `wait` and `kill`.
* `trap`.  Two processors, two processes, a sleep of one tick, one victim of `kill`.
* `terminal`.  A ring of two with indices modulo four; every line of three
  characters, every line of four of seven characters and longer ones; memories of
  six bytes, six-bit integers; patterns of four and texts of five characters.

## 5. Fairness

`Log`: the disk completes its writes, a process that has entered `log_write`
finishes it, and a call in progress reaches its `end_op` (strong, because a call
may modify a block again in between); nothing obliges a process to start a call.
`SleepLock`, `Pipe`, `Bcache`: a process in the kernel is scheduled and some day
gets a lock that is free again and again; a holder releases; the disk answers.
`Proc` (`ProcFairness` of `MCMemory`): a processor spinning for `ptable.lock` gets it
some day, the timer
interrupts every process some day, a process in the kernel takes its next step
before some timer interrupt, and `init.c` calls `wait` in its loop.  These are
strong because a spin lock is taken away and given back; `xchg` gives no
deterministic bound, but no processor loses every race.  `Sched`: the schedulers
loop, the timer fires, and every number that can be drawn again and again is drawn,
as long as no processor has panicked.
`Prog3`: every thread runs.  No program is assumed to make any other call.

## 6. Proofs

Each theorem is `Spec => []P` for a property `P` that a run checks (or `Spec =>
Abs!Spec` for a refinement), for every value of the constants that the module's
assumption allows.  No `P` is inductive.  Each proof module first defines the
invariant `IInv` that is, then has a lemma per conjunct and in it a step per action.
TLC checked each `IInv` on the instance of its run before it was proved.

**`LockProofs`** (any number of processes; any numbers of threads and passes).
`SleepLockSafe`: `acquiresleep` admits one process at a time.  `SleepMissesNoWakeup`:
a process that has decided to sleep is on the way to a wakeup.  `IInv` adds who holds
which spin lock at which place (`Spinlocks`), that `locked` and the owner agree
(`Ownership`, `Locked`), that a process is not RUNNING only inside `sched()`
(`Asleep`), and that on its way to `sleep` it knows of a wakeup to come
(`WakeupComing`).  `TokenPassing`: the threads of `prog3.c` make at most `numofthread *
passnum` passes, in turn.  The bound rests on `Round(q)`: when the token has been round
`q` times, `output` and every value of it that a thread still carries are at least
`q`, although a lost update may take `output` back by almost a round.

**`LogProofs`**, **`LogRecovery`** (any processes, blocks and contents; any sizes with
`OPBLOCKS < MAXOPBLOCKS < LOGSIZE <= NLOG`, the assumption `LogSizes`).  `LogReserved`,
`LogDurable`, and `LogImplementsAtomicDisk`: `Log` implements `AtomicDisk`.  `IInv`: who
commits and that nobody is in a call meanwhile (`Control`); what the header in memory
and the one on disk name at each stage (`Header`); the reservation (`Room`), where
`Slots` is the set of blocks that calls in progress may still log, so that an
absorbed block gives its slot back; which buffers are pinned and that the others
agree with the disk (`Pinned`); how far `write_log` and `install_trans` have come
(`Copied`).  With it every step but `WriteHead` leaves `Recovered` as it was, and a
crash changes `View` to `Recovered`.

**`ProcProofs`**, **`ProcSafety`** (any numbers of slots, processors, pages, pids and
threads, any workloads; at least two pages).  `ProcRunsOnce`, `ProcKernelStacks`,
`ProcParentAlive`, `ProcWaiterWoken`.  `IInv`: who holds `ptable.lock`, across `swtch()`
too (`Lock`); `c->proc`, the place in `scheduler()` and `p->state` agree (`Cpus`); what
a process that does not run has saved (`Contexts`); the slot that `fork` or `clone`
fills outside the lock belongs to it (`Newborns`); init is there and nobody is their
own parent (`Family`); a page that is a kernel stack or an owned page directory is
not free and nothing else (`Pages`).  The scans of the code take the first slot that
fits; the proofs let each take any slot that fits (`Moves`), which `NextMoves` shows to
include what the scan does.

**`PipeProofs`** (any finite set of processes, any `PIPESIZE`, `UINT` any larger multiple
of it, as 2^32 is of 512).  `PipeOutlivesUsers`, `PipeMissesNoWakeup`, `PipeIsQueue`:
`Pipe` implements `ByteQueue`.  `IInv`: `f->ref` counts descriptors (`Refs`); a process
inside the pipe has the descriptor it came through (`Through`); an end is closed
once, after its last descriptor, and the page goes with the second (`Ends`); the lock
(`Locked`); the counters are at most `PIPESIZE` apart, modulo `UINT` (`Room`).  The
refinement is arithmetic modulo `UINT` and `PIPESIZE` together: it needs that the one
divides the other.

**`BcacheProofs`** (any finite set of processes, any buffers and blocks, any set of bad
sectors and of blocks that the log pins).  `CacheHasOneBuffer`, `CacheIsSound`.  `IInv`:
`refcnt` is the number of processes on a buffer (`Refs`); the sleep-lock's owner is the
one past `acquiresleep` (`Owned`); one buffer per block (`Unique`); a valid buffer, and
the disk unless a buffer is dirty, hold what was written last (`Contents`); a queued
request is there once, is not done, and its owner waits (`Queued`); a holder's buffer
is valid and a caller of `iderw` has something to do (`Steps`).

**`SchedProofs`** (any finite set of processors, any slots, any ints as tickets,
`TOTAL_MAX_TICKETS < max`, and `INT_MAX` at least `max` plus a `TOTAL_MAX_TICKETS` for
each processor: 100000 and 4000000 in proc.c:21-22, and `NCPU` is 8).
`SchedRunsOnce`, `SchedPassesBounded`.  `IInv`: a process runs on one processor and is
RUNNING exactly then (`Placed`); the child that `fork` is about to start is an EMBRYO
of that `fork` alone (`Forked`); a pass leaves room for one stride of each processor
that saw the process below `max` and has not yet chosen (`Room`).  `Room` is what makes
the bound inductive: the test against `max` and the addition are in different critical
sections.  `Room`, and that no number is below 0 (`Natural`), hold until somebody has
asked for a negative number of tickets (`negative`); until then no addition to a pass
wraps around.  `SchedRunsOnce` holds whatever the numbers are.

## 7. Only model-checked

* Liveness under fairness (`AllEnd`, `SleepersWoken`, `RunnableRuns`, `ProcessesEnd`,
  `CallsEnd`, `CallsReturn`, `NobodyStarves`): outside the prover.
* `FileIsBytes`, `FilesIntact`, `ShellSound`, `StringsAgree`, `FiltersAgree`: what a
  recursive definition computes, by induction over data.  (`SchedProofs` needs one
  fact of that kind, that a sum of tickets is an int, and has it from the smallest
  set for which it fails.)
* `ProcAccounted`: the sum of all references and pages against what slots hold.
  `HeapSound`: the tiling of the heap by blocks.  Both count over sets that a step
  changes in several places.
* `NoDanglingName`, `InodesSound` (`Fs`), `MemorySound`, `ImagesKept`
  (`Vm`), `InterruptsSound` and the wakeups of `Trap`, `ConsoleSound` and `LinesRead`:
  their inductive invariants are not worked out.

## 8. What the code does that its comments do not say

Met while modelling; the models have the behaviour, and the properties that it
would break are stated for what is left.

* Threads.  `wait()` reaps a thread without clearing `parent`, so the next `wait()`
  counts the UNUSED slot as a child and sleeps (proc.c:397; the comment at 417 says
  "No point waiting if we don't have any children."); `SleepsForChildren` is therefore
  about runs without threads.  `kill()` matches an UNUSED slot whose `pid` is stale,
  and `allocproc` does not clear `killed` (proc.c:783).  `clone` increments
  `numofthread` before `allocproc` and not back when that fails (proc.c:285).  `wait`
  frees the page directory of a process whose threads still run on it (proc.c:406),
  and a thread shares descriptors without `filedup`, so two closes meet the panic of
  `fileclose` (proc.c:319).  `growproc` works on the caller's own `sz`.
* Log.  `mkfs` gives the log `LOGSIZE` blocks, header included, so there is one entry
  less on disk than `log_write` tests for.  Calls that wrote all of their `MAXOPBLOCKS`
  could fill the log and meet that; no call of the kernel does, which is the
  assumption `OPBLOCKS < MAXOPBLOCKS` of `Reserved`.
* Files.  When the entries of the root directory fill a block, `mkfs` adds a block that
  is not mapped; `readi` then allocates without `iupdate`, outside a transaction.  The
  shipped image has 23 entries, which do not fill their blocks.
* File system calls.  `create` and `unlink` of one name can wait for each other for
  ever (the run `fs_deadlock`); `link(x, "d/.")` waits for its own lock; two last
  `iput`s that overlap can leave an inode with no link and no reference allocated
  (against fs.c:118-120); `..` of a removed directory stays reachable from inside.
  `create` and `link` write to a directory that `unlink` has removed since they looked
  it up; the last `iput` frees that directory with the name in it, and the link that
  the name counted for is never given back (`lost` in `NoDanglingName`).
* Pipes.  A killed writer with a full ring returns without `wakeup` (pipe.c:86-88).  A
  reader that this leaves asleep stays so while other readers take only part of the
  bytes: `NoMissedWakeup` therefore excepts readers once a process has been killed,
  whatever the ring holds (that the ring is full holds for two processes only, as
  the proof for any number of them showed).
* Disk.  A failed read marks the buffer valid (ide.c:118-122).
* Schedulers.  `fork` resets the tickets of sleeping processes (proc.c:263-270); init
  and its first child have no tickets; a stale `min` may leave a round without a
  choice; the draw uses a total that may be old.  `sys_tickets` stores any int
  (sysproc.c:149-159).  A number above `TOTAL_MAX_TICKETS` makes the stride 0 and a
  negative one makes it negative: under stride such a process stays the smallest and
  no other runs, and a pass that falls for ever wraps around.  Under the lottery the
  total wraps around when the numbers are large, and negative numbers can make it -1,
  on which `genrand() % (totalTickets + 1)` is a divide error in the kernel, that is
  a panic (proc.c:510, trap.c:83-87).  `NobodyStarves` and `PassesSound` say for which
  numbers they hold.
* Memory.  `sbrk(-sz)` frees everything and returns -1.
* grep drops a line longer than its buffer (grep.c:29-30).  The shell takes the first of
  two redirections last, `>>` does what `>` does, and a failed second fork of a pipe
  leaves the left command behind.
* prog3.  `output` is tested without the lock and may be kept in a register between
  `xchg`s without a memory clobber (x86.h): a pass can be lost from the count.

## 9. Not modelled

* Hardware: device registers, interrupt controllers, boot.  A disk write of one
  block is atomic.
* `pid` does not wrap around; `nlink`, `ref` and `f->ref` are unbounded.
* Spin locks have no queue: any spinning processor may get one.
* In `Proc` an address space is one page and `copyuvm` one allocation (`Vm` has them
  page by page).
* An UNUSED slot keeps what the code leaves in it; the `name`, `tf` and `cwd` fields,
  which no operation of `Proc` tests, are left out.
* In `Bcache` a process works on one buffer at a time.  The kernel holds two at once in
  places (the log's copies, an indirect block and its data), which can only meet the
  panic of `bget` earlier; block numbers beyond the disk, on which `idestart` panics,
  are not asked for.
* Reads and writes of no bytes on a pipe: they wake the other end and move nothing (such
  a read waits for data first).  Negative lengths do not come so far (`argptr`).
* `Strings`, `Filters` and the lexer of `Shell` are about characters, so that bytes are
  what they have as data; elsewhere a name or a byte is a value like another.
* `mknod` and devices in `Fs`, `cd` in `Shell`, the RAM disk, `info`, the other user
  programs, and `thread_lib.c`, which no program is built with: `prog3.c` includes
  `thread_lib.h`.
