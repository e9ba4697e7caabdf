-------------------------------- MODULE Pipe --------------------------------
(***************************************************************************)
(* One pipe of pipe.c and the two open files of file.c that lead to it,    *)
(* shared by processes that inherit them through fork(), read, write,      *)
(* close, are killed and exit.  lock is p->lock; what runs under it is one *)
(* action per byte.  sleep() and wakeup() keep their promise (SleepLock):  *)
(* a sleeper is a process at "rsleep" or "wsleep", a wakeup sends it on to *)
(* take the lock again.                                                    *)
(***************************************************************************)
EXTENDS Integers, FiniteSets

CONSTANTS Proc,      \* processes
          First,     \* the process that calls pipe()
          Byte,      \* byte values
          PIPESIZE,  \* bytes of the ring
          UINT,      \* the counters run modulo UINT (2^32 in the code)
          MaxN,      \* bound: the largest count passed to read and write
          None

ASSUME PipeAssumption ==
  /\ IsFiniteSet(Proc) /\ First \in Proc /\ None \notin Proc /\ 1 \in Byte
  /\ PIPESIZE \in Nat \ {0} /\ UINT \in Nat /\ MaxN \in Nat \ {0}
  /\ UINT % PIPESIZE = 0 /\ UINT > PIPESIZE

End == {"read", "write"}

VARIABLES lock, data, nread, nwrite,  \* struct pipe
          open,                       \* readopen and writeopen
          freed,                      \* kfree() has taken the page back
          ref, ofile,                 \* f->ref of the two files, descriptors
          pc, left,                   \* where a process is, and its n - i
          killed, exiting             \* p->killed; p is in exit()

ring  == <<data, nread, nwrite>>
files == <<open, freed, ref, ofile>>
vars  == <<lock, ring, files, pc, left, killed, exiting>>

TypeOK ==
  /\ lock \in Proc \cup {None}
  /\ data \in [0 .. PIPESIZE - 1 -> Byte]
  /\ nread \in 0 .. UINT - 1 /\ nwrite \in 0 .. UINT - 1
  /\ open \in [End -> BOOLEAN] /\ freed \in BOOLEAN
  /\ ref \in [End -> 0 .. Cardinality(Proc)]
  /\ ofile \in [Proc -> SUBSET End]
  /\ pc \in [Proc -> {"unused", "user", "write", "wsleep", "wwoken", "read", "copy",
                      "rsleep", "rwoken", "closeread", "closewrite", "zombie"}]
  /\ left \in [Proc -> 0 .. MaxN]
  /\ killed \in [Proc -> BOOLEAN] /\ exiting \in [Proc -> BOOLEAN]

(* pipealloc() and sys_pipe(): both ends are descriptors of First.  The    *)
(* page that kalloc() returns is filled with kfree()'s junk, 1.            *)
Init ==
  /\ lock = None /\ nread = 0 /\ nwrite = 0
  /\ data = [k \in 0 .. PIPESIZE - 1 |-> 1]
  /\ open = [e \in End |-> TRUE] /\ freed = FALSE
  /\ ref = [e \in End |-> 1]
  /\ ofile = [p \in Proc |-> IF p = First THEN End ELSE {}]
  /\ pc = [p \in Proc |-> IF p = First THEN "user" ELSE "unused"]
  /\ left = [p \in Proc |-> 0]
  /\ killed = [p \in Proc |-> FALSE] /\ exiting = killed

-----------------------------------------------------------------------------
(* p runs a program, and may call the kernel.                              *)
InUser(p) == pc[p] = "user" /\ ~killed[p] /\ ~exiting[p]

Goto(p, l) == pc' = [pc EXCEPT ![p] = l]

fullNoWrap == nwrite = nread + PIPESIZE
full == nwrite = (nread + PIPESIZE) % UINT
empty == nread = nwrite

(* wakeup(&p->nread), wakeup(&p->nwrite), applied to the positions f.      *)
wakeup(f, s, w) == [p \in Proc |-> IF f[p] = s THEN w ELSE f[p]]

(* The caller enters with a count, takes the lock and loops.               *)
Enter(p, end, l) ==
  /\ InUser(p) /\ end \in ofile[p]
  /\ lock = None /\ lock' = p
  /\ \E k \in 1 .. MaxN : left' = [left EXCEPT ![p] = k]
  /\ Goto(p, l)
  /\ UNCHANGED <<ring, files, killed, exiting>>

(* The end of sleep(): the lock again.                                     *)
Relock(p, woken, l) ==
  /\ pc[p] = woken /\ lock = None /\ lock' = p
  /\ Goto(p, l)
  /\ UNCHANGED <<ring, files, left, killed, exiting>>

Return(p, f) ==
  /\ lock' = None
  /\ pc' = [f EXCEPT ![p] = "user"]
  /\ left' = [left EXCEPT ![p] = 0]
  /\ UNCHANGED <<ring, files, killed, exiting>>

-----------------------------------------------------------------------------
(* pipewrite().                                                            *)
WriteByte(p) ==
  /\ pc[p] = "write" /\ left[p] > 0 /\ ~full
  /\ \E b \in Byte : data' = [data EXCEPT ![nwrite % PIPESIZE] = b]
  /\ nwrite' = (nwrite + 1) % UINT
  /\ left' = [left EXCEPT ![p] = @ - 1]
  /\ UNCHANGED <<lock, nread, files, pc, killed, exiting>>

WriteFails(p) ==
  /\ pc[p] = "write" /\ left[p] > 0 /\ full
  /\ ~open["read"] \/ killed[p]
  /\ Return(p, pc)

WriteSleep(p) ==
  /\ pc[p] = "write" /\ left[p] > 0 /\ full
  /\ open["read"] /\ ~killed[p]
  /\ lock' = None
  /\ pc' = [wakeup(pc, "rsleep", "rwoken") EXCEPT ![p] = "wsleep"]
  /\ UNCHANGED <<ring, files, left, killed, exiting>>

WriteEnd(p) ==
  /\ pc[p] = "write" /\ left[p] = 0
  /\ Return(p, wakeup(pc, "rsleep", "rwoken"))

-----------------------------------------------------------------------------
(* piperead().                                                             *)
ReadSleep(p) ==
  /\ pc[p] = "read" /\ empty /\ open["write"] /\ ~killed[p]
  /\ lock' = None
  /\ Goto(p, "rsleep")
  /\ UNCHANGED <<ring, files, left, killed, exiting>>

ReadFails(p) ==
  /\ pc[p] = "read" /\ empty /\ open["write"] /\ killed[p]
  /\ Return(p, pc)

ReadCopy(p) ==
  /\ pc[p] = "read" /\ ~(empty /\ open["write"])
  /\ Goto(p, "copy")
  /\ UNCHANGED <<lock, ring, files, left, killed, exiting>>

ReadByte(p) ==
  /\ pc[p] = "copy" /\ left[p] > 0 /\ ~empty
  /\ nread' = (nread + 1) % UINT
  /\ left' = [left EXCEPT ![p] = @ - 1]
  /\ UNCHANGED <<lock, data, nwrite, files, pc, killed, exiting>>

ReadEnd(p) ==
  /\ pc[p] = "copy"
  /\ left[p] = 0 \/ empty
  /\ Return(p, wakeup(pc, "wsleep", "wwoken"))

-----------------------------------------------------------------------------
(* fork() duplicates every descriptor with filedup().                      *)
Fork(p, q) ==
  /\ InUser(p) /\ pc[q] = "unused"
  /\ Goto(q, "user")
  /\ ofile' = [ofile EXCEPT ![q] = ofile[p]]
  /\ ref' = [e \in End |-> ref[e] + IF e \in ofile[p] THEN 1 ELSE 0]
  /\ UNCHANGED <<lock, ring, open, freed, left, killed, exiting>>

(* fileclose(), of sys_close() and of exit()'s loop: under ftable.lock,    *)
(* the last reference leads to pipeclose().                                *)
CloseLabel == [e \in End |-> IF e = "read" THEN "closeread" ELSE "closewrite"]

LastRefOffByOne(e) == ref[e] = 0
LastRef(e) == ref[e] = 1

fileclose(p, e) ==
  /\ pc[p] = "user" /\ e \in ofile[p]
  /\ ofile' = [ofile EXCEPT ![p] = @ \ {e}]
  /\ ref' = [ref EXCEPT ![e] = @ - 1]
  /\ IF LastRef(e) THEN Goto(p, CloseLabel[e]) ELSE UNCHANGED pc
  /\ UNCHANGED <<lock, ring, open, freed, left, killed, exiting>>

(* pipeclose(): wake the other side; the second end frees the page.        *)
wakeupNobody(f, e) == f
wakeupClosed(f, e) ==
  IF e = "write" THEN wakeup(f, "rsleep", "rwoken") ELSE wakeup(f, "wsleep", "wwoken")

FreeEarly(e) == TRUE
BothClosed(e) == \A o \in End \ {e} : ~open[o]

pipeclose(p, e) ==
  /\ pc[p] = CloseLabel[e]
  /\ lock = None
  /\ open' = [open EXCEPT ![e] = FALSE]
  /\ freed' = BothClosed(e)
  /\ pc' = [wakeupClosed(pc, e) EXCEPT ![p] = "user"]
  /\ UNCHANGED <<lock, ring, ref, ofile, left, killed, exiting>>

-----------------------------------------------------------------------------
(* kill(): a sleeper wakes; the process exits on its way to user mode.     *)
KillWakes(p) ==
  CASE pc[p] = "rsleep" -> "rwoken" [] pc[p] = "wsleep" -> "wwoken" [] OTHER -> pc[p]

Kill(p) ==
  /\ pc[p] \notin {"unused", "zombie"} /\ ~killed[p]
  /\ killed' = [killed EXCEPT ![p] = TRUE]
  /\ Goto(p, KillWakes(p))
  /\ UNCHANGED <<lock, ring, files, left, exiting>>

(* exit(): the descriptors are closed when numofthread is 0.  While any    *)
(* thread lives, of whatever process, they are kept for ever.              *)
Exit(p) ==
  /\ pc[p] = "user" /\ ~exiting[p]
  /\ exiting' = [exiting EXCEPT ![p] = TRUE]
  /\ UNCHANGED <<lock, ring, files, pc, left, killed>>

ExitKeepsFiles(p) ==
  /\ pc[p] = "user" /\ ~exiting[p]
  /\ Goto(p, "zombie")
  /\ UNCHANGED <<lock, ring, files, left, killed, exiting>>

ExitDone(p) ==
  /\ exiting[p] /\ pc[p] = "user" /\ ofile[p] = {}
  /\ Goto(p, "zombie")
  /\ UNCHANGED <<lock, ring, files, left, killed, exiting>>

-----------------------------------------------------------------------------
(* What a process does once it is in the kernel, and what it must do once  *)
(* it is killed; the rest is up to the programs.                           *)
InKernel(p) ==
  \/ Relock(p, "wwoken", "write") \/ WriteByte(p) \/ WriteFails(p) \/ WriteSleep(p)
  \/ WriteEnd(p)
  \/ Relock(p, "rwoken", "read") \/ ReadSleep(p) \/ ReadFails(p) \/ ReadCopy(p)
  \/ ReadByte(p) \/ ReadEnd(p)
  \/ \E e \in End : pipeclose(p, e) \/ (exiting[p] /\ fileclose(p, e))
  \/ ExitDone(p)
  \/ (killed[p] /\ Exit(p))

Program(p) ==
  \/ Enter(p, "write", "write") \/ Enter(p, "read", "read")
  \/ \E q \in Proc : Fork(p, q)
  \/ \E e \in End : InUser(p) /\ fileclose(p, e)
  \/ Exit(p) \/ ExitKeepsFiles(p) \/ Kill(p)

Next == \E p \in Proc : InKernel(p) \/ Program(p)

Spec == Init /\ [][Next]_vars

(* A process in the kernel is scheduled, and a lock that is free again and *)
(* again is some day taken by a process that spins on it.                  *)
FairSpec == Spec /\ \A p \in Proc : SF_vars(InKernel(p))

-----------------------------------------------------------------------------
(* Properties.                                                             *)

(* The ring with its free-running counters is a bounded FIFO queue of      *)
(* bytes, also when the counters wrap around.                              *)
Queue == INSTANCE ByteQueue WITH
  Size <- PIPESIZE, readopen <- open["read"], writeopen <- open["write"],
  queue <- [k \in 1 .. (nwrite - nread + UINT) % UINT |-> data[(nread + k - 1) % PIPESIZE]]

RingIsQueue == Queue!Spec

(* Nobody is inside the pipe, or on the way to its lock, once the second   *)
(* pipeclose() has freed it.                                               *)
NoUseAfterFree ==
  freed => /\ lock = None
           /\ \A p \in Proc : pc[p] \in {"unused", "user", "zombie"}

(* A reader sleeps only while a writer may still come, and only when there *)
(* is nothing to read or the writer that will wake it holds the lock; the  *)
(* same for a writer.  The exception is what pipewrite() leaves behind     *)
(* when it is killed with the ring full: it returns without a wakeup, and  *)
(* the reader sleeps on however many bytes other readers leave in the ring.*)
NoMissedWakeup ==
  /\ (\E p \in Proc : pc[p] = "rsleep") =>
       /\ open["write"]
       /\ empty \/ (lock # None /\ pc[lock] = "write") \/ \E q \in Proc : killed[q]
  /\ (\E p \in Proc : pc[p] = "wsleep") =>
       /\ open["read"]
       /\ full \/ (lock # None /\ pc[lock] = "copy")

(* When the last write descriptor is closed, a reader comes back from      *)
(* read() and sees the end of the file.                                    *)
EndOfFile ==
  \A p \in Proc : (pc[p] = "rsleep" /\ \A q \in Proc : "write" \notin ofile[q])
                    ~> pc[p] \in {"user", "zombie"}

(* A killed process leaves the pipe and exits, whatever the others do.     *)
KilledExits == \A p \in Proc : killed[p] ~> pc[p] = "zombie"

\* Readers see the end of the file, and the killed leave (piperead(), kill()).
CallsEnd ==
    EndOfFile /\ KilledExits

\* The pipe exists for as long as anybody can reach it (pipeclose()).
PipeIntact ==
    TypeOK /\ NoUseAfterFree

=============================================================================
