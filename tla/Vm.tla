--------------------------------- MODULE Vm ---------------------------------
(***************************************************************************)
(* Physical memory and address spaces: kalloc.c, vm.c, exec.c and the      *)
(* fork(), wait() and growproc() of proc.c, on CPUs that run their calls   *)
(* in parallel.  Every kalloc() and kfree() is a step of its own, because  *)
(* kmem.lock is all that orders them; every other access is to a page      *)
(* table no other process uses (threads that share one are in Proc).       *)
(*                                                                         *)
(* A frame that holds a page directory has its entries in pde, one that    *)
(* holds a page table in pte; 0 is an absent entry.  The kernel part of a  *)
(* directory is KTABS page tables whose entries are left out, as is what   *)
(* user pages contain.  The free list is a set: its order decides only     *)
(* which of two free frames is handed out.                                 *)
(***************************************************************************)
EXTENDS Integers, FiniteSets, FiniteSetsExt

CONSTANTS Proc, InitProc,
          Memories,       \* how many frames the machine may have
          NPDE, NPTE,     \* user directory entries; entries of a page table
          KTABS,          \* page tables of the kernel part
          PGSIZE,         \* units of memory in a page
          Increments,     \* the arguments of sbrk()
          Segments,       \* program headers: [vaddr, memsz]
          MaxSegs,        \* bound: segments of one program
          MaxCalls        \* bound: system calls altogether

ASSUME VmConstants ==
    /\ InitProc \in Proc /\ {NPDE, NPTE, KTABS, PGSIZE} \subseteq Nat \ {0}
    /\ \A m \in Memories : m \in Nat /\ m >= KTABS + 4
    /\ Increments \subseteq Int /\ {MaxSegs, MaxCalls} \subseteq Nat
    /\ Segments \subseteq [vaddr : Nat, memsz : Nat]

VARIABLES phystop, freelist, pde, pte, kstack, pgdir, sz,
          cr3,       \* the directory in the CPU's register while p runs
          pc, l,     \* where p is in its system call, and its locals
          panicked,
          calls      \* system calls made so far, for the bound

vars == <<phystop, freelist, pde, pte, kstack, pgdir, sz, cr3, pc, l, panicked, calls>>

Frame == 1 .. Max(Memories)
KERNBASE == NPDE * NPTE * PGSIZE
PGROUNDDOWN(a) == (a \div PGSIZE) * PGSIZE
PGROUNDUP(a) == ((a + PGSIZE - 1) \div PGSIZE) * PGSIZE
PDX(a) == a \div (NPTE * PGSIZE)
PTX(a) == (a \div PGSIZE) % NPTE
Pages == {i * PGSIZE : i \in 0 .. NPDE * NPTE - 1}
UserPde == 0 .. NPDE - 1
Pde == 0 .. NPDE + KTABS - 1
Absent == [pa |-> 0, u |-> FALSE]

\* The locals: op the call, d the directory it works on, old and new the
\* sizes given to allocuvm() or deallocuvm(), a the next address, mem a page
\* not yet mapped, c the child, n the segments loaded, va the last one's start.
NoLocals == [op |-> "none", d |-> 0, old |-> 0, new |-> 0, a |-> 0,
             mem |-> 0, c |-> InitProc, n |-> 0, va |-> 0]

walkpgdir(d, a) == pde[d][PDX(a)]
Pte(d, a) == IF walkpgdir(d, a) = 0 THEN Absent ELSE pte[walkpgdir(d, a)][PTX(a)]
Mapped(d) == {a \in Pages : Pte(d, a).pa # 0}

\* userinit(): the first process, with a page of initcode.
Init ==
    LET dir == 2  utab == KTABS + 3  page == KTABS + 4 IN
    /\ phystop \in Memories
    /\ freelist = (KTABS + 5) .. phystop
    /\ pde = [f \in Frame |-> [i \in Pde |->
                 IF f # dir THEN 0 ELSE IF i = 0 THEN utab
                 ELSE IF i >= NPDE THEN 3 + i - NPDE ELSE 0]]
    /\ pte = [f \in Frame |-> [j \in 0 .. NPTE - 1 |->
                 IF f = utab /\ j = 0 THEN [pa |-> page, u |-> TRUE] ELSE Absent]]
    /\ kstack = [p \in Proc |-> IF p = InitProc THEN 1 ELSE 0]
    /\ pgdir = [p \in Proc |-> IF p = InitProc THEN dir ELSE 0]
    /\ sz = [p \in Proc |-> IF p = InitProc THEN PGSIZE ELSE 0]
    /\ cr3 = pgdir
    /\ pc = [p \in Proc |-> IF p = InitProc THEN "user" ELSE "unused"]
    /\ l = [p \in Proc |-> NoLocals]
    /\ panicked = FALSE /\ calls = 0

Goto(p, label) == pc' = [pc EXCEPT ![p] = label]

\* The call returns: its locals are gone.
Return(p) == Goto(p, "user") /\ l' = [l EXCEPT ![p] = NoLocals]

\* A process runs user code as long as its text, which starts at 0, is mapped.
InUser(p) == pc[p] = "user" /\ 0 \in Mapped(pgdir[p])

-----------------------------------------------------------------------------
(* kalloc.c                                                                *)

\* Which free frame it is makes no difference: the first process is given the
\* lowest and the others the highest, so that their allocations commute.
kalloc(p) == IF p = InitProc THEN Min(freelist) ELSE Max(freelist)
Take(f) == freelist' = freelist \ {f}
kfree(f) == freelist' = freelist \cup {f}

-----------------------------------------------------------------------------
\* switchuvm(): the CPU that runs p uses directory d from now on.
switchuvm(p, d) == cr3' = [cr3 EXCEPT ![p] = d]

(* setupkvm(), for fork() and for exec()                                   *)

\* What a call does once the directory it was building is gone, or was never
\* made: fork() still has the kernel stack to free, the others return.
BuildFailed(p) ==
    IF l[p].op = "fork" THEN Goto(p, "forkfails") /\ UNCHANGED l ELSE Return(p)

setupkvm(p) ==
    /\ pc[p] = "setup"
    /\ IF freelist = {}
       THEN BuildFailed(p) /\ UNCHANGED <<freelist, pde, pte>>
       ELSE /\ Take(kalloc(p)) /\ Goto(p, "kmap")
            /\ l' = [l EXCEPT ![p].d = kalloc(p), ![p].a = NPDE]
            /\ pde' = [pde EXCEPT ![kalloc(p)] = [i \in Pde |-> 0]]
            /\ UNCHANGED pte
    /\ UNCHANGED <<kstack, pgdir, sz, cr3, panicked>>

\* The kernel mappings: one page table per step, freevm() when one is missing.
kmap(p) ==
    /\ pc[p] = "kmap"
    /\ IF l[p].a = NPDE + KTABS
       THEN /\ Goto(p, IF l[p].op = "fork" THEN "copy" ELSE "segment")
            /\ l' = [l EXCEPT ![p].a = 0] /\ UNCHANGED <<freelist, pde>>
       ELSE IF freelist = {}
       THEN Goto(p, "freevm") /\ UNCHANGED <<l, freelist, pde>>
       ELSE /\ Take(kalloc(p)) /\ UNCHANGED pc
            /\ pde' = [pde EXCEPT ![l[p].d][l[p].a] = kalloc(p)]
            /\ l' = [l EXCEPT ![p].a = @ + 1]
    /\ UNCHANGED <<pte, kstack, pgdir, sz, cr3, panicked>>

-----------------------------------------------------------------------------
(* allocuvm(), copyuvm() and the mappages() of both                        *)

\* allocuvm() refuses a size that reaches the kernel.
TooBig(new) == new >= KERNBASE

\* The first page of a growth from oldsz.
GrowFrom(oldsz) == PGROUNDUP(oldsz)

\* allocuvm(): the next page of the growth, or what to undo when there is none.
PageFails(p) == IF l[p].op = "fork" THEN "freevm" ELSE "undo"

allocuvm(p) ==
    /\ pc[p] = "alloc" /\ l[p].a < l[p].new
    /\ IF freelist = {}
       THEN Goto(p, PageFails(p)) /\ UNCHANGED <<freelist, l>>
       ELSE /\ Take(kalloc(p)) /\ Goto(p, "map")
            /\ l' = [l EXCEPT ![p].mem = kalloc(p)]
    /\ UNCHANGED <<pde, pte, kstack, pgdir, sz, cr3, panicked>>

copyuvm(p) ==
    /\ pc[p] = "copy" /\ l[p].a < sz[p]
    /\ IF Pte(pgdir[p], l[p].a).pa = 0
       THEN panicked' = TRUE /\ UNCHANGED <<freelist, pc, l>>
       ELSE /\ UNCHANGED panicked
            /\ IF freelist = {}
               THEN Goto(p, PageFails(p)) /\ UNCHANGED <<freelist, l>>
               ELSE /\ Take(kalloc(p)) /\ Goto(p, "map")
                    /\ l' = [l EXCEPT ![p].mem = kalloc(p)]
    /\ UNCHANGED <<pde, pte, kstack, pgdir, sz, cr3>>

\* The flags of the new entry: a copy of the parent's, or user and writable.
Perm(p) == IF l[p].op = "fork" THEN Pte(pgdir[p], l[p].a).u ELSE TRUE

PutPte(p, tab) ==
    /\ pte' = [pte EXCEPT ![tab][PTX(l[p].a)] = [pa |-> l[p].mem, u |-> Perm(p)]]
    /\ l' = [l EXCEPT ![p].mem = 0, ![p].a = @ + PGSIZE]
    /\ Goto(p, IF l[p].op = "fork" THEN "copy" ELSE "alloc")

\* mappages() of one page: walkpgdir() makes the page table if it is missing.
\* Without memory for it copyuvm() frees the page, allocuvm() keeps it until
\* it has undone the rest.
mappages(p) ==
    LET d == l[p].d  tab == walkpgdir(d, l[p].a) IN
    /\ pc[p] = "map"
    /\ IF tab # 0 /\ Pte(d, l[p].a).pa # 0
       THEN panicked' = TRUE /\ UNCHANGED <<freelist, pc, l, pde, pte>>
       ELSE /\ UNCHANGED panicked
            /\ \/ tab # 0 /\ PutPte(p, tab) /\ UNCHANGED <<freelist, pde>>
               \/ /\ tab = 0 /\ freelist # {}
                  /\ Take(kalloc(p)) /\ PutPte(p, kalloc(p))
                  /\ pde' = [pde EXCEPT ![d][PDX(l[p].a)] = kalloc(p)]
               \/ /\ tab = 0 /\ freelist = {}
                  /\ Goto(p, PageFails(p))
                  /\ IF l[p].op = "fork"
                     THEN kfree(l[p].mem) /\ l' = [l EXCEPT ![p].mem = 0]
                     ELSE UNCHANGED <<freelist, l>>
                  /\ UNCHANGED <<pde, pte>>
    /\ UNCHANGED <<kstack, pgdir, sz, cr3>>

-----------------------------------------------------------------------------
(* deallocuvm() and freevm()                                               *)

\* The pages deallocuvm(pgdir, oldsz, newsz) frees.
Doomed(d, oldsz, newsz) == {a \in Mapped(d) : PGROUNDUP(newsz) <= a /\ a < oldsz}

\* One page of deallocuvm()'s loop: kfree() it and clear its entry.
FreePage(d, a) ==
    /\ kfree(Pte(d, a).pa)
    /\ pte' = [pte EXCEPT ![walkpgdir(d, a)][PTX(a)] = Absent]

\* allocuvm()'s last kfree(), of the page that could not be mapped.
FreeMemNot(p) == UNCHANGED freelist
FreeMem(p) == IF l[p].mem # 0 THEN kfree(l[p].mem) ELSE UNCHANGED freelist

UndoFromZero(p) == 0
UndoFrom(p) == l[p].old

\* allocuvm() failed: deallocuvm(pgdir, newsz, oldsz), then the page that
\* could not be mapped.  exec() goes on to its "bad" label.
undo(p) ==
    LET D == Doomed(l[p].d, l[p].new, UndoFrom(p)) IN
    /\ pc[p] = "undo"
    /\ \/ D # {} /\ FreePage(l[p].d, Min(D)) /\ UNCHANGED <<pc, l>>
       \/ /\ D = {} /\ UNCHANGED pte
          /\ FreeMem(p)
          /\ IF l[p].op = "sbrk" THEN Return(p)
             ELSE Goto(p, "freevm") /\ l' = [l EXCEPT ![p].mem = 0]
    /\ UNCHANGED <<pde, kstack, pgdir, sz, cr3, panicked>>

\* The last kfree() of freevm() is the directory's: the call that wanted it
\* gone continues.
Freed(p) ==
    CASE l[p].op = "wait" ->
            /\ pc' = [pc EXCEPT ![p] = "user", ![l[p].c] = "unused"]
            /\ l' = [l EXCEPT ![p] = NoLocals]
      [] OTHER -> BuildFailed(p)

Tables(d) == {i \in Pde : pde[d][i] # 0}

freevm(p) ==
    LET d == l[p].d  D == Doomed(d, KERNBASE, 0)  T == Tables(d) IN
    /\ pc[p] = "freevm"
    /\ \/ D # {} /\ FreePage(d, Min(D)) /\ UNCHANGED <<pc, l, pde>>
       \/ /\ D = {} /\ T # {}
          /\ kfree(pde[d][Min(T)]) /\ pde' = [pde EXCEPT ![d][Min(T)] = 0]
          /\ UNCHANGED <<pc, l, pte>>
       \/ D = {} /\ T = {} /\ kfree(d) /\ Freed(p) /\ UNCHANGED <<pde, pte>>
    /\ UNCHANGED <<kstack, pgdir, sz, cr3, panicked>>

-----------------------------------------------------------------------------
(* fork(), exit() and wait(), as far as memory goes                        *)

\* allocproc(): a slot, then its kernel stack.
Fork(p) == \E c \in Proc :
    /\ InUser(p) /\ pc[c] = "unused"
    /\ IF freelist = {}
       THEN UNCHANGED <<freelist, kstack, pc, l>>
       ELSE /\ Take(kalloc(p)) /\ kstack' = [kstack EXCEPT ![c] = kalloc(p)]
            /\ pc' = [pc EXCEPT ![p] = "setup", ![c] = "embryo"]
            /\ l' = [l EXCEPT ![p].op = "fork", ![p].c = c]
    /\ UNCHANGED <<pde, pte, pgdir, sz, cr3, panicked>>

\* copyuvm() returned 0: the kernel stack goes back.
ForkFails(p) ==
    LET c == l[p].c IN
    /\ pc[p] = "forkfails"
    /\ kfree(kstack[c]) /\ kstack' = [kstack EXCEPT ![c] = 0]
    /\ pgdir' = [pgdir EXCEPT ![c] = 0]
    /\ pc' = [pc EXCEPT ![p] = "user", ![c] = "unused"]
    /\ l' = [l EXCEPT ![p] = NoLocals]
    /\ UNCHANGED <<pde, pte, sz, cr3, panicked>>

\* copyuvm() is done: the child has its memory and the scheduler may run it.
ForkDone(p) ==
    LET c == l[p].c IN
    /\ pc[p] = "copy" /\ l[p].a >= sz[p]
    /\ pgdir' = [pgdir EXCEPT ![c] = l[p].d]
    /\ switchuvm(c, l[p].d)
    /\ sz' = [sz EXCEPT ![c] = sz[p]]
    /\ pc' = [pc EXCEPT ![p] = "user", ![c] = "user"]
    /\ l' = [l EXCEPT ![p] = NoLocals]
    /\ UNCHANGED <<freelist, pde, pte, kstack, panicked>>

\* exit(), of its own will or because it touched an unmapped page.  The
\* scheduler that takes over loads the kernel's own directory.
Exit(p) ==
    /\ pc[p] = "user" /\ p # InitProc
    /\ Goto(p, "zombie") /\ cr3' = [cr3 EXCEPT ![p] = 0]
    /\ UNCHANGED <<freelist, pde, pte, kstack, pgdir, sz, l, panicked>>

\* wait() reaps a zombie (whose parent it is: see Proc): kernel stack, memory.
Wait(p) == \E c \in Proc :
    /\ InUser(p) /\ pc[c] = "zombie"
    /\ \A q \in Proc : ~(l[q].op = "wait" /\ l[q].c = c)
    /\ kfree(kstack[c]) /\ kstack' = [kstack EXCEPT ![c] = 0]
    /\ l' = [l EXCEPT ![p].op = "wait", ![p].c = c, ![p].d = pgdir[c]]
    /\ Goto(p, "freevm")
    /\ UNCHANGED <<pde, pte, pgdir, sz, cr3, panicked>>

-----------------------------------------------------------------------------
(* sbrk(): growproc()                                                      *)

Grow(p) == \E n \in Increments :
    /\ InUser(p) /\ n > 0
    /\ IF TooBig(sz[p] + n)
       THEN UNCHANGED <<pc, l>>
       ELSE /\ Goto(p, "alloc")
            /\ l' = [l EXCEPT ![p].op = "sbrk", ![p].d = pgdir[p], ![p].old = sz[p],
                              ![p].new = sz[p] + n, ![p].a = GrowFrom(sz[p])]
    /\ UNCHANGED <<freelist, pde, pte, kstack, pgdir, sz, cr3, panicked>>

Grown(p) ==
    /\ pc[p] = "alloc" /\ l[p].op = "sbrk" /\ l[p].a >= l[p].new
    /\ sz' = [sz EXCEPT ![p] = l[p].new]
    /\ Return(p)
    /\ UNCHANGED <<freelist, pde, pte, kstack, pgdir, cr3, panicked>>

\* A decrement larger than the process wraps around, and deallocuvm() finds
\* nothing to do.
Shrink(p) == \E n \in Increments :
    /\ InUser(p) /\ n < 0 /\ sz[p] + n >= 0
    /\ Goto(p, "shrink")
    /\ l' = [l EXCEPT ![p].op = "sbrk", ![p].d = pgdir[p], ![p].new = sz[p] + n]
    /\ UNCHANGED <<freelist, pde, pte, kstack, pgdir, sz, cr3, panicked>>

\* A new size of 0 is taken for deallocuvm()'s error: sz keeps its value,
\* with no page left under it.
ShrunkSize(p) == IF l[p].new = 0 THEN sz[p] ELSE l[p].new

Shrunk(p) ==
    LET D == Doomed(l[p].d, sz[p], l[p].new) IN
    /\ pc[p] = "shrink"
    /\ \/ D # {} /\ FreePage(l[p].d, Min(D)) /\ UNCHANGED <<pc, l, sz>>
       \/ /\ D = {} /\ Return(p) /\ UNCHANGED <<freelist, pte>>
          /\ sz' = [sz EXCEPT ![p] = ShrunkSize(p)]
    /\ UNCHANGED <<pde, kstack, pgdir, cr3, panicked>>

-----------------------------------------------------------------------------
(* exec()                                                                  *)

Exec(p) ==
    /\ InUser(p) /\ Goto(p, "setup")
    /\ l' = [l EXCEPT ![p].op = "exec"]
    /\ UNCHANGED <<freelist, pde, pte, kstack, pgdir, sz, cr3, panicked>>

\* The next program header: l.new is the size so far.  allocuvm() refuses a
\* segment that reaches the kernel and returns 0 for an empty first one.
ExecSegment(p) == \E s \in Segments :
    LET new == s.vaddr + s.memsz  old == l[p].new IN
    /\ pc[p] = "segment" /\ l[p].n < MaxSegs
    /\ IF TooBig(new) \/ Max({old, new}) = 0
       THEN Goto(p, "freevm") /\ UNCHANGED l
       ELSE /\ Goto(p, "alloc")
            /\ l' = [l EXCEPT ![p].n = @ + 1, ![p].va = s.vaddr, ![p].old = old,
                              ![p].new = Max({old, new}), ![p].a = GrowFrom(old)]
    /\ UNCHANGED <<freelist, pde, pte, kstack, pgdir, sz, cr3, panicked>>

\* allocuvm() is done: the alignment check and loaduvm() of a segment, which
\* goes bad when the file is too short.  loaduvm() panics where a page table
\* is missing, and would load into frame 0 where only the entry is empty:
\* either counts as panicked.
ExecLoad(p) ==
    /\ pc[p] = "alloc" /\ l[p].op = "exec" /\ l[p].a >= l[p].new
    /\ IF l[p].va % PGSIZE # 0
       THEN Goto(p, "freevm") /\ UNCHANGED panicked
       ELSE IF \E a \in Pages : l[p].va <= a /\ a < l[p].new /\ a \notin Mapped(l[p].d)
       THEN panicked' = TRUE /\ UNCHANGED pc
       ELSE UNCHANGED panicked /\ \E label \in {"segment", "freevm"} : Goto(p, label)
    /\ UNCHANGED <<freelist, pde, pte, kstack, pgdir, sz, cr3, l>>

\* A header that cannot be read or is inconsistent.
ExecBad(p) ==
    /\ pc[p] = "segment" /\ Goto(p, "freevm")
    /\ UNCHANGED <<freelist, pde, pte, kstack, pgdir, sz, cr3, l, panicked>>

\* The two pages of the stack, from the next page boundary.
ExecStack(p) ==
    LET old == PGROUNDUP(l[p].new)  new == old + 2 * PGSIZE IN
    /\ pc[p] = "segment"
    /\ IF TooBig(new)
       THEN Goto(p, "freevm") /\ UNCHANGED l
       ELSE /\ Goto(p, "alloc")
            /\ l' = [l EXCEPT ![p].op = "stack", ![p].old = old, ![p].new = new,
                              ![p].a = old]
    /\ UNCHANGED <<freelist, pde, pte, kstack, pgdir, sz, cr3, panicked>>

\* clearpteu() on the first of them, and the arguments: copyout() fails when
\* they do not fit above the guard page.
ExecArgs(p) ==
    LET guard == l[p].new - 2 * PGSIZE IN
    /\ pc[p] = "alloc" /\ l[p].op = "stack" /\ l[p].a >= l[p].new
    /\ pte' = [pte EXCEPT ![walkpgdir(l[p].d, guard)][PTX(guard)].u = FALSE]
    /\ \E label \in {"commit", "freevm"} : Goto(p, label)
    /\ UNCHANGED <<freelist, pde, kstack, pgdir, sz, cr3, l, panicked>>

\* Commit to the user image: the CPU has the new directory before the old
\* one is freed.
ExecCommit(p) ==
    /\ pc[p] = "commit"
    /\ pgdir' = [pgdir EXCEPT ![p] = l[p].d]
    /\ switchuvm(p, l[p].d)
    /\ sz' = [sz EXCEPT ![p] = l[p].new]
    /\ l' = [l EXCEPT ![p] = [NoLocals EXCEPT !.op = "exec", !.d = pgdir[p]]]
    /\ Goto(p, "freevm")
    /\ UNCHANGED <<freelist, pde, pte, kstack, panicked>>

-----------------------------------------------------------------------------
Step(p) ==
    \/ setupkvm(p) \/ kmap(p) \/ allocuvm(p) \/ copyuvm(p) \/ mappages(p)
    \/ undo(p) \/ freevm(p) \/ ForkFails(p) \/ ForkDone(p) \/ Grown(p) \/ Shrunk(p)
    \/ ExecSegment(p) \/ ExecLoad(p) \/ ExecBad(p) \/ ExecStack(p) \/ ExecArgs(p)
    \/ ExecCommit(p) \/ Exit(p)

Call(p) == Fork(p) \/ Wait(p) \/ Grow(p) \/ Shrink(p) \/ Exec(p)

Next == ~panicked /\ UNCHANGED phystop /\ \E p \in Proc :
    \/ Step(p) /\ UNCHANGED calls
    \/ calls < MaxCalls /\ Call(p) /\ calls' = calls + 1

Spec == Init /\ [][Next]_vars

-----------------------------------------------------------------------------
Labels == {"unused", "embryo", "user", "zombie", "setup", "kmap", "copy", "alloc",
           "map", "undo", "freevm", "forkfails", "shrink", "segment", "commit"}

TypeOK ==
    /\ phystop \in Memories /\ freelist \subseteq Frame
    /\ pde \in [Frame -> [Pde -> Frame \cup {0}]]
    /\ pte \in [Frame -> [0 .. NPTE - 1 -> [pa : Frame \cup {0}, u : BOOLEAN]]]
    /\ {kstack, pgdir, cr3} \subseteq [Proc -> Frame \cup {0}]
    /\ sz \in [Proc -> 0 .. KERNBASE - 1]
    /\ pc \in [Proc -> Labels]
    /\ \A p \in Proc :
          /\ l[p].op \in {"none", "fork", "exec", "stack", "sbrk", "wait"}
          /\ l[p].new < KERNBASE /\ l[p].c \in Proc /\ l[p].n <= MaxSegs
          /\ pc[p] = "map" <=> (l[p].mem # 0 /\ pc[p] # "undo")
    /\ panicked \in BOOLEAN /\ calls \in 0 .. MaxCalls

\* Every place that holds a frame, and the frame: kernel stacks, the
\* directories of live processes and those being built or dropped, the
\* entries of directories and tables, pages in hand.
Holds ==
    LET own == {p \in Proc : pc[p] \notin {"unused", "embryo"}}
        new == {p \in Proc : l[p].op \in {"fork", "exec", "stack"} /\ pc[p] # "forkfails"}
        all == {<<"kstack", p, 0, kstack[p]>> : p \in Proc}
               \cup {<<"pgdir", p, 0, pgdir[p]>> : p \in own}
               \cup {<<"d", p, 0, l[p].d>> : p \in new}
               \cup {<<"mem", p, 0, l[p].mem>> : p \in Proc}
               \cup {<<"pde", d, i, pde[d][i]>> : d \in Frame, i \in Pde}
               \cup {<<"pte", t, j, pte[t][j].pa>> : t \in Frame, j \in 0 .. NPTE - 1}
    IN {h \in all : h[4] # 0}

(* No frame is leaked, mapped twice or free while in use, whichever        *)
(* kalloc() failed on the way and whatever the other CPUs freed meanwhile: *)
(* a frame is on the free list or exactly one place holds it (the error    *)
(* paths of setupkvm(), copyuvm(), allocuvm(), fork() and exec()).         *)
FramesHeldOnce ==
    /\ {h[4] : h \in Holds} = (1 .. phystop) \ freelist
    /\ Cardinality(Holds) = Cardinality((1 .. phystop) \ freelist)

(* No panic: mappages() never meets a present entry ("remap"), fork()      *)
(* finds every page below sz (copyuvm()'s two panics), and loaduvm() every *)
(* page of the segment.                                                    *)
NoPanic == ~panicked

(* A process whose text is mapped has exactly the pages below its size,    *)
(* after any mix of sbrk(), exec() and fork() with sizes that are not page *)
(* multiples: what copyuvm() and the range checks of system call arguments *)
(* rely on.                                                                *)
SizeMapped ==
    \A p \in Proc : InUser(p) => Mapped(pgdir[p]) = {a \in Pages : a < sz[p]}

(* The directory in a CPU's cr3 is the running process's own and is never  *)
(* on the free list: exec() loads the new one before it frees the old.     *)
RunsOnLiveDirectory ==
    \A p \in Proc : pc[p] \notin {"unused", "embryo", "zombie"} =>
        cr3[p] = pgdir[p] /\ cr3[p] \notin freelist

(* While a process keeps its directory, only its own shrinking sbrk()      *)
(* changes the entry of a page below its size: a fork(), exec() or growth  *)
(* that fails half way leaves the caller's memory as it was.               *)
ImageKept ==
    [][\A p \in Proc :
          pc[p] \notin {"unused", "embryo", "zombie", "shrink"} /\ pgdir'[p] = pgdir[p] =>
             \A a \in {b \in Pages : b < sz[p]} : Pte(pgdir[p], a)' = Pte(pgdir[p], a)]_vars

(* A child starts with its parent's size and pages, each with the parent's *)
(* permission (the guard page stays inaccessible) and a frame of its own.  *)
ForkCopies ==
    [][\A c \in Proc : pc[c] = "embryo" /\ pc'[c] = "user" =>
          \E p \in Proc \ {c} :
             /\ sz'[c] = sz[p] /\ Mapped(pgdir[c])' = Mapped(pgdir[p])
             /\ \A a \in Mapped(pgdir[p]) :
                   /\ Pte(pgdir[c], a).u' = Pte(pgdir[p], a).u
                   /\ Pte(pgdir[c], a).pa' # Pte(pgdir[p], a).pa]_vars

\* Memory changes only as its process asks, and a child starts with a copy
\* (growproc(), exec(), fork()).
ImagesKept ==
    ImageKept /\ ForkCopies

\* Frames, page tables, sizes and cr3 agree with each other, on the error paths
\* too, and no panic of vm.c is reached.
MemorySound ==
    TypeOK /\ FramesHeldOnce /\ SizeMapped /\ RunsOnLiveDirectory /\ NoPanic

=============================================================================
