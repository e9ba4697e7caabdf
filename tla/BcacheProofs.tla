---------------------------- MODULE BcacheProofs ----------------------------
(***************************************************************************)
(* The buffer cache with any number of buffers, blocks and processes:      *)
(* every block has one buffer at most, whoever holds a buffer sees what    *)
(* the last holder wrote, and bget() panics only when every buffer is      *)
(* pinned or in use.                                                       *)
(***************************************************************************)
EXTENDS Bcache, FiniteSetTheorems, TLAPS

Users(b) == {p \in Proc : cur[p] = b}
Holding  == {"rw", "sleep", "woken", "held"}

(* refcnt counts the processes that work on a buffer.                      *)
Refs ==
  /\ \A b \in Buf : refcnt[b] = Cardinality(Users(b))
  /\ \A b \in Buf : refcnt[b] = 0 <=> Users(b) = {}
  /\ \A p \in Proc : cur[p] = None <=> pc[p] \in {"idle", "panic"}

(* The sleep-lock belongs to the one process past acquiresleep().          *)
Owned ==
  \A b \in Buf, p \in Proc : owner[b] = p <=> cur[p] = b /\ pc[p] \in Holding

(* A block is in one buffer, and a buffer in use has a block.              *)
Unique ==
  /\ \A b, c \in Buf : blockno[b] = blockno[c] /\ blockno[b] # None => b = c
  /\ \A p \in Proc : cur[p] # None => blockno[cur[p]] # None

(* A valid buffer and, unless a buffer is dirty, the disk hold what was    *)
(* written last.                                                           *)
Contents ==
  /\ \A b \in Buf :
       /\ valid[b] => blockno[b] # None
       /\ valid[b] /\ blockno[b] \notin BadBlock => data[b] = mem[blockno[b]]
       /\ dirty[b] => valid[b] /\ data[b] = mem[blockno[b]]
  /\ \A k \in Block : (\A b \in Buf : blockno[b] = k => ~dirty[b]) => disk[k] = mem[k]

(* A request is queued once, it is not done, and its owner waits for it.   *)
Queued ==
  /\ IsInjective(idequeue)
  /\ \A b \in Range(idequeue) :
       ~Done(b) /\ owner[b] \in Proc /\ pc[owner[b]] \in {"sleep", "woken"}

(* A process that holds a buffer has it valid, and one that calls iderw()  *)
(* has something to read or to write.                                      *)
Steps ==
  \A p \in Proc : /\ pc[p] = "held" => valid[cur[p]]
                  /\ pc[p] = "rw" => ~Done(cur[p])

Core == Owned /\ Unique /\ Contents /\ Queued /\ Steps /\ PanicOnlyWhenFull
IInv == TypeOK /\ Refs /\ Core

PCs == {"idle", "lock", "rw", "sleep", "woken", "held", "put", "panic"}

-----------------------------------------------------------------------------
(* The queue.                                                              *)

(* iderw() appends a buffer that is not queued.                            *)
LEMMA Appended ==
  ASSUME NEW S, NEW q \in Seq(S), NEW x \in S, IsInjective(q), x \notin Range(q)
  PROVE  /\ Append(q, x) \in Seq(S) /\ IsInjective(Append(q, x))
         /\ Range(Append(q, x)) = Range(q) \cup {x}
<1>1. Append(q, x) \in Seq(S) OBVIOUS
<1>2. /\ Len(Append(q, x)) = Len(q) + 1 /\ DOMAIN q = 1 .. Len(q)
      /\ DOMAIN Append(q, x) = 1 .. Len(q) + 1 /\ Len(q) \in Nat
      /\ \A i \in 1 .. Len(q) : Append(q, x)[i] = q[i]
      /\ Append(q, x)[Len(q) + 1] = x
  OBVIOUS
<1>3. IsInjective(Append(q, x)) BY <1>2 DEF IsInjective, Range
<1>4. Range(Append(q, x)) = Range(q) \cup {x}
  <2>1. \A y \in Range(Append(q, x)) : y \in Range(q) \cup {x} BY <1>2 DEF Range
  <2>2. \A y \in Range(q) : y \in Range(Append(q, x)) BY <1>2 DEF Range
  <2>3. x \in Range(Append(q, x)) BY <1>2 DEF Range
  <2> QED BY <2>1, <2>2, <2>3
<1> QED BY <1>1, <1>3, <1>4, ZenonT(30)

(* ideintr() takes the first request off the queue.                        *)
LEMMA Dequeued ==
  ASSUME NEW S, NEW q \in Seq(S), q # <<>>, IsInjective(q)
  PROVE  /\ Head(q) \in Range(q) /\ Head(q) \in S
         /\ Tail(q) \in Seq(S) /\ IsInjective(Tail(q))
         /\ \A x \in Range(Tail(q)) : x \in Range(q) /\ x # Head(q)
<1>1. Tail(q) \in Seq(S) /\ Head(q) = q[1] /\ Len(q) \in Nat \ {0} OBVIOUS
<1>2. /\ DOMAIN q = 1 .. Len(q) /\ DOMAIN Tail(q) = 1 .. Len(q) - 1
      /\ \A i \in 1 .. Len(q) - 1 : Tail(q)[i] = q[i + 1]
  OBVIOUS
<1>3. Head(q) \in Range(q) /\ Head(q) \in S BY <1>1, <1>2 DEF Range
<1>4. IsInjective(Tail(q)) BY <1>1, <1>2 DEF IsInjective
<1>5. \A x \in Range(Tail(q)) : x \in Range(q) /\ x # Head(q)
  BY <1>1, <1>2 DEF Range, IsInjective
<1> QED BY <1>1, <1>3, <1>4, <1>5

(* Whoever is not idle works on a buffer.                                  *)
LEMMA Works ==
  ASSUME IInv, NEW p \in Proc, pc[p] \notin {"idle", "panic"}
  PROVE  cur[p] \in Buf /\ blockno[cur[p]] \in Block
BY BcacheAssumption DEF IInv, Core, TypeOK, Refs, Unique

(* None is not a buffer, a block or a process.                             *)
LEMMA NoneIsNothing == None \notin Buf /\ None \notin Block /\ None \notin Proc
<1>1. Buf \subseteq Nat BY BcacheAssumption DEF Buf
<1> QED BY <1>1, BcacheAssumption, Zenon

-----------------------------------------------------------------------------
(* What one step does to a buffer and its holder.                          *)

(* bget(): a hit takes one more reference.                                 *)
LEMMA HitCore ==
  ASSUME IInv, NEW p \in Proc, NEW k \in Block, bgetHit(p, k)
  PROVE  Core'
<1> USE NoneIsNothing
<1>. PICK b \in Cached(k) :
       refcnt' = [refcnt EXCEPT ![b] = @ + 1] /\ cur' = [cur EXCEPT ![p] = b]
  BY ZenonT(30) DEF bgetHit
<1>1. b \in Buf /\ blockno[b] = k /\ k # None BY ZenonT(30) DEF Cached
<1>2. /\ pc[p] = "idle" /\ pc' = [pc EXCEPT ![p] = "lock"]
      /\ UNCHANGED <<blockno, valid, dirty, owner, data, lru, idequeue, disk, mem>>
  BY ZenonT(30) DEF bgetHit, Goto
<1>3. pc \in [Proc -> PCs] /\ cur \in [Proc -> Buf \cup {None}] /\ cur[p] = None
  BY <1>2, ZenonT(30) DEF IInv, TypeOK, Refs, PCs
<1>4. Owned' BY <1>1, <1>2, <1>3 DEF IInv, Core, Owned, Holding
<1>5. Unique' BY <1>1, <1>2, <1>3, ZenonT(30) DEF IInv, Core, Unique
<1>6. Contents' BY <1>2, ZenonT(30) DEF IInv, Core, Contents
<1>7. Queued' BY <1>2, <1>3, ZenonT(30) DEF IInv, Core, Queued, Done
<1>8. Steps' BY <1>2, <1>3, ZenonT(30) DEF IInv, Core, Steps, Done
<1>9. Running' BY <1>2, <1>3, ZenonT(30) DEF bgetHit, Running
<1> QED BY <1>4, <1>5, <1>6, <1>7, <1>8, <1>9 DEF Core, PanicOnlyWhenFull

(* bget(): the recycled buffer is in nobody's hands and not dirty, and its *)
(* new block is in no other buffer.                                        *)
LEMMA RecycleCore ==
  ASSUME IInv, NEW p \in Proc, NEW k \in Block, bgetRecycle(p, k)
  PROVE  Core'
<1> USE NoneIsNothing
<1>. PICK b \in Buf : /\ Victim(b) /\ blockno' = [blockno EXCEPT ![b] = k]
                      /\ valid' = [valid EXCEPT ![b] = FALSE]
                      /\ cur' = [cur EXCEPT ![p] = b]
  BY ZenonT(30) DEF bgetRecycle
<1>1. Users(b) = {} /\ ~dirty[b] BY DEF IInv, Refs, Victim, Reusable
<1>2. /\ pc[p] = "idle" /\ pc' = [pc EXCEPT ![p] = "lock"] /\ k # None
      /\ UNCHANGED <<dirty, owner, data, lru, idequeue, disk, mem>>
      /\ \A c \in Buf : blockno[c] # k
  BY ZenonT(30) DEF bgetRecycle, Goto, Cached
<1>3. /\ pc \in [Proc -> PCs] /\ cur \in [Proc -> Buf \cup {None}] /\ cur[p] = None
      /\ blockno \in [Buf -> Block \cup {None}] /\ valid \in [Buf -> BOOLEAN]
      /\ owner \in [Buf -> Proc \cup {None}] /\ idequeue \in Seq(Buf)
  BY <1>2, ZenonT(30) DEF IInv, TypeOK, Refs, PCs
<1>4. \A q \in Proc : cur[q] # b BY <1>1 DEF Users
<1>5. owner[b] \notin Proc BY <1>4, ZenonT(30) DEF IInv, Core, Owned
<1>6. Owned' BY <1>2, <1>3, <1>4 DEF IInv, Core, Owned, Holding
<1>7. Unique'
  <2>1. \A c, d \in Buf : blockno'[c] = blockno'[d] /\ blockno'[c] # None => c = d
    BY <1>2, <1>3, ZenonT(30) DEF IInv, Core, Unique
  <2>2. \A q \in Proc : cur'[q] # None => blockno'[cur'[q]] # None
    BY <1>2, <1>3, <1>4, ZenonT(30) DEF IInv, Core, Unique
  <2> QED BY <2>1, <2>2 DEF Unique
<1>8. Contents'
  <2>1. \A c \in Buf :
          /\ valid'[c] => blockno'[c] # None
          /\ valid'[c] /\ blockno'[c] \notin BadBlock => data'[c] = mem'[blockno'[c]]
          /\ dirty'[c] => valid'[c] /\ data'[c] = mem'[blockno'[c]]
    BY <1>1, <1>2, <1>3, ZenonT(30) DEF IInv, Core, Contents
  <2>2. ASSUME NEW l \in Block, \A c \in Buf : blockno'[c] = l => ~dirty'[c]
        PROVE  disk'[l] = mem'[l]
    <3>1. \A c \in Buf : blockno[c] = l => ~dirty[c] BY <1>1, <1>2, <1>3, <2>2, ZenonT(30)
    <3> QED BY <1>2, <3>1 DEF IInv, Core, Contents
  <2> QED BY <2>1, <2>2 DEF Contents
<1>9. Queued'
  <2>1. \A c \in Range(idequeue) : c # b /\ c \in Buf BY <1>3, <1>5 DEF IInv, Core, Queued, Range
  <2>2. \A c \in Range(idequeue) : ~Done(c)' BY <1>2, <1>3, <2>1, ZenonT(30) DEF IInv, Core, Queued, Done
  <2>3. \A c \in Range(idequeue) : owner[c] \in Proc /\ pc[owner[c]] \in {"sleep", "woken"}
    BY DEF IInv, Core, Queued
  <2>4. \A c \in Range(idequeue) : pc'[owner[c]] \in {"sleep", "woken"} BY <1>2, <1>3, <2>3, ZenonT(30)
  <2> QED BY <1>2, <2>2, <2>3, <2>4, ZenonT(30) DEF IInv, Core, Queued
<1>10. Steps'
  <2>1. ASSUME NEW q \in Proc, q # p
        PROVE  cur'[q] = cur[q] /\ pc'[q] = pc[q] /\ cur[q] # b
    BY <1>2, <1>3, <1>4, <2>1, ZenonT(30)
  <2>2. ASSUME NEW q \in Proc, q # p, pc[q] \in {"held", "rw"} PROVE cur[q] \in Buf
    BY <1>3, <2>2, ZenonT(30) DEF IInv, Refs
  <2> QED BY <1>2, <1>3, <2>1, <2>2, ZenonT(30) DEF IInv, Core, Steps, Done
<1>11. Running' BY <1>2, <1>3, ZenonT(30) DEF bgetRecycle, Running
<1> QED BY <1>6, <1>7, <1>8, <1>9, <1>10, <1>11 DEF Core, PanicOnlyWhenFull

(* bget() panics when no buffer is reusable.                               *)
LEMMA PanicCore ==
  ASSUME IInv, NEW p \in Proc, NEW k \in Block, bgetPanic(p, k)
  PROVE  Core'
<1>1. /\ pc[p] = "idle" /\ pc' = [pc EXCEPT ![p] = "panic"]
      /\ UNCHANGED <<blockno, refcnt, valid, dirty, owner, data, lru, idequeue, disk, cur, mem>>
      /\ \A b \in Buf : ~Reusable(b)
  BY DEF bgetPanic, Goto, bufs
<1>2. pc \in [Proc -> PCs] BY ZenonT(30) DEF IInv, TypeOK, PCs
<1>3. Owned' BY <1>1, <1>2, ZenonT(30) DEF IInv, Core, Owned, Holding
<1>4. Unique' BY <1>1, ZenonT(30) DEF IInv, Core, Unique
<1>5. Contents' BY <1>1, ZenonT(30) DEF IInv, Core, Contents
<1>6. Queued' BY <1>1, <1>2, ZenonT(30) DEF IInv, Core, Queued, Done
<1>7. Steps' BY <1>1, <1>2, ZenonT(30) DEF IInv, Core, Steps, Done
<1>8. PanicOnlyWhenFull'
  <2>1. ASSUME NEW b \in Buf, ~dirty[b] PROVE \E q \in Proc : cur[q] = b
    <3>1. refcnt[b] # 0 BY <1>1, <2>1 DEF Reusable
    <3>2. Users(b) # {} BY <3>1 DEF IInv, Refs
    <3> QED BY <3>2 DEF Users
  <2> QED BY <1>1, <2>1 DEF PanicOnlyWhenFull
<1> QED BY <1>3, <1>4, <1>5, <1>6, <1>7, <1>8 DEF Core

(* bread() takes the sleep-lock, and reads the block if it is not valid.   *)
LEMMA BreadCore ==
  ASSUME IInv, NEW p \in Proc, bread(p)
  PROVE  Core'
<1> USE NoneIsNothing
<1>. DEFINE b == cur[p]
<1>1. /\ pc[p] = "lock" /\ owner[b] = None /\ owner' = [owner EXCEPT ![b] = p]
      /\ pc' = [pc EXCEPT ![p] = IF valid[b] THEN "held" ELSE "rw"]
      /\ UNCHANGED <<blockno, refcnt, valid, dirty, data, lru, idequeue, disk, cur, mem>>
  BY ZenonT(30) DEF bread, Goto
<1>2. b \in Buf BY <1>1, Works, ZenonT(30)
<1>3. pc \in [Proc -> PCs] /\ owner \in [Buf -> Proc \cup {None}] BY ZenonT(30) DEF IInv, TypeOK, PCs
<1>4. Owned' BY <1>1, <1>2, <1>3 DEF IInv, Core, Owned, Holding
<1>5. Unique' BY <1>1, ZenonT(30) DEF IInv, Core, Unique
<1>6. Contents' BY <1>1, ZenonT(30) DEF IInv, Core, Contents
<1>7. Queued'
  <2>1. \A c \in Range(idequeue) :
          ~Done(c) /\ owner[c] \in Proc /\ pc[owner[c]] \in {"sleep", "woken"}
    BY DEF IInv, Core, Queued
  <2>2. \A c \in Range(idequeue) : c # b BY <1>1, <2>1
  <2>3. \A c \in Range(idequeue) : owner'[c] = owner[c] BY <1>1, <1>3, <2>2
  <2>4. \A c \in Range(idequeue) : pc'[owner[c]] = pc[owner[c]] BY <1>1, <1>3, <2>1
  <2> QED BY <1>1, <2>1, <2>3, <2>4 DEF IInv, Core, Queued, Done
<1>8. Steps' BY <1>1, <1>3, ZenonT(30) DEF IInv, Core, Steps, Done
<1>9. Running' BY <1>1, <1>3, ZenonT(30) DEF bread, Running
<1> QED BY <1>4, <1>5, <1>6, <1>7, <1>8, <1>9 DEF Core, PanicOnlyWhenFull

(* The holder changes the block, and stays or goes on to write it: the     *)
(* buffer is dirty, valid, and holds what was written last.                *)
LEMMA ChangeCore ==
  ASSUME IInv, NEW p \in Proc, NEW v \in Data, Change(p, v), NEW l \in {"rw", "held"},
         pc' = [pc EXCEPT ![p] = l],
         UNCHANGED <<blockno, valid, owner, idequeue, disk, cur>>
  PROVE  Core'
<1> USE NoneIsNothing
<1>. DEFINE b == cur[p]
<1>1. /\ pc[p] = "held" /\ data' = [data EXCEPT ![b] = v]
      /\ mem' = [mem EXCEPT ![blockno[b]] = v] /\ dirty' = [dirty EXCEPT ![b] = TRUE]
  BY DEF Change
<1>2. b \in Buf /\ blockno[b] \in Block BY <1>1, Works, ZenonT(30)
<1>3. /\ pc \in [Proc -> PCs] /\ data \in [Buf -> Data] /\ mem \in [Block -> Data]
      /\ dirty \in [Buf -> BOOLEAN] /\ blockno \in [Buf -> Block \cup {None}]
  BY DEF IInv, TypeOK, PCs
<1>4. valid[b] BY <1>1 DEF IInv, Core, Steps
<1>5. Owned' BY <1>1, <1>3 DEF IInv, Core, Owned, Holding
<1>6. Unique' BY ZenonT(30) DEF IInv, Core, Unique
<1>7. Contents'
  <2>1. data'[b] = v /\ mem'[blockno[b]] = v BY <1>1, <1>2, <1>3, ZenonT(30)
  <2>2. ASSUME NEW c \in Buf, c # b, valid[c]
        PROVE  mem'[blockno[c]] = mem[blockno[c]] /\ data'[c] = data[c]
    BY <1>1, <1>2, <1>3, <2>2 DEF IInv, Core, Unique, Contents
  <2>3. \A c \in Buf :
          /\ valid'[c] => blockno'[c] # None
          /\ valid'[c] /\ blockno'[c] \notin BadBlock => data'[c] = mem'[blockno'[c]]
          /\ dirty'[c] => valid'[c] /\ data'[c] = mem'[blockno'[c]]
    BY <1>1, <1>2, <1>3, <1>4, <2>1, <2>2, ZenonT(30) DEF IInv, Core, Contents
  <2>4. ASSUME NEW k \in Block, \A c \in Buf : blockno'[c] = k => ~dirty'[c]
        PROVE  disk'[k] = mem'[k]
    <3>1. k # blockno[b] BY <1>1, <1>2, <1>3, <2>4, ZenonT(30)
    <3>2. \A c \in Buf : blockno[c] = k => ~dirty[c] BY <1>1, <1>3, <2>4, ZenonT(30)
    <3> QED BY <1>1, <1>3, <3>1, <3>2, ZenonT(30) DEF IInv, Core, Contents
  <2> QED BY <2>3, <2>4 DEF Contents
<1>8. Queued'
  <2>1. \A c \in Range(idequeue) :
          ~Done(c) /\ owner[c] \in Proc /\ pc[owner[c]] \in {"sleep", "woken"}
    BY ZenonT(30) DEF IInv, Core, Queued
  <2>2. \A c \in Range(idequeue) : pc'[owner[c]] = pc[owner[c]] BY <1>1, <1>3, <2>1
  <2>3. \A c \in Range(idequeue) : ~Done(c)' BY <1>1, <1>2, <1>3, <2>1 DEF Done
  <2> QED BY <2>1, <2>2, <2>3, ZenonT(30) DEF IInv, Core, Queued
<1>9. Steps'
  <2>1. ~Done(b)' BY <1>1, <1>2, <1>3, ZenonT(30) DEF Done
  <2>2. ASSUME NEW q \in Proc, pc[q] = "rw" PROVE ~Done(cur[q])'
    <3>1. cur[q] \in Buf BY <2>2, Works
    <3> QED BY <1>1, <1>2, <1>3, <2>2, <3>1, ZenonT(30) DEF IInv, Core, Steps, Done
  <2>3. \A q \in Proc : pc'[q] = IF q = p THEN l ELSE pc[q] BY <1>3, ZenonT(30)
  <2> QED BY <1>4, <2>1, <2>2, <2>3, ZenonT(30) DEF IInv, Core, Steps
<1>10. Running' BY <1>3, ZenonT(30) DEF Change, Running
<1> QED BY <1>5, <1>6, <1>7, <1>8, <1>9, <1>10 DEF Core, PanicOnlyWhenFull

(* brelse() gives the lock back.                                           *)
LEMMA BrelseCore ==
  ASSUME IInv, NEW p \in Proc, brelse(p)
  PROVE  Core'
<1> USE NoneIsNothing
<1>. DEFINE b == cur[p]
<1>1. /\ pc[p] = "held" /\ owner' = [owner EXCEPT ![b] = None]
      /\ pc' = [pc EXCEPT ![p] = "put"]
      /\ UNCHANGED <<blockno, refcnt, valid, dirty, data, lru, idequeue, disk, cur, mem>>
  BY ZenonT(30) DEF brelse, Goto
<1>2. b \in Buf BY <1>1, Works
<1>3. pc \in [Proc -> PCs] /\ owner \in [Buf -> Proc \cup {None}] BY DEF IInv, TypeOK, PCs
<1>4. owner[b] = p BY <1>1, <1>2, ZenonT(30) DEF IInv, Core, Owned, Holding
<1>5. Owned' BY <1>1, <1>2, <1>3, <1>4 DEF IInv, Core, Owned, Holding
<1>6. Unique' BY <1>1, ZenonT(30) DEF IInv, Core, Unique
<1>7. Contents' BY <1>1, ZenonT(30) DEF IInv, Core, Contents
<1>8. Queued'
  <2>1. \A c \in Range(idequeue) :
          ~Done(c) /\ owner[c] \in Proc /\ pc[owner[c]] \in {"sleep", "woken"}
    BY DEF IInv, Core, Queued
  <2>2. \A c \in Range(idequeue) : owner'[c] = owner[c] BY <1>1, <1>3, <1>4, <2>1
  <2>3. \A c \in Range(idequeue) : pc'[owner[c]] = pc[owner[c]] BY <1>1, <1>3, <2>1, ZenonT(30)
  <2> QED BY <1>1, <2>1, <2>2, <2>3 DEF IInv, Core, Queued, Done
<1>9. Steps' BY <1>1, <1>3, ZenonT(30) DEF IInv, Core, Steps, Done
<1>10. Running' BY <1>1, <1>3 DEF brelse, Running
<1> QED BY <1>5, <1>6, <1>7, <1>8, <1>9, <1>10 DEF Core, PanicOnlyWhenFull

(* brelse() then drops its reference.                                      *)
LEMMA BrelseRefCore ==
  ASSUME IInv, NEW p \in Proc, brelseRef(p)
  PROVE  Core'
<1> USE NoneIsNothing
<1>1. /\ pc[p] = "put" /\ cur' = [cur EXCEPT ![p] = None]
      /\ pc' = [pc EXCEPT ![p] = "idle"]
      /\ UNCHANGED <<blockno, valid, dirty, owner, data, idequeue, disk, mem>>
  BY ZenonT(30) DEF brelseRef, Goto
<1>2. pc \in [Proc -> PCs] /\ cur \in [Proc -> Buf \cup {None}] BY ZenonT(30) DEF IInv, TypeOK, PCs
<1>3. Owned' BY <1>1, <1>2 DEF IInv, Core, Owned, Holding
<1>4. Unique' BY <1>1, <1>2, ZenonT(30) DEF IInv, Core, Unique
<1>5. Contents' BY <1>1, ZenonT(30) DEF IInv, Core, Contents
<1>6. Queued' BY <1>1, <1>2, ZenonT(30) DEF IInv, Core, Queued, Done
<1>7. Steps' BY <1>1, <1>2, ZenonT(30) DEF IInv, Core, Steps, Done
<1>8. Running' BY <1>1, <1>2, ZenonT(30) DEF brelseRef, Running
<1> QED BY <1>3, <1>4, <1>5, <1>6, <1>7, <1>8 DEF Core, PanicOnlyWhenFull

(* The checks of iderw() do not fail.                                      *)
LEMMA IderwChecks ==
  ASSUME IInv, NEW p \in Proc, pc[p] = "rw"
  PROVE  ~Panics(p) /\ cur[p] \in Buf /\ owner[cur[p]] = p /\ cur[p] \notin Range(idequeue)
<1>1. cur[p] \in Buf BY Works
<1>2. owner[cur[p]] = p BY <1>1, ZenonT(30) DEF IInv, Core, Owned, Holding
<1>3. ~Panics(p) BY <1>2 DEF Panics, IInv, Core, Steps, Done
<1>4. cur[p] \notin Range(idequeue) BY <1>2, ZenonT(30) DEF IInv, Core, Queued
<1> QED BY <1>1, <1>2, <1>3, <1>4

(* iderw() queues the buffer and sleeps.                                   *)
LEMMA IderwCore ==
  ASSUME IInv, NEW p \in Proc, iderw(p)
  PROVE  Core'
<1>. DEFINE b == cur[p]
<1>1. pc[p] = "rw" BY DEF iderw
<1>2. b \in Buf /\ owner[b] = p /\ b \notin Range(idequeue) /\ ~Panics(p)
  BY <1>1, IderwChecks
<1>3. /\ pc' = [pc EXCEPT ![p] = "sleep"] /\ idequeue' = Append(idequeue, b)
      /\ UNCHANGED <<blockno, refcnt, valid, dirty, owner, data, lru, disk, cur, mem>>
  BY <1>2, ZenonT(30) DEF iderw, Goto, bufs
<1>4. pc \in [Proc -> PCs] /\ idequeue \in Seq(Buf) BY ZenonT(30) DEF IInv, TypeOK, PCs
<1>5. Owned' BY <1>1, <1>3, <1>4 DEF IInv, Core, Owned, Holding
<1>6. Unique' BY <1>3 DEF IInv, Core, Unique
<1>7. Contents' BY <1>3, ZenonT(30) DEF IInv, Core, Contents
<1>8. Queued'
  <2>1. IsInjective(idequeue)' /\ Range(idequeue') = Range(idequeue) \cup {b}
    BY <1>2, <1>3, <1>4, Appended DEF IInv, Core, Queued
  <2>2. \A c \in Range(idequeue) :
          ~Done(c) /\ owner[c] \in Proc /\ pc[owner[c]] \in {"sleep", "woken"}
    BY DEF IInv, Core, Queued
  <2>3. ~Done(b) BY <1>1 DEF IInv, Core, Steps
  <2>4. \A c \in Range(idequeue') :
          ~Done(c) /\ owner[c] \in Proc /\ pc'[owner[c]] \in {"sleep", "woken"}
    BY <1>1, <1>2, <1>3, <1>4, <2>1, <2>2, <2>3, ZenonT(30)
  <2> QED BY <1>3, <2>1, <2>4, ZenonT(30) DEF Queued, Done
<1>9. Steps' BY <1>3, <1>4, ZenonT(30) DEF IInv, Core, Steps, Done
<1>10. Running' BY <1>3, <1>4 DEF iderw, Running
<1> QED BY <1>5, <1>6, <1>7, <1>8, <1>9, <1>10, ZenonT(30) DEF Core, PanicOnlyWhenFull

(* A process that waits for the disk wakes up, sleeps again, or, when its  *)
(* request is done and no longer queued, has the buffer.                   *)
LEMMA WaitCore ==
  ASSUME IInv, NEW p \in Proc, iderwWoken(p) \/ Kill(p)
  PROVE  Core'
<1>. PICK l \in {"sleep", "woken", "held"} :
       pc' = [pc EXCEPT ![p] = l] /\ (l = "held" => Done(cur[p]))
  BY ZenonT(30) DEF iderwWoken, Kill, Goto
<1>1. /\ pc[p] \in {"sleep", "woken"} /\ Running
      /\ UNCHANGED <<blockno, refcnt, valid, dirty, owner, data, lru, idequeue, disk, cur, mem>>
  BY ZenonT(30) DEF iderwWoken, Kill, bufs
<1>2. pc \in [Proc -> PCs] BY ZenonT(30) DEF IInv, TypeOK, PCs
<1>3. cur[p] \in Buf BY <1>1, Works, ZenonT(30)
<1>4. Owned' BY <1>1, <1>2 DEF IInv, Core, Owned, Holding
<1>5. Unique' BY <1>1, ZenonT(30) DEF IInv, Core, Unique
<1>6. Contents' BY <1>1, ZenonT(30) DEF IInv, Core, Contents
<1>7. Queued'
  <2>1. \A c \in Range(idequeue) :
          ~Done(c) /\ owner[c] \in Proc /\ pc[owner[c]] \in {"sleep", "woken"} /\ c \in Buf
    <3>1. idequeue \in Seq(Buf) BY DEF IInv, TypeOK
    <3> QED BY <3>1 DEF IInv, Core, Queued, Range
  <2>2. \A c \in Range(idequeue) : owner[c] = p => c = cur[p] BY <2>1, ZenonT(30) DEF IInv, Core, Owned
  <2>3. \A c \in Range(idequeue) : pc'[owner[c]] \in {"sleep", "woken"} BY <1>2, <2>1, <2>2, ZenonT(30)
  <2> QED BY <1>1, <2>1, <2>3, ZenonT(30) DEF IInv, Core, Queued, Done
<1>8. Steps'
  <2>1. \A q \in Proc : pc'[q] = IF q = p THEN l ELSE pc[q] BY <1>2
  <2>2. l = "held" => valid[cur[p]] BY DEF Done
  <2> QED BY <1>1, <2>1, <2>2, ZenonT(30) DEF IInv, Core, Steps, Done
<1>9. Running' BY <1>1, <1>2 DEF Running
<1> QED BY <1>4, <1>5, <1>6, <1>7, <1>8, <1>9 DEF Core, PanicOnlyWhenFull

(* The active request is for a block, and its buffer for the owner.        *)
LEMMA IntrBlock ==
  ASSUME IInv, idequeue # <<>>
  PROVE  /\ Head(idequeue) \in Buf /\ blockno[Head(idequeue)] \in Block
         /\ cur[owner[Head(idequeue)]] = Head(idequeue)
<1> USE NoneIsNothing
<1>. DEFINE b == Head(idequeue)
<1>1. b \in Range(idequeue) /\ b \in Buf BY Dequeued, ZenonT(30) DEF IInv, TypeOK, Core, Queued
<1>2. owner[b] \in Proc BY <1>1 DEF IInv, Core, Queued
<1>3. cur[owner[b]] = b BY <1>1, <1>2 DEF IInv, Core, Owned
<1>4. blockno[b] # None BY <1>1, <1>2, <1>3 DEF IInv, Core, Unique
<1>5. blockno \in [Buf -> Block \cup {None}] BY DEF IInv, TypeOK
<1> QED BY <1>1, <1>3, <1>4, <1>5

(* ideintr(): the buffer that was written is on the disk, the one that was *)
(* read holds what the disk has; nobody but its owner has anything to do   *)
(* with it.                                                                *)
LEMMA IntrCore ==
  ASSUME IInv, NEW failed \in BOOLEAN, ideintr(failed)
  PROVE  Core'
<1> USE NoneIsNothing
<1>. DEFINE b == Head(idequeue)
<1>1. /\ Running /\ idequeue # <<>> /\ (failed => ~dirty[b] /\ blockno[b] \in BadBlock)
      /\ disk' = IF dirty[b] THEN [disk EXCEPT ![blockno[b]] = data[b]] ELSE disk
      /\ data' = IF dirty[b] \/ failed THEN data ELSE [data EXCEPT ![b] = disk[blockno[b]]]
      /\ valid' = [valid EXCEPT ![b] = TRUE] /\ dirty' = [dirty EXCEPT ![b] = FALSE]
      /\ pc' = wakeup(b) /\ idequeue' = Tail(idequeue)
      /\ UNCHANGED <<blockno, refcnt, owner, lru, cur, mem>>
  BY ZenonT(30) DEF ideintr, Dequeue
<1>2. /\ b \in Range(idequeue) /\ b \in Buf /\ IsInjective(Tail(idequeue))
      /\ \A c \in Range(Tail(idequeue)) : c \in Range(idequeue) /\ c # b
  BY <1>1, Dequeued, ZenonT(30) DEF IInv, TypeOK, Core, Queued
<1>3. /\ pc \in [Proc -> PCs] /\ data \in [Buf -> Data] /\ disk \in [Block -> Data]
      /\ dirty \in [Buf -> BOOLEAN] /\ valid \in [Buf -> BOOLEAN] /\ idequeue \in Seq(Buf)
      /\ blockno \in [Buf -> Block \cup {None}]
  BY ZenonT(30) DEF IInv, TypeOK, PCs
<1>4. owner[b] \in Proc /\ pc[owner[b]] \in {"sleep", "woken"} /\ ~Done(b)
  BY <1>2, ZenonT(30) DEF IInv, Core, Queued
<1>5. cur[owner[b]] = b /\ blockno[b] \in Block BY <1>1, IntrBlock, ZenonT(30)
<1>6. ASSUME NEW q \in Proc
      PROVE  pc'[q] = pc[q] \/ (pc[q] = "sleep" /\ pc'[q] = "woken")
  BY <1>1, ZenonT(30) DEF wakeup
<1>7. Owned' BY <1>1, <1>6 DEF IInv, Core, Owned, Holding
<1>8. Unique' BY <1>1, ZenonT(30) DEF IInv, Core, Unique
<1>9. Contents'
  <2>1. ASSUME ~dirty[b] PROVE disk[blockno[b]] = mem[blockno[b]]
    <3>1. \A c \in Buf : blockno[c] = blockno[b] => ~dirty[c]
      BY <1>2, <1>5, <2>1, ZenonT(30) DEF IInv, Core, Unique
    <3> QED BY <1>5, <3>1 DEF IInv, Core, Contents
  <2>2. blockno[b] \notin BadBlock \/ dirty[b] => data'[b] = mem[blockno[b]]
    BY <1>1, <1>2, <1>3, <2>1, ZenonT(30) DEF IInv, Core, Contents
  <2>3. \A c \in Buf : c # b => data'[c] = data[c] /\ valid'[c] = valid[c] /\ dirty'[c] = dirty[c]
    BY <1>1, <1>3, ZenonT(30)
  <2>4. valid'[b] /\ ~dirty'[b] BY <1>1, <1>2, <1>3, ZenonT(30)
  <2>5. ASSUME NEW c \in Buf
        PROVE  /\ valid'[c] => blockno'[c] # None
               /\ valid'[c] /\ blockno'[c] \notin BadBlock => data'[c] = mem'[blockno'[c]]
               /\ dirty'[c] => valid'[c] /\ data'[c] = mem'[blockno'[c]]
    <3>1. UNCHANGED <<blockno, mem>> BY <1>1, ZenonT(30)
    <3>2. CASE c = b
      <4>1. blockno[b] # None BY <1>5, NoneIsNothing, ZenonT(30)
      <4> QED BY <2>2, <2>4, <3>1, <3>2, <4>1, ZenonT(30)
    <3>3. CASE c # b
      <4>1. /\ valid[c] => blockno[c] # None
            /\ valid[c] /\ blockno[c] \notin BadBlock => data[c] = mem[blockno[c]]
            /\ dirty[c] => valid[c] /\ data[c] = mem[blockno[c]]
        BY ZenonT(30) DEF IInv, Core, Contents
      <4> QED BY <2>3, <3>1, <3>3, <4>1, ZenonT(30)
    <3> QED BY <3>2, <3>3
  <2>6. ASSUME NEW k \in Block, \A c \in Buf : blockno'[c] = k => ~dirty'[c]
        PROVE  disk'[k] = mem'[k]
    <3>1. CASE k = blockno[b] /\ dirty[b]
      BY <1>1, <1>2, <1>3, <3>1, ZenonT(30) DEF IInv, Core, Contents
    <3>2. CASE ~(k = blockno[b] /\ dirty[b])
      <4>1. \A c \in Buf : blockno[c] = k => ~dirty[c] BY <1>1, <2>3, <2>6, <3>2, ZenonT(30)
      <4> QED BY <1>1, <1>3, <3>2, <4>1, ZenonT(30) DEF IInv, Core, Contents
    <3> QED BY <3>1, <3>2
  <2> QED BY <2>5, <2>6 DEF Contents
<1>10. Queued'
  <2>1. \A c \in Range(idequeue) :
          ~Done(c) /\ owner[c] \in Proc /\ pc[owner[c]] \in {"sleep", "woken"} /\ c \in Buf
    BY <1>3 DEF IInv, Core, Queued, Range
  <2>2. \A c \in Range(Tail(idequeue)) : ~Done(c)' BY <1>1, <1>2, <1>3, <2>1, ZenonT(30) DEF Done
  <2>3. \A c \in Range(Tail(idequeue)) : owner[c] \in Proc /\ pc'[owner[c]] \in {"sleep", "woken"}
    BY <1>2, <1>6, <2>1, ZenonT(30)
  <2> QED BY <1>1, <1>2, <2>2, <2>3, ZenonT(30) DEF Queued
<1>11. Steps'
  <2>1. ASSUME NEW q \in Proc, pc'[q] \in {"held", "rw"} PROVE cur[q] # b /\ pc[q] = pc'[q]
    <3>1. pc[q] = pc'[q] BY <1>6, <2>1
    <3>2. q # owner[b] BY <1>4, <2>1, <3>1
    <3> QED BY <1>2, <2>1, <3>1, <3>2 DEF IInv, Core, Owned, Holding
  <2>2. ASSUME NEW q \in Proc, pc'[q] \in {"held", "rw"}
        PROVE  valid'[cur[q]] = valid[cur[q]] /\ dirty'[cur[q]] = dirty[cur[q]]
    <3>1. cur[q] \in Buf BY <2>1, <2>2, Works, ZenonT(30)
    <3> QED BY <1>1, <1>3, <2>1, <2>2, <3>1, ZenonT(30)
  <2> QED BY <1>1, <2>1, <2>2 DEF IInv, Core, Steps, Done
<1>12. Running' BY <1>1, <1>6 DEF Running
<1> QED BY <1>7, <1>8, <1>9, <1>10, <1>11, <1>12, ZenonT(30) DEF Core, PanicOnlyWhenFull

(* Every step preserves the facts about buffers and their holders.         *)
LEMMA NextCore == ASSUME IInv, Next PROVE Core'
<1>1. CASE \E p \in Proc : bread(p) BY <1>1, BreadCore
<1>2. CASE \E p \in Proc : brelseRef(p) BY <1>2, BrelseRefCore
<1>3. CASE \E p \in Proc : iderw(p) BY <1>3, IderwCore
<1>4. CASE \E p \in Proc : iderwWoken(p) \/ Kill(p) BY <1>4, WaitCore
<1>5. CASE \E p \in Proc : brelse(p) BY <1>5, BrelseCore
<1>6. CASE \E p \in Proc, k \in Block : bgetHit(p, k) BY <1>6, HitCore
<1>7. CASE \E p \in Proc, k \in Block : bgetRecycle(p, k) BY <1>7, RecycleCore
<1>8. CASE \E p \in Proc, k \in Block : bgetPanic(p, k) BY <1>8, PanicCore
<1>9. CASE \E p \in Proc, v \in Data : bwrite(p, v)
  BY <1>9, ChangeCore, ZenonT(30) DEF bwrite, Goto
<1>10. CASE \E p \in Proc, v \in Data : log_write(p, v)
  <2>. PICK p \in Proc, v \in Data : log_write(p, v) BY <1>10
  <2>1. pc' = [pc EXCEPT ![p] = "held"] BY DEF log_write, Change, IInv, TypeOK
  <2> QED BY <2>1, ChangeCore, ZenonT(30) DEF log_write
<1>11. CASE ideintr(TRUE) \/ ideintr(FALSE) BY <1>11, IntrCore, ZenonT(30)
<1> QED
  BY <1>1, <1>2, <1>3, <1>4, <1>5, <1>6, <1>7, <1>8, <1>9, <1>10, <1>11, ZenonT(60)
  DEF Next, InKernel

-----------------------------------------------------------------------------
(* Types.                                                                  *)

(* brelse() moves a buffer to the front of the list, and loses none.       *)
LEMMA MovedToFront ==
  ASSUME TypeOK, NEW b \in Buf
  PROVE  MoveToFront(b) \in [Buf -> Buf] /\ Range(MoveToFront(b)) = Buf
<1>. DEFINE i == CHOOSE k \in Buf : lru[k] = b
            m == [k \in Buf |-> IF k = 1 THEN b ELSE IF k <= i THEN lru[k - 1] ELSE lru[k]]
<1>1. lru \in [Buf -> Buf] /\ \A c \in Buf : \E k \in Buf : lru[k] = c
  BY ZenonT(30) DEF TypeOK, Range
<1>2. i \in Buf /\ lru[i] = b BY <1>1
<1>3. NBUF \in Nat /\ 1 \in Buf /\ \A k \in Buf : k \in 1 .. NBUF BY BcacheAssumption DEF Buf
<1>. HIDE DEF i
<1>4. m \in [Buf -> Buf]
  <2>1. ASSUME NEW k \in Buf, k # 1 PROVE k - 1 \in Buf BY <1>3, <2>1 DEF Buf
  <2> QED BY <1>1, <2>1, ZenonT(30)
<1>5. ASSUME NEW c \in Buf PROVE \E k \in Buf : m[k] = c
  <2>1. CASE c = b BY <1>3, <2>1
  <2>2. CASE c # b
    <3>. PICK j \in Buf : lru[j] = c BY <1>1
    <3>1. j # i BY <1>2, <2>2
    <3>2. CASE j < i
      <4>1. j + 1 \in Buf /\ m[j + 1] = c BY <1>2, <1>3, <3>2 DEF Buf
      <4> QED BY <4>1
    <3>3. CASE j > i
      <4>1. m[j] = c BY <1>2, <1>3, <3>3 DEF Buf
      <4> QED BY <4>1
    <3> QED BY <1>2, <1>3, <3>1, <3>2, <3>3 DEF Buf
  <2> QED BY <2>1, <2>2
<1>6. Range(m) = Buf BY <1>4, <1>5 DEF Range
<1> QED BY <1>4, <1>6 DEF MoveToFront, i

(* Every step preserves the types, if it preserves that of refcnt.         *)
LEMMA NextType ==
  ASSUME IInv, Next, refcnt' \in [Buf -> 0 .. Cardinality(Proc)]
  PROVE  TypeOK'
<1>. USE DEF TypeOK
<1>0. TypeOK BY ZenonT(30) DEF IInv
<1>1. ASSUME NEW p \in Proc, bread(p) PROVE TypeOK' BY <1>0, <1>1, ZenonT(30) DEF bread, Goto
<1>2. ASSUME NEW p \in Proc, brelseRef(p) PROVE TypeOK'
  <2>1. cur[p] \in Buf BY <1>2, Works DEF brelseRef
  <2>2. lru' \in [Buf -> Buf] /\ Range(lru') = Buf
    BY <1>0, <1>2, <2>1, MovedToFront DEF brelseRef
  <2> QED BY <1>0, <1>2, <2>2, ZenonT(30) DEF brelseRef, Goto
<1>3. ASSUME NEW p \in Proc, iderw(p) PROVE TypeOK'
  <2>1. cur[p] \in Buf BY <1>3, Works DEF iderw
  <2>2. idequeue' = idequeue \/ idequeue' = Append(idequeue, cur[p]) BY <1>3 DEF iderw
  <2>3. idequeue' \in Seq(Buf)
    <3>. HIDE DEF TypeOK
    <3>1. idequeue \in Seq(Buf) BY <1>0, ZenonT(30) DEF TypeOK
    <3>2. CASE idequeue' = idequeue BY <3>1, <3>2, ZenonT(30)
    <3>3. CASE idequeue' = Append(idequeue, cur[p]) BY <2>1, <3>1, <3>3
    <3> QED BY <2>2, <3>2, <3>3
  <2>4. pc' \in [Proc -> PCs] BY <1>0, <1>3, ZenonT(30) DEF iderw, Goto, PCs
  <2> QED BY <1>0, <1>3, <2>3, <2>4, ZenonT(30) DEF iderw, bufs, PCs
<1>4. ASSUME NEW p \in Proc, iderwWoken(p) \/ Kill(p) PROVE TypeOK'
  BY <1>0, <1>4, ZenonT(30) DEF iderwWoken, Kill, Goto, bufs
<1>5. ASSUME NEW p \in Proc, brelse(p) PROVE TypeOK' BY <1>0, <1>5, ZenonT(30) DEF brelse, Goto
<1>6. ASSUME NEW p \in Proc, NEW k \in Block, bgetHit(p, k) PROVE TypeOK'
  BY <1>0, <1>6 DEF bgetHit, Goto, Cached
<1>7. ASSUME NEW p \in Proc, NEW k \in Block, bgetRecycle(p, k) PROVE TypeOK'
  BY <1>0, <1>7 DEF bgetRecycle, Goto
<1>8. ASSUME NEW p \in Proc, NEW k \in Block, bgetPanic(p, k) PROVE TypeOK'
  BY <1>0, <1>8, ZenonT(30) DEF bgetPanic, Goto, bufs
<1>9. ASSUME NEW p \in Proc, NEW v \in Data, bwrite(p, v) \/ log_write(p, v) PROVE TypeOK'
  <2>1. Change(p, v) BY <1>9 DEF bwrite, log_write
  <2>2. data' \in [Buf -> Data] /\ dirty' \in [Buf -> BOOLEAN] /\ mem' \in [Block -> Data]
    BY <1>0, <2>1, ZenonT(30) DEF Change
  <2>3. pc' \in [Proc -> PCs] BY <1>0, <1>9, ZenonT(30) DEF bwrite, log_write, Goto, PCs
  <2> QED BY <1>0, <1>9, <2>2, <2>3, ZenonT(30) DEF bwrite, log_write, PCs
<1>10. ASSUME NEW failed \in BOOLEAN, ideintr(failed) PROVE TypeOK'
  <2>1. Head(idequeue) \in Buf /\ idequeue' \in Seq(Buf) BY <1>0, <1>10 DEF ideintr, Dequeue
  <2>2. data' \in [Buf -> Data]
    <3>1. CASE dirty[Head(idequeue)] \/ failed BY <1>0, <1>10, <3>1, ZenonT(30) DEF ideintr
    <3>2. CASE ~(dirty[Head(idequeue)] \/ failed)
      <4>1. blockno[Head(idequeue)] \in Block
        BY <1>0, <1>10, <2>1, IntrBlock DEF ideintr
      <4> QED BY <1>0, <1>10, <3>2, <4>1, ZenonT(30) DEF ideintr
    <3> QED BY <3>1, <3>2
  <2>3. disk' \in [Block -> Data] BY <1>0, <1>10, <2>1, ZenonT(30) DEF ideintr
  <2>4. pc' \in [Proc -> PCs] BY <1>0, <1>10, ZenonT(30) DEF ideintr, wakeup, PCs
  <2> QED BY <1>0, <1>10, <2>1, <2>2, <2>3, <2>4, ZenonT(30) DEF ideintr, PCs
<1> QED
  BY <1>1, <1>2, <1>3, <1>4, <1>5, <1>6, <1>7, <1>8, <1>9, <1>10, ZenonT(60)
  DEF Next, InKernel

-----------------------------------------------------------------------------
(* References.                                                             *)

(* A set of users is finite.                                               *)
LEMMA UsersFinite ==
  ASSUME NEW S \in SUBSET Proc
  PROVE  /\ IsFiniteSet(S) /\ Cardinality(S) \in 0 .. Cardinality(Proc)
         /\ (Cardinality(S) = 0 <=> S = {})
<1>1. IsFiniteSet(Proc) BY BcacheAssumption
<1>2. IsFiniteSet(S) /\ Cardinality(S) <= Cardinality(Proc) BY <1>1, FS_Subset, ZenonT(30)
<1>3. Cardinality(S) \in Nat /\ Cardinality(Proc) \in Nat BY <1>1, <1>2, FS_CardinalityType
<1>4. Cardinality(S) = 0 <=> S = {} BY <1>2, FS_EmptySet
<1> QED BY <1>2, <1>3, <1>4

(* What is to be shown of a step: refcnt still counts the users.           *)
LEMMA Counted ==
  ASSUME refcnt' = [b \in Buf |-> Cardinality(Users(b)')],
         \A p \in Proc : cur'[p] = None <=> pc'[p] \in {"idle", "panic"}
  PROVE  Refs' /\ refcnt' \in [Buf -> 0 .. Cardinality(Proc)]
<1>1. ASSUME NEW b \in Buf
      PROVE  Cardinality(Users(b)') \in 0 .. Cardinality(Proc)
             /\ (Cardinality(Users(b)') = 0 <=> Users(b)' = {})
  <2>1. Users(b)' \in SUBSET Proc BY DEF Users
  <2> QED BY <2>1, UsersFinite, ZenonT(30)
<1> QED BY <1>1, ZenonT(30) DEF Refs

(* bget() adds the process to the users of the buffer.                     *)
LEMMA TakeRefs ==
  ASSUME IInv, NEW p \in Proc, NEW b \in Buf, pc[p] = "idle",
         cur' = [cur EXCEPT ![p] = b], pc' = [pc EXCEPT ![p] = "lock"],
         refcnt' = [refcnt EXCEPT ![b] = @ + 1]
  PROVE  Refs' /\ refcnt' \in [Buf -> 0 .. Cardinality(Proc)]
<1> USE NoneIsNothing
<1>1. /\ cur \in [Proc -> Buf \cup {None}] /\ pc \in [Proc -> PCs] /\ cur[p] = None
      /\ refcnt = [c \in Buf |-> Cardinality(Users(c))]
      /\ \A q \in Proc : cur[q] = None <=> pc[q] \in {"idle", "panic"}
  <2>1. refcnt \in [Buf -> 0 .. Cardinality(Proc)] BY DEF IInv, TypeOK
  <2>2. \A c \in Buf : refcnt[c] = Cardinality(Users(c)) BY DEF IInv, Refs
  <2> QED BY <2>1, <2>2, ZenonT(30) DEF IInv, TypeOK, Refs, PCs
<1>2. Users(b)' = Users(b) \cup {p} /\ p \notin Users(b) BY <1>1, ZenonT(30) DEF Users
<1>3. Cardinality(Users(b)') = Cardinality(Users(b)) + 1
  <2>1. IsFiniteSet(Users(b)) BY UsersFinite DEF Users
  <2> QED BY <1>2, <2>1, FS_AddElement, ZenonT(30)
<1>4. ASSUME NEW c \in Buf, c # b PROVE Users(c)' = Users(c) BY <1>1, <1>4 DEF Users
<1>5. refcnt' = [c \in Buf |-> Cardinality(Users(c)')] BY <1>1, <1>3, <1>4, ZenonT(30)
<1>6. \A q \in Proc : cur'[q] = None <=> pc'[q] \in {"idle", "panic"} BY <1>1, ZenonT(30)
<1> QED BY <1>5, <1>6, Counted, ZenonT(30)

(* brelse() takes it off.                                                  *)
LEMMA DropRefs ==
  ASSUME IInv, NEW p \in Proc, brelseRef(p)
  PROVE  Refs' /\ refcnt' \in [Buf -> 0 .. Cardinality(Proc)]
<1> USE NoneIsNothing
<1>. PICK b : b = cur[p] BY ZenonT(30)
<1>0. /\ pc[p] = "put" /\ cur' = [cur EXCEPT ![p] = None] /\ pc' = [pc EXCEPT ![p] = "idle"]
      /\ refcnt' = [refcnt EXCEPT ![b] = @ - 1]
  BY ZenonT(30) DEF brelseRef, Goto, Decrement
<1>1. /\ cur \in [Proc -> Buf \cup {None}] /\ pc \in [Proc -> PCs] /\ b \in Buf
      /\ refcnt = [c \in Buf |-> Cardinality(Users(c))]
      /\ \A q \in Proc : cur[q] = None <=> pc[q] \in {"idle", "panic"}
  <2>1. refcnt \in [Buf -> 0 .. Cardinality(Proc)] BY DEF IInv, TypeOK
  <2>2. \A c \in Buf : refcnt[c] = Cardinality(Users(c)) BY DEF IInv, Refs
  <2>3. b \in Buf BY <1>0, Works
  <2> QED BY <2>1, <2>2, <2>3 DEF IInv, TypeOK, Refs, PCs
<1>2. Users(b)' = Users(b) \ {p} /\ p \in Users(b) BY <1>0, <1>1 DEF Users
<1>3. Cardinality(Users(b)') = Cardinality(Users(b)) - 1
  <2>1. IsFiniteSet(Users(b)) BY UsersFinite DEF Users
  <2> QED BY <1>2, <2>1, FS_RemoveElement, ZenonT(30)
<1>4. ASSUME NEW c \in Buf, c # b PROVE Users(c)' = Users(c)
  BY <1>0, <1>1, <1>4 DEF Users
<1>5. refcnt' = [c \in Buf |-> Cardinality(Users(c)')] BY <1>0, <1>1, <1>3, <1>4
<1>6. \A q \in Proc : cur'[q] = None <=> pc'[q] \in {"idle", "panic"} BY <1>0, <1>1, ZenonT(30)
<1> QED BY <1>5, <1>6, Counted, ZenonT(30)

(* The other steps leave the users of the buffers alone.                   *)
LEMMA KeepRefs ==
  ASSUME IInv, UNCHANGED <<cur, refcnt>>,
         \A p \in Proc : pc'[p] \in {"idle", "panic"} <=> pc[p] \in {"idle", "panic"}
  PROVE  Refs' /\ refcnt' \in [Buf -> 0 .. Cardinality(Proc)]
<1>1. Refs' BY DEF IInv, Refs, Users
<1>2. refcnt \in [Buf -> 0 .. Cardinality(Proc)] BY DEF IInv, TypeOK
<1> QED BY <1>1, <1>2

(* Every step preserves the reference counts.                              *)
LEMMA NextRefs ==
  ASSUME IInv, Next
  PROVE  Refs' /\ refcnt' \in [Buf -> 0 .. Cardinality(Proc)]
<1>. DEFINE Good == Refs' /\ refcnt' \in [Buf -> 0 .. Cardinality(Proc)]
<1>. SUFFICES Good OBVIOUS
<1>0. pc \in [Proc -> PCs] BY DEF IInv, TypeOK, PCs
<1>1. ASSUME NEW p \in Proc, UNCHANGED <<cur, refcnt>>,
             \/ UNCHANGED pc
             \/ pc[p] = "idle" /\ pc' = [pc EXCEPT ![p] = "panic"]
             \/ /\ pc[p] \notin {"idle", "panic"}
                /\ \E l \in PCs \ {"idle", "panic"} : pc' = [pc EXCEPT ![p] = l]
      PROVE  Good
  <2>1. \A q \in Proc : pc'[q] \in {"idle", "panic"} <=> pc[q] \in {"idle", "panic"}
    BY <1>0, <1>1, ZenonT(30)
  <2> QED BY <1>1, <2>1, KeepRefs
<1>7. ASSUME NEW p \in Proc, bread(p) \/ iderwWoken(p) \/ Kill(p) \/ brelse(p) PROVE Good
  BY <1>1, <1>7, ZenonT(30) DEF bread, iderwWoken, Kill, brelse, bufs, Goto, PCs
<1>8. ASSUME NEW p \in Proc, NEW k \in Block, bgetPanic(p, k) PROVE Good
  BY <1>1, <1>8, ZenonT(30) DEF bgetPanic, bufs, Goto
<1>9. ASSUME NEW p \in Proc, NEW v \in Data, bwrite(p, v) \/ log_write(p, v) PROVE Good
  BY <1>1, <1>9, ZenonT(30) DEF bwrite, log_write, Change, Goto, PCs
<1>2. ASSUME NEW p \in Proc, iderw(p) PROVE Good
  <2>1. UNCHANGED <<cur, refcnt>> /\ pc[p] = "rw" BY <1>2, ZenonT(30) DEF iderw, bufs
  <2>2. pc' = [pc EXCEPT ![p] = "sleep"] BY <1>2, <2>1, IderwChecks, ZenonT(30) DEF iderw, Goto
  <2>3. \A q \in Proc : pc'[q] \in {"idle", "panic"} <=> pc[q] \in {"idle", "panic"}
    BY <1>0, <2>1, <2>2, ZenonT(30)
  <2> QED BY <2>1, <2>3, KeepRefs
<1>3. ASSUME NEW p \in Proc, brelseRef(p) PROVE Good BY <1>3, DropRefs, ZenonT(30)
<1>4. ASSUME NEW p \in Proc, NEW k \in Block, bgetHit(p, k) PROVE Good
  <2>. PICK b \in Cached(k) :
         refcnt' = [refcnt EXCEPT ![b] = @ + 1] /\ cur' = [cur EXCEPT ![p] = b]
    BY <1>4, ZenonT(30) DEF bgetHit
  <2>1. b \in Buf BY ZenonT(30) DEF Cached
  <2> QED BY <1>4, <2>1, TakeRefs, ZenonT(30) DEF bgetHit, Goto
<1>5. ASSUME NEW p \in Proc, NEW k \in Block, bgetRecycle(p, k) PROVE Good
  <2>. PICK b \in Buf :
         Victim(b) /\ refcnt' = [refcnt EXCEPT ![b] = 1] /\ cur' = [cur EXCEPT ![p] = b]
    BY <1>5, ZenonT(30) DEF bgetRecycle
  <2>1. refcnt[b] = 0 BY ZenonT(30) DEF Victim, Reusable
  <2>2. refcnt' = [refcnt EXCEPT ![b] = @ + 1] BY <2>1
  <2> QED BY <1>5, <2>2, TakeRefs, ZenonT(30) DEF bgetRecycle, Goto
<1>6. ASSUME NEW failed \in BOOLEAN, ideintr(failed) PROVE Good
  <2>1. UNCHANGED <<cur, refcnt>> BY <1>6, ZenonT(30) DEF ideintr
  <2>2. \A q \in Proc : pc'[q] = pc[q] \/ (pc[q] = "sleep" /\ pc'[q] = "woken")
    BY <1>6, ZenonT(30) DEF ideintr, wakeup
  <2> QED BY <2>1, <2>2, KeepRefs, ZenonT(30)
<1> HIDE DEF Good
<1> QED BY <1>2, <1>3, <1>4, <1>5, <1>6, <1>7, <1>8, <1>9, ZenonT(60) DEF Next, InKernel

-----------------------------------------------------------------------------
(* The inductive invariant holds at first.                                 *)
LEMMA InitIInv == Init => IInv
<1> SUFFICES ASSUME Init PROVE IInv BY ZenonT(30)
<1> USE NoneIsNothing DEF Init
<1>1. Refs /\ refcnt \in [Buf -> 0 .. Cardinality(Proc)]
  <2>1. \A b \in Buf : Users(b) = {} BY ZenonT(30) DEF Users
  <2>2. Cardinality({}) = 0 /\ Cardinality(Proc) \in Nat
    BY FS_EmptySet, FS_CardinalityType, BcacheAssumption, ZenonT(30)
  <2>3. \A b \in Buf : refcnt[b] = 0 /\ Cardinality(Users(b)) = 0 BY <2>1, <2>2, ZenonT(30)
  <2>4. refcnt \in [Buf -> 0 .. Cardinality(Proc)] BY <2>2
  <2>5. \A p \in Proc : cur[p] = None /\ pc[p] = "idle" OBVIOUS
  <2> QED BY <2>1, <2>3, <2>4, <2>5, ZenonT(30) DEF Refs
<1>2. lru \in [Buf -> Buf] /\ Range(lru) = Buf
  <2>1. \A b \in Buf : NBUF + 1 - b \in Buf /\ NBUF + 1 - (NBUF + 1 - b) = b
    BY BcacheAssumption DEF Buf
  <2> QED BY <2>1 DEF Range
<1>3. TypeOK
  <2>1. idequeue \in Seq(Buf) OBVIOUS
  <2> QED BY <1>1, <1>2, <2>1, ZenonT(30) DEF TypeOK
<1>4. Owned /\ Unique BY ZenonT(30) DEF Owned, Unique, Holding
<1>5. Contents BY ZenonT(30) DEF Contents
<1>6. Queued BY DEF Queued, IsInjective, Range
<1>7. Steps /\ PanicOnlyWhenFull BY ZenonT(30) DEF Steps, PanicOnlyWhenFull, Running
<1> QED BY <1>1, <1>3, <1>4, <1>5, <1>6, <1>7, ZenonT(30) DEF IInv, Core

(* And every step preserves it.                                            *)
LEMMA Invariant == Spec => []IInv
<1>1. IInv /\ [Next]_vars => IInv'
  <2> SUFFICES ASSUME IInv, [Next]_vars PROVE IInv' OBVIOUS
  <2>1. CASE Next BY <2>1, NextCore, NextType, NextRefs DEF IInv
  <2>2. CASE UNCHANGED vars
    <3>1. TypeOK' BY <2>2, ZenonT(30) DEF vars, bufs, IInv, TypeOK
    <3>2. Refs' BY <2>2 DEF vars, bufs, IInv, Refs, Users
    <3>3. Owned' /\ Unique' BY <2>2, ZenonT(30) DEF vars, bufs, IInv, Core, Owned, Unique
    <3>4. Contents' BY <2>2, ZenonT(30) DEF vars, bufs, IInv, Core, Contents
    <3>5. Queued' BY <2>2, ZenonT(30) DEF vars, bufs, IInv, Core, Queued, Done
    <3>6. Steps' BY <2>2, ZenonT(30) DEF vars, bufs, IInv, Core, Steps, Done
    <3>7. PanicOnlyWhenFull'
      BY <2>2, ZenonT(30) DEF vars, bufs, IInv, Core, PanicOnlyWhenFull, Running
    <3> QED BY <3>1, <3>2, <3>3, <3>4, <3>5, <3>6, <3>7, ZenonT(30) DEF IInv, Core
  <2> QED BY <2>1, <2>2
<1> QED BY <1>1, InitIInv, PTL DEF Spec

(* A block is in at most one buffer, whatever the processes read, write,   *)
(* release and evict (bget() in bio.c).                                    *)
THEOREM CacheHasOneBuffer == Spec => []OneBufferPerBlock
<1>1. IInv => OneBufferPerBlock
  <2> SUFFICES ASSUME IInv, NEW k \in Block PROVE Cardinality(Cached(k)) <= 1
    BY ZenonT(30) DEF OneBufferPerBlock
  <2>1. CASE Cached(k) = {} BY <2>1, FS_EmptySet
  <2>2. CASE Cached(k) # {}
    <3>. PICK b \in Cached(k) : TRUE BY <2>2
    <3>1. Cached(k) = {b} BY NoneIsNothing, ZenonT(30) DEF Cached, IInv, Core, Unique
    <3> QED BY <3>1, FS_Singleton
  <2> QED BY <2>1, <2>2, ZenonT(30)
<1> QED BY <1>1, Invariant, PTL

(* Whoever holds a block sees what the last holder wrote; requests and     *)
(* references have an owner, and bget() panics only when every buffer is   *)
(* pinned or in use (bio.c, ide.c).                                        *)
THEOREM CacheIsSound == Spec => []CacheSound
<1>1. IInv => CacheSound
  <2> SUFFICES ASSUME IInv PROVE CacheSound OBVIOUS
  <2>1. Coherent
    <3> SUFFICES ASSUME NEW p \in Proc, pc[p] = "held", blockno[cur[p]] \notin BadBlock
                 PROVE  owner[cur[p]] = p /\ valid[cur[p]] /\ data[cur[p]] = mem[blockno[cur[p]]]
      BY DEF Coherent
    <3>1. cur[p] \in Buf BY Works
    <3>2. owner[cur[p]] = p BY <3>1, ZenonT(30) DEF IInv, Core, Owned, Holding
    <3>3. valid[cur[p]] BY DEF IInv, Core, Steps
    <3> QED BY <3>1, <3>2, <3>3 DEF IInv, Core, Contents
  <2>2. RequestsOwned
    <3>1. idequeue \in Seq(Buf) BY DEF IInv, TypeOK
    <3>2. \A b \in Range(idequeue) : b \in Buf BY <3>1 DEF Range
    <3>3. \A b \in Range(idequeue) : owner[b] \in Proc /\ pc[owner[b]] \in {"sleep", "woken"}
      BY DEF IInv, Core, Queued
    <3>4. \A b \in Range(idequeue) : cur[owner[b]] = b BY <3>2, <3>3, ZenonT(30) DEF IInv, Core, Owned
    <3> QED BY <3>3, <3>4 DEF IInv, Core, Queued, RequestsOwned
  <2> QED BY <2>1, <2>2 DEF IInv, Core, CacheSound
<1> QED BY <1>1, Invariant, PTL

=============================================================================
