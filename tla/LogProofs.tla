----------------------------- MODULE LogProofs -----------------------------
(***************************************************************************)
(* The inductive invariant of the write-ahead log of log.c, for any        *)
(* processes, blocks and contents and any sizes that LogSizes allows, and  *)
(* the proofs about its control: who commits, what the header names, and   *)
(* the room that begin_op() reserves.  LogRecovery has the contents.       *)
(***************************************************************************)
EXTENDS Log, FiniteSetTheorems, TLAPS

(* Who is where: commit() runs alone, and so does recovery.                *)
Control ==
  /\ committing => stage \in {"write_log", "write_head", "install", "clear", "done"}
  /\ ~committing => stage \in {"none", "read_head", "install", "clear"}
  /\ stage # "none" => Active = {}
  /\ \A p \in Proc : pc[p] = "commit" => committing
  /\ \A p, q \in Proc : pc[p] = "commit" /\ pc[q] = "commit" => p = q
  /\ \A p \in Proc : wb[p] # NoBuf <=> pc[p] = "log_write"
  /\ outstanding = Cardinality(Active)

(* No block is logged twice, and an idle log is empty.                     *)
Header ==
  /\ \A i, j \in 1 .. Len(lh) : lh[i] = lh[j] => i = j
  /\ \A i, j \in 1 .. Len(dhead) : dhead[i] = dhead[j] => i = j
  /\ Len(dhead) <= LOGSIZE - 2
  /\ stage \notin {"read_head", "install", "clear"} => dhead = <<>>
  /\ stage = "read_head" => lh = <<>>
  /\ stage \in {"install", "clear"} => dhead = lh
  /\ stage = "done" => lh = <<>>
  /\ stage = "none" /\ Active = {} => lh = <<>>

(* The room begin_op() reserves is enough for what its call still logs.    *)
Room ==
  /\ \A p \in Proc : /\ IsFiniteSet(wrote[p]) /\ Cardinality(wrote[p]) <= OPBLOCKS
                     /\ wrote[p] \subseteq Range(lh)
                     /\ p \notin Active => wrote[p] = {}
                     /\ pc[p] = "log_write" =>
                          wb[p] \in wrote[p] \/ Cardinality(wrote[p]) < OPBLOCKS
  /\ Len(lh) + Cardinality(Slots) <= LOGSIZE - 2
  /\ ~panicked

(* A block that is neither pinned nor being changed is cached as it is on  *)
(* the disk.                                                               *)
Agrees(b) == cache[b] = NoBuf \/ cache[b] = disk[b]

(* Which buffers are pinned, and that a pinned buffer stays in the cache.  *)
Pinned ==
  /\ stage \in {"none", "write_log", "write_head"} => dirty = Range(lh)
  /\ stage = "install" /\ committing => dirty = {lh[i] : i \in tail .. Len(lh)}
  /\ stage = "install" /\ ~committing => dirty = {}
  /\ stage \in {"read_head", "clear", "done"} => dirty = {}
  /\ \A b \in dirty : cache[b] # NoBuf
  /\ \A p \in Proc : wb[p] # NoBuf => cache[wb[p]] # NoBuf
  /\ \A b \in Block \ dirty : Agrees(b) \/ \E p \in Proc : wb[p] = b

(* How far write_log() and install_trans() have come.                      *)
Copied ==
  /\ stage \in {"write_log", "install"} => tail \in 1 .. Len(lh) + 1
  /\ stage = "write_log" => \A i \in 1 .. tail - 1 : dlog[i] = cache[lh[i]]
  /\ stage = "write_head" => \A i \in 1 .. Len(lh) : dlog[i] = cache[lh[i]]
  /\ stage = "install" => \A i \in 1 .. tail - 1 : disk[lh[i]] = dlog[i]
  /\ stage = "install" /\ committing =>
       \A i \in tail .. Len(lh) : cache[lh[i]] = dlog[i]
  /\ stage = "clear" => \A i \in 1 .. Len(lh) : disk[lh[i]] = dlog[i]

IInv == TypeOK /\ Control /\ Header /\ Room /\ Pinned /\ Copied

-----------------------------------------------------------------------------
(* Arithmetic of reservations: n calls that each stay below their          *)
(* reservation leave n entries unused.                                     *)
LEMMA Unused ==
  ASSUME NEW n \in Nat, NEW a \in Nat, NEW b \in Nat, a < b
  PROVE  n * a + n <= n * b
<1>1. b - a - 1 \in Nat
  OBVIOUS
<1>2. n * (b - a - 1) \in Nat
  BY <1>1
<1>3. n * (b - a - 1) = n * b - n * a - n
  OBVIOUS
<1>4. QED
  BY <1>2, <1>3

(* The calls in progress are finitely many.                                *)
LEMMA ActiveFinite == IsFiniteSet(Active) /\ Cardinality(Active) \in Nat
BY LogAssumption, FS_Subset, FS_CardinalityType, ZenonT(30) DEF Active

(* begin_op() has counted a call that is in progress.                      *)
LEMMA ActiveCounted == \A p \in Active : Cardinality(Active) >= 1
<1> SUFFICES ASSUME NEW p \in Active PROVE Cardinality(Active) >= 1
  BY ZenonT(30)
<1>1. Cardinality(Active) # 0
  BY ActiveFinite, FS_EmptySet, ZenonT(30)
<1>2. QED
  BY <1>1, ActiveFinite

(* The slots are at most OPBLOCKS for each call in progress.               *)
LEMMA SlotsBound == /\ IsFiniteSet(Slots)
                    /\ Cardinality(Slots) \in Nat
                    /\ Cardinality(Slots) <= Cardinality(Active) * OPBLOCKS
<1> DEFINE All == Active \X (1 .. OPBLOCKS)
<1>1. IsFiniteSet(1 .. OPBLOCKS) /\ Cardinality(1 .. OPBLOCKS) = OPBLOCKS
  BY LogAssumption, FS_Interval
<1>2. IsFiniteSet(All) /\ Cardinality(All) = Cardinality(Active) * OPBLOCKS
  BY <1>1, ActiveFinite, FS_Product, ZenonT(30)
<1>3. Slots \in SUBSET All
  BY ZenonT(30) DEF Slots
<1> HIDE DEF All
<1>4. QED
  BY <1>2, <1>3, FS_Subset, FS_CardinalityType, ZenonT(30)

(* Every step keeps the types: in particular write_log() stays within the  *)
(* log on disk, and only a block number is ever put into the header.       *)
LEMMA NextTypeOK == IInv /\ [Next]_vars => TypeOK'
<1> SUFFICES ASSUME IInv, [Next]_vars PROVE TypeOK'
  OBVIOUS
<1> USE LogAssumption DEF IInv, TypeOK, vars, calls, bufs, store
<1>1. ASSUME NEW p \in Proc, BeginOp(p) PROVE TypeOK'
  BY <1>1 DEF BeginOp
<1>2. ASSUME NEW p \in Proc, BeginOpSleep(p) PROVE TypeOK'
  BY <1>2, ZenonT(30) DEF BeginOpSleep
<1>3. ASSUME NEW p \in Proc, NEW b \in Block, NEW v \in Val, Modify(p, b, v)
      PROVE TypeOK'
  BY <1>3, ZenonT(30) DEF Modify
<1>4. ASSUME NEW p \in Proc, LogWrite(p) PROVE TypeOK'
  BY <1>4 DEF LogWrite, Absorbed, Control
<1>5. ASSUME NEW p \in Proc, EndOp(p) PROVE TypeOK'
  <2>1. outstanding >= 1
    BY <1>5, ActiveCounted, ZenonT(30) DEF EndOp, Control, Active
  <2>2. QED
    BY <1>5, <2>1 DEF EndOp, Wakeup
<1>6. ASSUME NEW p \in Proc, EndOpLast(p) PROVE TypeOK'
  BY <1>6, ZenonT(30) DEF EndOpLast, CommitStage, Stages
<1>7. ASSUME NEW p \in Proc, EndCommit(p) PROVE TypeOK'
  BY <1>7, ZenonT(30) DEF EndCommit, Wakeup, Stages
<1>8. CASE WriteLog
  <2>1. CASE LoopGoesOn
    <3> DEFINE v == bread(lh[tail])
    <3>1. lh[tail] \in Block
      BY <1>8, <2>1 DEF LoopGoesOn, Copied, WriteLog
    <3>2. v \in Val
      BY <3>1, ZenonT(30) DEF bread
    <3>3. /\ dlog' = [dlog EXCEPT ![tail] = v]
          /\ cache' = [cache EXCEPT ![lh[tail]] = v]
          /\ tail' = tail + 1
          /\ UNCHANGED <<stage, calls, lh, dirty, disk, dhead, panicked>>
      BY <1>8, <2>1, ZenonT(30) DEF WriteLog
    <3> HIDE DEF v
    <3>4. dlog' \in [1 .. NLOG - 1 -> Val]
      BY <3>2, <3>3, ZenonT(30)
    <3>5. cache' \in [Block -> Val \cup {NoBuf}]
      BY <3>2, <3>3, ZenonT(30)
    <3>6. QED
      BY <3>3, <3>4, <3>5
  <2>2. CASE ~LoopGoesOn
    BY <1>8, <2>2, ZenonT(30) DEF WriteLog, Stages
  <2>3. QED
    BY <2>1, <2>2, ZenonT(30)
<1>9. CASE WriteHead
  BY <1>9, ZenonT(30) DEF WriteHead, Stages
<1>10. CASE ReadHead
  BY <1>10, ZenonT(30) DEF ReadHead, Stages
<1>11. CASE InstallTrans
  <2>1. CASE LoopGoesOn
    <3>1. lh[tail] \in Block /\ dlog[tail] \in Val
      BY <1>11, <2>1, LogSizes DEF InstallTrans, LoopGoesOn, Header, Copied
    <3>2. disk' \in [Block -> Val] /\ cache' \in [Block -> Val \cup {NoBuf}]
      BY <1>11, <2>1, <3>1, ZenonT(30) DEF InstallTrans
    <3>3. dirty' \in SUBSET Block /\ tail' \in Nat
      BY <1>11, <2>1 DEF InstallTrans
    <3>4. QED
      BY <1>11, <2>1, <3>2, <3>3, ZenonT(30) DEF InstallTrans
  <2>2. CASE ~LoopGoesOn
    BY <1>11, <2>2, ZenonT(30) DEF InstallTrans, Stages
  <2>3. QED
    <3>. HIDE LogAssumption DEF IInv, TypeOK, vars, calls, bufs, store
    <3> QED BY <2>1, <2>2
<1>12. CASE ClearHead
  BY <1>12 DEF ClearHead, Stages
<1>13. ASSUME NEW b \in Block, Evict(b) PROVE TypeOK'
  BY <1>13, ZenonT(30) DEF Evict
<1>14. CASE Crash
  <2>1. /\ pc' \in [Proc -> {"idle", "sleep", "woken", "op", "log_write", "commit"}]
        /\ wrote' \in [Proc -> SUBSET Block]
        /\ wb' \in [Proc -> Block \cup {NoBuf}]
        /\ cache' \in [Block -> Val \cup {NoBuf}]
    BY <1>14, ZenonT(30) DEF Crash
  <2>2. UNCHANGED <<disk, dlog, dhead>> /\ panicked' \in BOOLEAN /\ committing' \in BOOLEAN
    BY <1>14, ZenonT(30) DEF Crash
  <2>3. outstanding' \in Nat /\ lh' \in Seq(Block) /\ tail' \in Nat
    BY <1>14 DEF Crash
  <2>4. stage' \in Stages /\ dirty' \in SUBSET Block
    BY <1>14, ZenonT(30) DEF Crash, Stages
  <2>5. QED
    BY <2>1, <2>2, <2>3, <2>4, ZenonT(30) DEF Stages
<1>15. CASE UNCHANGED vars
  BY <1>15, ZenonT(30)
<1>16. QED
  BY <1>1, <1>2, <1>3, <1>4, <1>5, <1>6, <1>7, <1>8, <1>9, <1>10, <1>11,
     <1>12, <1>13, <1>14, <1>15, ZenonT(30), ZenonT(30) DEF Next, Step, DiskStep

-----------------------------------------------------------------------------
(* begin_op() and end_op() alone change which calls are in progress.       *)
LEMMA ActiveSteps ==
  ASSUME TypeOK, NEW p \in Proc
  PROVE  /\ BeginOp(p) => p \notin Active /\ Active' = Active \cup {p}
         /\ EndOp(p) \/ EndOpLast(p) => p \in Active /\ Active' = Active \ {p}
         /\ BeginOpSleep(p) \/ LogWrite(p) \/ EndCommit(p) => Active' = Active
         /\ \A b \in Block, v \in Val : Modify(p, b, v) => Active' = Active
<1> USE DEF TypeOK, Active
<1>1. BeginOp(p) => p \notin Active /\ Active' = Active \cup {p}
  BY DEF BeginOp
<1>2. EndOp(p) => p \in Active /\ Active' = Active \ {p}
  BY ZenonT(30) DEF EndOp, Wakeup
<1>3. EndOpLast(p) => p \in Active /\ Active' = Active \ {p}
  BY ZenonT(30) DEF EndOpLast
<1>4. BeginOpSleep(p) \/ LogWrite(p) => Active' = Active
  BY ZenonT(30) DEF BeginOpSleep, LogWrite
<1>5. EndCommit(p) => Active' = Active
  BY ZenonT(30) DEF EndCommit, Wakeup
<1>6. \A b \in Block, v \in Val : Modify(p, b, v) => Active' = Active
  BY ZenonT(30) DEF Modify
<1> HIDE DEF Active
<1>7. QED
  BY <1>1, <1>2, <1>3, <1>4, <1>5, <1>6, ZenonT(30)

(* commit(), recovery and the buffer cache leave them alone.               *)
LEMMA ActiveKept == /\ DiskStep => Active' = Active
                    /\ \A b \in Block : Evict(b) => Active' = Active
                    /\ Crash => Active' = {}
BY ZenonT(30) DEF DiskStep, WriteLog, WriteHead, ReadHead, InstallTrans, ClearHead, Evict, Crash,
       calls, Active

(* Who may run: the last end_op() finds no other call in progress, and no  *)
(* call begins before commit() or recovery has finished.                   *)
LEMMA NextControl == IInv /\ [Next]_vars => Control'
<1> SUFFICES ASSUME IInv, [Next]_vars PROVE Control'
  BY ZenonT(30)
<1> USE LogAssumption DEF IInv, TypeOK, Control
<1>0. TypeOK
  BY ZenonT(30)
<1>1. ASSUME NEW p \in Proc, BeginOp(p) PROVE Control'
  <2>1. Active' = Active \cup {p} /\ p \notin Active
    BY <1>0, <1>1, ActiveSteps, ZenonT(30)
  <2>2. outstanding' = Cardinality(Active')
    BY <1>1, <2>1, ActiveFinite, FS_AddElement, ZenonT(30) DEF BeginOp
  <2>3. QED
    BY <1>1, <2>2, ZenonT(30) DEF BeginOp, Booted
<1>2. ASSUME NEW p \in Proc, BeginOpSleep(p) PROVE Control'
  BY <1>0, <1>2, ActiveSteps, ZenonT(30) DEF BeginOpSleep
<1>3. ASSUME NEW p \in Proc, NEW b \in Block, NEW v \in Val, Modify(p, b, v)
      PROVE Control'
  BY <1>0, <1>3, ActiveSteps, ZenonT(30) DEF Modify
<1>4. ASSUME NEW p \in Proc, LogWrite(p) PROVE Control'
  BY <1>0, <1>4, ActiveSteps, ZenonT(30) DEF LogWrite
<1>5. ASSUME NEW p \in Proc, EndOp(p) PROVE Control'
  <2>1. p \in Active /\ Active' = Active \ {p}
    BY <1>0, <1>5, ActiveSteps, ZenonT(30)
  <2>2. outstanding' = Cardinality(Active')
    BY <1>5, <2>1, ActiveFinite, FS_RemoveElement, ZenonT(30) DEF EndOp
  <2>3. QED
    BY <1>5, <2>1, <2>2, ZenonT(30) DEF EndOp, Wakeup
<1>6. ASSUME NEW p \in Proc, EndOpLast(p) PROVE Control'
  <2>1. p \in Active /\ Active' = Active \ {p}
    BY <1>0, <1>6, ActiveSteps, ZenonT(30)
  <2>2. Cardinality(Active \ {p}) = 0 /\ IsFiniteSet(Active \ {p})
    <3>1. Cardinality(Active) = 1
      BY <1>6 DEF EndOpLast
    <3>2. QED
      BY <2>1, <3>1, ActiveFinite, FS_RemoveElement
  <2>3. Active' = {}
    BY <2>1, <2>2, FS_EmptySet, ZenonT(30)
  <2>4. QED
    BY <1>6, <2>1, <2>2, <2>3, ZenonT(30) DEF EndOpLast, CommitStage
<1>7. ASSUME NEW p \in Proc, EndCommit(p) PROVE Control'
  <2>1. Active' = Active
    BY <1>0, <1>7, ActiveSteps, ZenonT(30)
  <2>2. QED
    BY <1>7, <2>1, ZenonT(30) DEF EndCommit, Wakeup
<1>8. CASE DiskStep
  <2>1. Active' = Active
    BY <1>8, ActiveKept, ZenonT(30)
  <2>2. CASE WriteLog
    BY <2>1, <2>2, ZenonT(30) DEF WriteLog, calls
  <2>3. CASE WriteHead
    BY <2>1, <2>3, ZenonT(30) DEF WriteHead, calls
  <2>4. CASE ReadHead
    BY <2>1, <2>4, ZenonT(30) DEF ReadHead, calls
  <2>5. CASE InstallTrans
    BY <2>1, <2>5, ZenonT(30) DEF InstallTrans, calls
  <2>6. CASE ClearHead
    BY <2>1, <2>6, ZenonT(30) DEF ClearHead, calls
  <2>7. QED
    BY <1>8, <2>2, <2>3, <2>4, <2>5, <2>6, ZenonT(30) DEF DiskStep
<1>9. ASSUME NEW b \in Block, Evict(b) PROVE Control'
  BY <1>9, ActiveKept, ZenonT(30) DEF Evict, calls
<1>10. CASE Crash
  <2>0. Active' = {}
    BY <1>10, ActiveKept, ZenonT(30)
  <2>1. Active' = {} /\ Cardinality(Active') = 0
    BY <2>0, FS_EmptySet, ZenonT(30)
  <2>2. QED
    BY <1>10, <2>1, ZenonT(30) DEF Crash
<1>11. CASE UNCHANGED vars
  BY <1>11, ZenonT(30) DEF vars, calls, Active
<1>12. QED
  BY <1>1, <1>2, <1>3, <1>4, <1>5, <1>6, <1>7, <1>8, <1>9, <1>10, <1>11, ZenonT(30)
     DEF Next, Step

(* The header: absorption keeps its blocks distinct, and it is empty again *)
(* whenever no group is open.                                              *)
LEMMA NextHeader == IInv /\ [Next]_vars => Header'
<1> SUFFICES ASSUME IInv, [Next]_vars PROVE Header'
  OBVIOUS
<1> USE LogAssumption, LogSizes DEF IInv, TypeOK, Header
<1>0. TypeOK
  BY ZenonT(30)
<1>1. ASSUME NEW p \in Proc, BeginOp(p) PROVE Header'
  <2>1. Active' = Active \cup {p}
    BY <1>0, <1>1, ActiveSteps, ZenonT(30)
  <2>2. QED
    BY <1>1, <2>1 DEF BeginOp, store
<1>2. ASSUME NEW p \in Proc, BeginOpSleep(p) PROVE Header'
  <2>1. Active' = Active
    BY <1>0, <1>2, ActiveSteps, ZenonT(30)
  <2>2. QED
    BY <1>2, <2>1 DEF BeginOpSleep, store
<1>3. ASSUME NEW p \in Proc, NEW b \in Block, NEW v \in Val, Modify(p, b, v)
      PROVE Header'
  <2>1. Active' = Active
    BY <1>0, <1>3, ActiveSteps, ZenonT(30)
  <2>2. QED
    BY <1>3, <2>1 DEF Modify, store
<1>4. ASSUME NEW p \in Proc, LogWrite(p) PROVE Header'
  <2>1. p \in Active /\ Active' = Active
    BY <1>0, <1>4, ActiveSteps, ZenonT(30) DEF LogWrite, Active
  <2>2. wb[p] \in Block
    BY <1>4, ZenonT(30) DEF LogWrite, Control
  <2>3. \A i, j \in 1 .. Len(lh') : lh'[i] = lh'[j] => i = j
    BY <1>4, <2>2 DEF LogWrite, Absorbed, Range
  <2>4. QED
    BY <1>4, <2>1, <2>3 DEF LogWrite, Control, store
<1>5. ASSUME NEW p \in Proc, EndOp(p) PROVE Header'
  <2>1. p \in Active
    BY <1>0, <1>5, ActiveSteps, ZenonT(30)
  <2>2. Active' # {}
    <3>1. outstanding' # 0
      BY <1>5 DEF EndOp
    <3>2. QED
      BY <3>1, NextControl, FS_EmptySet, ZenonT(30) DEF Control
  <2>3. QED
    BY <1>5, <2>1, <2>2 DEF EndOp, Control, store
<1>6. ASSUME NEW p \in Proc, EndOpLast(p) PROVE Header'
  <2>1. stage = "none"
    BY <1>6, ZenonT(30) DEF EndOpLast, Control, Active
  <2>2. stage' \in {"write_log", "done"} /\ (stage' = "done" => lh = <<>>)
    BY <1>6 DEF EndOpLast, CommitStage
  <2>3. QED
    BY <1>6, <2>1, <2>2 DEF EndOpLast, store
<1>7. ASSUME NEW p \in Proc, EndCommit(p) PROVE Header'
  BY <1>7 DEF EndCommit, store
<1>8. CASE WriteLog
  BY <1>8, ActiveKept DEF DiskStep, WriteLog
<1>9. CASE WriteHead
  BY <1>9, SlotsBound DEF WriteHead, Room
<1>10. CASE ReadHead
  BY <1>10 DEF ReadHead, store
<1>11. CASE InstallTrans
  BY <1>11 DEF InstallTrans
<1>12. CASE ClearHead
  BY <1>12 DEF ClearHead
<1>13. ASSUME NEW b \in Block, Evict(b) PROVE Header'
  <2>1. Active' = Active
    BY <1>13, ActiveKept, ZenonT(30)
  <2>2. QED
    BY <1>13, <2>1 DEF Evict, store
<1>14. CASE Crash
  BY <1>14 DEF Crash, store
<1>15. CASE UNCHANGED vars
  BY <1>15 DEF vars, store, calls, Active
<1>16. QED
  BY <1>1, <1>2, <1>3, <1>4, <1>5, <1>6, <1>7, <1>8, <1>9, <1>10, <1>11,
     <1>12, <1>13, <1>14, <1>15, ZenonT(30), ZenonT(30) DEF Next, Step, DiskStep

-----------------------------------------------------------------------------
(* Appending a block to the header adds it to the blocks it names.         *)
LEMMA RangeAppend ==
  ASSUME NEW S, NEW s \in Seq(S), NEW e \in S
  PROVE  Range(Append(s, e)) = Range(s) \cup {e}
<1> DEFINE t == Append(s, e)
<1>1. /\ DOMAIN t = 1 .. Len(s) + 1 /\ DOMAIN s = 1 .. Len(s) /\ Len(s) \in Nat
      /\ t[Len(s) + 1] = e /\ \A i \in 1 .. Len(s) : t[i] = s[i]
  OBVIOUS
<1> HIDE DEF t
<1>2. ASSUME NEW x \in Range(t) PROVE x \in Range(s) \cup {e}
  <2>1. PICK i \in 1 .. Len(s) + 1 : x = t[i]
    BY <1>1, <1>2, ZenonT(30) DEF Range
  <2>2. CASE i = Len(s) + 1
    BY <1>1, <2>1, <2>2
  <2>3. CASE i \in 1 .. Len(s)
    BY <1>1, <2>1, <2>3, ZenonT(30) DEF Range
  <2>4. QED
    BY <1>1, <2>2, <2>3
<1>3. ASSUME NEW x \in Range(s) PROVE x \in Range(t)
  <2>1. PICK i \in 1 .. Len(s) : x = s[i]
    BY <1>1, <1>3 DEF Range
  <2>2. QED
    BY <1>1, <2>1 DEF Range
<1>4. e \in Range(t)
  BY <1>1 DEF Range
<1>5. QED
  BY <1>2, <1>3, <1>4 DEF t

(* begin_op() lets a call in only when its slots still fit.                *)
LEMMA RoomBegin ==
  ASSUME IInv, NEW p \in Proc, BeginOp(p)
  PROVE  Len(lh') + Cardinality(Slots') <= LOGSIZE - 2
<1> USE LogAssumption, LogSizes
<1>1. /\ Active' = Active \cup {p} /\ p \notin Active
      /\ Cardinality(Active') = outstanding + 1
  <2>1. Active' = Active \cup {p} /\ p \notin Active
    BY ActiveSteps, ZenonT(30) DEF IInv
  <2>2. QED
    BY <2>1, ActiveFinite, FS_AddElement, ZenonT(30) DEF IInv, Control
<1>2. /\ Cardinality(Slots') \in Nat
      /\ Cardinality(Slots') <= (outstanding + 1) * OPBLOCKS
  <2>1. (/\ IsFiniteSet(Slots)
         /\ Cardinality(Slots) \in Nat
         /\ Cardinality(Slots) <= Cardinality(Active) * OPBLOCKS)'
    BY SlotsBound, PTL
  <2>2. QED
    BY <1>1, <2>1, ZenonT(30)
<1>3. /\ lh' = lh /\ outstanding \in Nat /\ Len(lh) \in Nat
      /\ Len(lh) + (outstanding + 1) * MAXOPBLOCKS <= LOGSIZE
  BY DEF BeginOp, LogSpace, IInv, TypeOK
<1>4. CASE outstanding = 0
  <2>1. Active = {} /\ stage = "none"
    BY <1>4, ActiveFinite, FS_EmptySet, ZenonT(30) DEF IInv, Control, BeginOp, Booted
  <2>2. Len(lh) = 0
    BY <2>1 DEF IInv, Header
  <2>3. QED
    BY <1>2, <1>3, <1>4, <2>2
<1>5. CASE outstanding >= 1
  <2>1. (outstanding + 1) * OPBLOCKS + (outstanding + 1) <= (outstanding + 1) * MAXOPBLOCKS
    BY <1>3, Unused
  <2>2. /\ (outstanding + 1) * OPBLOCKS \in Nat
        /\ (outstanding + 1) * MAXOPBLOCKS \in Nat
    BY <1>3
  <2>3. QED
    BY <1>2, <1>3, <1>5, <2>1, <2>2
<1>6. QED
  BY <1>3, <1>4, <1>5

(* log_write() takes an entry of the header only for a slot of its call.   *)
LEMMA RoomLogWrite ==
  ASSUME IInv, NEW p \in Proc, LogWrite(p)
  PROVE  /\ Len(lh') + Cardinality(Slots') <= LOGSIZE - 2
         /\ IsFiniteSet(wrote'[p]) /\ Cardinality(wrote'[p]) <= OPBLOCKS
         /\ \A q \in Proc : wrote'[q] \subseteq Range(lh')
<1> USE LogAssumption, LogSizes
<1> DEFINE b == wb[p]
           n == Cardinality(wrote[p])
<1>1. /\ b \in Block /\ p \in Active /\ Active' = Active
      /\ IsFiniteSet(wrote[p]) /\ n \in Nat /\ n <= OPBLOCKS
      /\ b \in wrote[p] \/ n < OPBLOCKS
  <2>1. b \in Block /\ p \in Active
    BY ZenonT(30) DEF LogWrite, IInv, TypeOK, Control, Active
  <2>2. Active' = Active
    BY ActiveSteps DEF IInv
  <2>3. IsFiniteSet(wrote[p]) /\ n \in Nat
    BY FS_CardinalityType DEF IInv, Room
  <2>4. n <= OPBLOCKS /\ (b \in wrote[p] \/ n < OPBLOCKS)
    BY ZenonT(30) DEF IInv, Room, LogWrite
  <2>5. QED
    BY <2>1, <2>2, <2>3, <2>4
<1>2. /\ lh' = Absorbed(b)
      /\ wrote' = [wrote EXCEPT ![p] = wrote[p] \cup {b}]
      /\ lh \in Seq(Block) /\ wrote \in [Proc -> SUBSET Block]
      /\ \A q \in Proc : wrote[q] \subseteq Range(lh)
      /\ Len(lh) + Cardinality(Slots) <= LOGSIZE - 2
  BY ZenonT(30) DEF LogWrite, IInv, TypeOK, Room
<1>3. Range(lh) \cup {b} = Range(lh')
  BY <1>1, <1>2, RangeAppend DEF Absorbed
<1>4. \A q \in Proc : wrote'[q] \subseteq Range(lh')
  BY <1>2, <1>3, ZenonT(30)
<1>5. CASE b \in wrote[p]
  <2>1. wrote' = wrote /\ lh' = lh
    BY <1>2, <1>5, ZenonT(30) DEF Absorbed
  <2>2. Slots' = Slots
    BY <2>1, <1>1, ZenonT(30) DEF Slots
  <2>3. QED
    BY <1>1, <1>2, <1>4, <2>1, <2>2, ZenonT(30)
<1>6. CASE b \notin wrote[p]
  <2>1. IsFiniteSet(wrote'[p]) /\ Cardinality(wrote'[p]) = n + 1
    BY <1>1, <1>2, <1>6, FS_AddElement, ZenonT(30)
  <2> DEFINE s == <<p, n + 1>>
  <2>2. s \in Slots
    BY <1>1, <1>6 DEF Slots
  <2>3. Slots' = Slots \ {s}
    <3>1. \A t \in Active \X (1 .. OPBLOCKS) :
            Cardinality(wrote'[t[1]]) < t[2] <=> Cardinality(wrote[t[1]]) < t[2] /\ t # s
      <4> TAKE t \in Active \X (1 .. OPBLOCKS)
      <4>1. t[1] \in Proc /\ t[2] \in 1 .. OPBLOCKS /\ t = <<t[1], t[2]>>
        BY DEF Active
      <4>2. CASE t[1] = p
        <5>. HIDE LogAssumption, LogSizes
        <5> QED BY <4>1, <4>2, <2>1, <1>1
      <4>3. CASE t[1] # p
        BY <4>1, <4>3, <1>2
      <4>4. QED
        BY <4>2, <4>3, ZenonT(30)
    <3>2. QED
      BY <3>1, <1>1, ZenonT(30) DEF Slots
  <2>4. Cardinality(Slots') = Cardinality(Slots) - 1
    BY <2>2, <2>3, SlotsBound, FS_RemoveElement, ZenonT(30)
  <2>5. Len(lh') <= Len(lh) + 1
    <3>. HIDE LogAssumption, LogSizes
    <3> QED BY <1>1, <1>2 DEF Absorbed
  <2>6. QED
    BY <1>1, <1>2, <1>4, <1>6, <2>1, <2>4, <2>5, SlotsBound
<1>7. QED
  BY <1>5, <1>6

(* A call that ends only gives slots back.                                 *)
LEMMA RoomEnd ==
  ASSUME IInv, NEW p \in Proc, EndOp(p) \/ EndOpLast(p)
  PROVE  Len(lh') + Cardinality(Slots') <= LOGSIZE - 2
<1>1. /\ Active' = Active \ {p} /\ lh' = lh
      /\ \A q \in Active' : wrote'[q] = wrote[q]
  <2>1. Active' = Active \ {p}
    BY ActiveSteps DEF IInv
  <2>2. QED
    BY <2>1, ZenonT(30) DEF EndOp, EndOpLast, IInv, TypeOK, Active
<1>2. Slots' \subseteq Slots
  BY <1>1, ZenonT(30) DEF Slots
<1>3. Cardinality(Slots') \in Nat /\ Cardinality(Slots') <= Cardinality(Slots)
  BY <1>2, SlotsBound, FS_Subset, FS_CardinalityType, ZenonT(30)
<1>4. QED
  BY <1>1, <1>3, SlotsBound, LogAssumption DEF IInv, TypeOK, Room

(* The room that begin_op() reserved stays enough, so log_write() and      *)
(* end_op() do not panic.                                                  *)
LEMMA NextRoom == IInv /\ [Next]_vars => Room'
<1> SUFFICES ASSUME IInv, [Next]_vars PROVE Room'
  OBVIOUS
<1> USE LogAssumption, LogSizes DEF IInv
<1>1. ASSUME NEW p \in Proc, BeginOp(p) PROVE Room'
  <2>1. Active' = Active \cup {p}
    BY <1>1, ActiveSteps, ZenonT(30)
  <2>2. \A q \in Proc : wrote'[q] = IF q = p THEN {} ELSE wrote[q]
    BY <1>1, ZenonT(30) DEF BeginOp, TypeOK
  <2>3. \A q \in Proc : pc'[q] = "log_write" => pc[q] = "log_write" /\ q # p
    BY <1>1, ZenonT(30) DEF BeginOp, TypeOK
  <2>4. wb' = wb /\ lh' = lh /\ panicked' = panicked
    BY <1>1 DEF BeginOp
  <2>5. Len(lh') + Cardinality(Slots') <= LOGSIZE - 2
    BY <1>1, RoomBegin
  <2>6. IsFiniteSet({}) /\ Cardinality({}) = 0 /\ OPBLOCKS >= 0
    BY FS_EmptySet, SMT
  <2>7. QED
    BY <2>1, <2>2, <2>3, <2>4, <2>5, <2>6, ZenonT(30) DEF Room
<1>2. ASSUME NEW p \in Proc, BeginOpSleep(p) PROVE Room'
  <2>1. Active' = Active
    BY <1>2, ActiveSteps, ZenonT(30)
  <2>2. Slots' = Slots
    BY <1>2, <2>1, ZenonT(30) DEF BeginOpSleep, Slots
  <2>3. QED
    BY <1>2, <2>1, <2>2, ZenonT(30) DEF BeginOpSleep, Room, TypeOK
<1>3. ASSUME NEW p \in Proc, NEW b \in Block, NEW v \in Val, Modify(p, b, v)
      PROVE Room'
  <2>1. Active' = Active /\ p \in Active
    BY <1>3, ActiveSteps, ZenonT(30) DEF Modify, Active, TypeOK
  <2>2. Slots' = Slots
    BY <1>3, <2>1, ZenonT(30) DEF Modify, Slots
  <2>3. ~panicked'
    <3>1. outstanding >= 1
      BY <2>1, ActiveCounted, ZenonT(30) DEF Control
    <3>2. Len(lh) <= LOGSIZE - 2 /\ Len(lh) \in Nat
      BY SlotsBound DEF Room, TypeOK
    <3>3. ~TooBig /\ ~(outstanding < 1)
      BY <3>1, <3>2 DEF TooBig, TypeOK
    <3>4. QED
      BY <1>3, <3>3, Zenon DEF Modify
  <2>4. QED
    BY <1>3, <2>1, <2>2, <2>3, ZenonT(30) DEF Modify, Room, TypeOK
<1>4. ASSUME NEW p \in Proc, LogWrite(p) PROVE Room'
  <2>1. Active' = Active /\ p \in Active
    BY <1>4, ActiveSteps, ZenonT(30) DEF LogWrite, Active, TypeOK
  <2>2. \A q \in Proc \ {p} : wrote'[q] = wrote[q] /\ pc'[q] = pc[q] /\ wb'[q] = wb[q]
    BY <1>4, ZenonT(30) DEF LogWrite, TypeOK
  <2>3. pc'[p] = "op" /\ panicked' = panicked
    BY <1>4, ZenonT(30) DEF LogWrite, TypeOK
  <2>4. QED
    BY <1>4, <2>1, <2>2, <2>3, RoomLogWrite, ZenonT(30) DEF Room
<1>5. ASSUME NEW p \in Proc, EndOp(p) PROVE Room'
  <2>1. Active' = Active \ {p} /\ ~committing
    <3>1. Active' = Active \ {p} /\ p \in Active
      BY <1>5, ActiveSteps, ZenonT(30)
    <3>2. QED
      BY <3>1, ZenonT(30) DEF Control
  <2>2. \A q \in Proc : wrote'[q] = IF q = p THEN {} ELSE wrote[q]
    BY <1>5, ZenonT(30) DEF EndOp, TypeOK
  <2>3. \A q \in Proc : pc'[q] = "log_write" => pc[q] = "log_write" /\ q # p
    BY <1>5, ZenonT(30) DEF EndOp, TypeOK, Wakeup
  <2>4. wb' = wb /\ lh' = lh /\ ~panicked'
    BY <1>5, <2>1, ZenonT(30) DEF EndOp
  <2>5. Len(lh') + Cardinality(Slots') <= LOGSIZE - 2
    BY <1>5, RoomEnd, ZenonT(30)
  <2>6. IsFiniteSet({}) /\ Cardinality({}) = 0 /\ OPBLOCKS >= 0
    BY FS_EmptySet, SMT
  <2>7. QED
    BY <2>1, <2>2, <2>3, <2>4, <2>5, <2>6, ZenonT(30) DEF Room
<1>6. ASSUME NEW p \in Proc, EndOpLast(p) PROVE Room'
  <2>1. Active' = Active \ {p} /\ ~committing
    <3>1. Active' = Active \ {p} /\ p \in Active
      BY <1>6, ActiveSteps, ZenonT(30)
    <3>2. QED
      BY <3>1 DEF Control
  <2>2. \A q \in Proc : wrote'[q] = IF q = p THEN {} ELSE wrote[q]
    BY <1>6, ZenonT(30) DEF EndOpLast, TypeOK
  <2>3. \A q \in Proc : pc'[q] = "log_write" => pc[q] = "log_write" /\ q # p
    BY <1>6, ZenonT(30) DEF EndOpLast, TypeOK
  <2>4. wb' = wb /\ lh' = lh /\ ~panicked'
    BY <1>6, <2>1, ZenonT(30) DEF EndOpLast
  <2>5. Len(lh') + Cardinality(Slots') <= LOGSIZE - 2
    BY <1>6, RoomEnd, ZenonT(30)
  <2>6. IsFiniteSet({}) /\ Cardinality({}) = 0 /\ OPBLOCKS >= 0
    BY FS_EmptySet, SMT
  <2>7. QED
    BY <2>1, <2>2, <2>3, <2>4, <2>5, <2>6 DEF Room
<1>7. ASSUME NEW p \in Proc, EndCommit(p) PROVE Room'
  <2>1. Active' = Active
    BY <1>7, ActiveSteps, ZenonT(30)
  <2>2. Slots' = Slots
    BY <1>7, <2>1, ZenonT(30) DEF EndCommit, Slots
  <2>3. \A q \in Proc : pc'[q] = "log_write" => pc[q] = "log_write"
    BY <1>7, ZenonT(30) DEF EndCommit, TypeOK, Wakeup
  <2>4. wrote' = wrote /\ wb' = wb /\ lh' = lh /\ panicked' = panicked
    BY <1>7, ZenonT(30) DEF EndCommit
  <2>5. QED
    BY <2>1, <2>2, <2>3, <2>4, ZenonT(30) DEF Room
<1>8. ASSUME WriteLog \/ WriteHead \/ InstallTrans PROVE Room'
  <2>1. Active' = Active /\ lh' = lh /\ wrote' = wrote /\ wb' = wb /\ pc' = pc
        /\ panicked' = panicked
    BY <1>8, ActiveKept, ZenonT(30) DEF DiskStep, WriteLog, WriteHead, InstallTrans, calls
  <2>2. Slots' = Slots
    BY <2>1, ZenonT(30) DEF Slots
  <2>3. QED
    BY <2>1, <2>2, ZenonT(30) DEF Room
<1>9. ASSUME ReadHead \/ ClearHead PROVE Room'
  <2>1. Active = {} /\ Active' = {}
    BY <1>9, ActiveKept, ZenonT(30) DEF DiskStep, ReadHead, ClearHead, Control
  <2>2. Cardinality(Slots') = 0
    <3>1. Slots' = {}
      BY <2>1, ZenonT(30) DEF Slots
    <3>2. QED
      BY <3>1, FS_EmptySet, ZenonT(30)
  <2>3. \A p \in Proc : wrote[p] = {}
    BY <2>1, ZenonT(30) DEF Room
  <2>4. wrote' = wrote /\ wb' = wb /\ pc' = pc /\ panicked' = panicked
    BY <1>9, ZenonT(30) DEF ReadHead, ClearHead, calls
  <2>5. Len(lh') <= LOGSIZE - 2 /\ Len(lh') \in Nat
    BY <1>9 DEF ReadHead, ClearHead, Header, TypeOK
  <2>6. Len(lh') + Cardinality(Slots') <= LOGSIZE - 2
    BY <2>2, <2>5
  <2>7. \A p \in Proc : /\ wrote'[p] = {} /\ IsFiniteSet(wrote'[p])
                        /\ Cardinality(wrote'[p]) <= OPBLOCKS
                        /\ pc'[p] = "log_write" =>
                             wb'[p] \in wrote'[p] \/ Cardinality(wrote'[p]) < OPBLOCKS
    BY <2>3, <2>4, ZenonT(30) DEF Room
  <2>8. ~panicked'
    BY <2>4, ZenonT(30) DEF Room
  <2>9. QED
    BY <2>6, <2>7, <2>8, ZenonT(30) DEF Room
<1>10. ASSUME NEW b \in Block, Evict(b) PROVE Room'
  <2>1. Active' = Active /\ lh' = lh /\ wrote' = wrote /\ wb' = wb /\ pc' = pc
        /\ panicked' = panicked
    BY <1>10, ActiveKept, ZenonT(30) DEF Evict, calls
  <2>2. Slots' = Slots
    BY <2>1, ZenonT(30) DEF Slots
  <2>3. QED
    BY <2>1, <2>2, ZenonT(30) DEF Room
<1>11. CASE Crash
  <2>1. Active' = {}
    BY <1>11, ActiveKept
  <2>2. Cardinality(Slots') = 0
    <3>1. Slots' = {}
      BY <2>1 DEF Slots
    <3>2. QED
      BY <3>1, FS_EmptySet
  <2>3. \A p \in Proc : wrote'[p] = {} /\ pc'[p] = "idle"
    BY <1>11 DEF Crash
  <2>4. Len(lh') = 0 /\ ~panicked'
    BY <1>11 DEF Crash
  <2>5. Len(lh') + Cardinality(Slots') <= LOGSIZE - 2
    BY <2>2, <2>4
  <2>6. \A p \in Proc : IsFiniteSet(wrote'[p]) /\ Cardinality(wrote'[p]) <= OPBLOCKS
    BY <2>3, FS_EmptySet
  <2>7. QED
    BY <2>1, <2>3, <2>4, <2>5, <2>6, ZenonT(30) DEF Room
<1>12. CASE UNCHANGED vars
  BY <1>12, ZenonT(30) DEF vars, calls, Active, Slots, Room
<1>13. QED
  BY <1>1, <1>2, <1>3, <1>4, <1>5, <1>6, <1>7, <1>8, <1>9, <1>10, <1>11, <1>12, ZenonT(30)
     DEF Next, Step, DiskStep

=============================================================================
