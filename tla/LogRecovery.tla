---------------------------- MODULE LogRecovery ----------------------------
(***************************************************************************)
(* What the cache, the log on disk and the home blocks hold while log.c    *)
(* commits and recovers; with LogProofs, that the log never overflows,     *)
(* implements the atomic disk, and keeps a finished group of calls.        *)
(***************************************************************************)
EXTENDS LogProofs

(* write_log() finds every block of the transaction in the cache, so its   *)
(* bread() changes nothing there.                                          *)
LEMMA WriteLogCached ==
  ASSUME IInv, WriteLog
  PROVE  /\ cache' = cache
         /\ LoopGoesOn => /\ tail \in 1 .. Len(lh) /\ tail \in 1 .. NLOG - 1
                          /\ dlog' = [dlog EXCEPT ![tail] = cache[lh[tail]]]
<1>1. CASE LoopGoesOn
  <2>1. tail \in 1 .. Len(lh) /\ Len(lh) \in Nat /\ Len(lh) <= LOGSIZE - 2
    BY <1>1, LogAssumption, SlotsBound DEF IInv, TypeOK, WriteLog, Copied, Room, LoopGoesOn
  <2>2. lh[tail] \in Block /\ cache[lh[tail]] # NoBuf
    BY <2>1 DEF IInv, TypeOK, Pinned, WriteLog, Range
  <2>3. bread(lh[tail]) = cache[lh[tail]]
    BY <2>2, ZenonT(30) DEF bread
  <2>4. cache' = cache /\ dlog' = [dlog EXCEPT ![tail] = cache[lh[tail]]]
    BY <1>1, <2>2, <2>3 DEF WriteLog, IInv, TypeOK
  <2>5. QED
    BY <2>1, <2>4, LogAssumption, LogSizes
<1>2. CASE ~LoopGoesOn
  BY <1>2 DEF WriteLog
<1>3. QED
  BY <1>1, <1>2, ZenonT(30)

(* install_trans() stays within the header and the log on disk.            *)
LEMMA InstallBounds ==
  ASSUME IInv, InstallTrans, LoopGoesOn
  PROVE  /\ tail \in 1 .. Len(lh) /\ tail \in 1 .. NLOG - 1
         /\ lh[tail] \in Block /\ dlog[tail] \in Val
<1>1. tail \in 1 .. Len(lh) /\ Len(lh) \in Nat /\ Len(lh) <= LOGSIZE - 2
  BY LogAssumption DEF IInv, TypeOK, InstallTrans, Copied, Header, LoopGoesOn
<1>2. QED
  BY <1>1, LogAssumption, LogSizes DEF IInv, TypeOK

(* A buffer stays pinned from log_write() until install_trans() has        *)
(* written it home; every other buffer equals the disk.                    *)
LEMMA NextPinned == IInv /\ [Next]_vars => Pinned'
<1> SUFFICES ASSUME IInv, [Next]_vars PROVE Pinned'
  BY ZenonT(30)
<1> USE LogAssumption DEF IInv, TypeOK, Pinned, Agrees, bufs, store
<1>1. ASSUME NEW p \in Proc, BeginOp(p) PROVE Pinned'
  BY <1>1, ZenonT(30) DEF BeginOp
<1>2. ASSUME NEW p \in Proc, BeginOpSleep(p) PROVE Pinned'
  BY <1>2 DEF BeginOpSleep
<1>3. ASSUME NEW p \in Proc, NEW b \in Block, NEW v \in Val, Modify(p, b, v)
      PROVE Pinned'
  <2>1. stage = "none" /\ wb[p] = NoBuf
    BY <1>3, ZenonT(30) DEF Modify, Control, Active
  <2>2. \A c \in Block : cache'[c] = IF c = b THEN v ELSE cache[c]
    BY <1>3, ZenonT(30) DEF Modify
  <2>3. \A q \in Proc : wb'[q] = IF q = p THEN b ELSE wb[q]
    BY <1>3, ZenonT(30) DEF Modify
  <2>4. QED
    BY <1>3, <2>1, <2>2, <2>3 DEF Modify
<1>4. ASSUME NEW p \in Proc, LogWrite(p) PROVE Pinned'
  <2>1. stage = "none" /\ wb[p] \in Block
    BY <1>4, ZenonT(30) DEF LogWrite, Control, Active
  <2>2. Range(lh') = Range(lh) \cup {wb[p]}
    BY <1>4, <2>1, RangeAppend DEF LogWrite, Absorbed
  <2>3. \A q \in Proc : wb'[q] = IF q = p THEN NoBuf ELSE wb[q]
    BY <1>4, ZenonT(30) DEF LogWrite
  <2>4. cache[wb[p]] # NoBuf
    BY <2>1, ZenonT(30)
  <2>5. QED
    BY <1>4, <2>1, <2>2, <2>3, <2>4 DEF LogWrite
<1>5. ASSUME NEW p \in Proc, EndOp(p) PROVE Pinned'
  BY <1>5 DEF EndOp
<1>6. ASSUME NEW p \in Proc, EndOpLast(p) PROVE Pinned'
  <2>1. stage = "none" /\ stage' \in {"write_log", "done"} /\ (stage' = "done" => lh = <<>>)
    BY <1>6 DEF EndOpLast, CommitStage, Control, Active
  <2>2. Range(<<>>) = {}
    BY DEF Range
  <2>3. QED
    BY <1>6, <2>1, <2>2, ZenonT(30) DEF EndOpLast
<1>7. ASSUME NEW p \in Proc, EndCommit(p) PROVE Pinned'
  <2>1. Range(<<>>) = {}
    BY DEF Range
  <2>2. QED
    BY <1>7, <2>1, ZenonT(30) DEF EndCommit, Header
<1>8. CASE WriteLog
  BY <1>8, WriteLogCached, ZenonT(30) DEF WriteLog, calls
<1>9. CASE WriteHead
  <2>1. Range(lh) = {lh[i] : i \in 1 .. Len(lh)}
    BY DEF Range
  <2>2. QED
    BY <1>9, <2>1 DEF WriteHead, calls, Control
<1>10. CASE ReadHead
  BY <1>10, ZenonT(30) DEF ReadHead, calls, Control
<1>11. CASE InstallTrans
  <2>1. CASE LoopGoesOn
    <3>1. /\ \A c \in Block : cache'[c] = IF c = lh[tail] THEN dlog[tail] ELSE cache[c]
          /\ \A c \in Block : disk'[c] = IF c = lh[tail] THEN dlog[tail] ELSE disk[c]
          /\ dirty' = dirty \ {lh[tail]} /\ tail' = tail + 1 /\ lh' = lh
          /\ stage' = stage /\ stage = "install" /\ committing' = committing /\ wb' = wb
      <4>. HIDE LogAssumption DEF Pinned, Agrees, bufs, store
      <4> QED BY <1>11, <2>1, InstallBounds DEF InstallTrans, calls
    <3>2. {lh[i] : i \in tail .. Len(lh)} \ {lh[tail]} = {lh[i] : i \in tail + 1 .. Len(lh)}
      <4>. HIDE LogAssumption DEF TypeOK, Pinned, Agrees, bufs, store
      <4> QED BY <1>11, <2>1, InstallBounds DEF Header
    <3>3. lh[tail] \in Block /\ dlog[tail] \in Val
      BY <1>11, <2>1, InstallBounds, ZenonT(30)
    <3>4. /\ \A b \in dirty' : cache'[b] # NoBuf
          /\ \A b \in Block \ dirty' : Agrees(b)' \/ \E p \in Proc : wb'[p] = b
          /\ \A p \in Proc : wb'[p] # NoBuf => cache'[wb'[p]] # NoBuf
      BY <3>1, <3>3
    <3>5. /\ committing' => dirty' = {lh'[i] : i \in tail' .. Len(lh')}
          /\ ~committing' => dirty' = {}
      <4> HIDE DEF IInv, TypeOK, Pinned
      <4>0. lh' = lh /\ tail' = tail + 1
        BY <3>1
      <4>1. {lh'[i] : i \in tail' .. Len(lh')} = {lh[i] : i \in tail + 1 .. Len(lh)}
        BY <4>0, Zenon
      <4> USE DEF IInv, TypeOK, Pinned
      <4>2. committing => dirty = {lh[i] : i \in tail .. Len(lh)}
        BY <3>1, ZenonT(30)
      <4>3. ~committing => dirty = {}
        BY <3>1, ZenonT(30)
      <4>4. QED
        BY <3>1, <3>2, <4>1, <4>2, <4>3, Zenon
    <3>6. QED
      BY <3>1, <3>4, <3>5, ZenonT(30)
  <2>2. CASE ~LoopGoesOn
    <3>1. stage = "install" /\ tail = Len(lh) + 1
      BY <1>11, <2>2 DEF InstallTrans, LoopGoesOn, Copied
    <3>2. dirty = {}
      BY <3>1
    <3>3. QED
      BY <1>11, <2>2, <3>2, ZenonT(30) DEF InstallTrans, calls
  <2>3. QED
    BY <2>1, <2>2
<1>12. CASE ClearHead
  <2>1. Range(<<>>) = {}
    BY DEF Range
  <2>2. dirty = {} /\ \A p \in Proc : wb[p] = NoBuf
    <3>1. stage = "clear" /\ Active = {}
      BY <1>12, ZenonT(30) DEF ClearHead, Control
    <3>2. \A p \in Proc : pc[p] # "log_write"
      BY <3>1, ZenonT(30) DEF Active
    <3>3. QED
      BY <3>1, <3>2, ZenonT(30) DEF Control
  <2>3. QED
    BY <1>12, <2>1, <2>2, ZenonT(30) DEF ClearHead, calls
<1>13. ASSUME NEW b \in Block, Evict(b) PROVE Pinned'
  BY <1>13 DEF Evict, calls
<1>14. CASE Crash
  BY <1>14, ZenonT(30) DEF Crash
<1>15. CASE UNCHANGED vars
  BY <1>15 DEF vars, calls
<1>16. QED
  BY <1>1, <1>2, <1>3, <1>4, <1>5, <1>6, <1>7, <1>8, <1>9, <1>10, <1>11,
     <1>12, <1>13, <1>14, <1>15, ZenonT(30), ZenonT(30) DEF Next, Step, DiskStep

(* The loops of write_log() and install_trans() copy block after block,    *)
(* and what they have copied stays copied.                                 *)
LEMMA NextCopied == IInv /\ [Next]_vars => Copied'
<1> SUFFICES ASSUME IInv, [Next]_vars PROVE Copied'
  OBVIOUS
<1> USE LogAssumption DEF IInv, TypeOK, Copied, bufs, store
<1>1. ASSUME NEW p \in Proc, BeginOp(p) PROVE Copied'
  BY <1>1, ZenonT(30) DEF BeginOp
<1>2. ASSUME NEW p \in Proc, BeginOpSleep(p) PROVE Copied'
  BY <1>2, ZenonT(30) DEF BeginOpSleep
<1>3. ASSUME NEW p \in Proc, NEW b \in Block, NEW v \in Val, Modify(p, b, v)
      PROVE Copied'
  BY <1>3, ZenonT(30) DEF Modify, Control, Active
<1>4. ASSUME NEW p \in Proc, LogWrite(p) PROVE Copied'
  BY <1>4, ZenonT(30) DEF LogWrite, Control, Active
<1>5. ASSUME NEW p \in Proc, EndOp(p) PROVE Copied'
  BY <1>5, ZenonT(30) DEF EndOp
<1>6. ASSUME NEW p \in Proc, EndOpLast(p) PROVE Copied'
  BY <1>6 DEF EndOpLast, CommitStage
<1>7. ASSUME NEW p \in Proc, EndCommit(p) PROVE Copied'
  BY <1>7, ZenonT(30) DEF EndCommit
<1>8. CASE WriteLog
  <2>1. CASE LoopGoesOn
    <3>0. /\ cache' = cache /\ tail \in 1 .. Len(lh) /\ tail \in 1 .. NLOG - 1
          /\ dlog' = [dlog EXCEPT ![tail] = cache[lh[tail]]]
      BY <1>8, <2>1, WriteLogCached, ZenonT(30)
    <3>1. /\ stage = "write_log" /\ stage' = stage /\ tail' = tail + 1
          /\ lh' = lh /\ cache' = cache /\ tail \in 1 .. Len(lh)
          /\ tail \in 1 .. NLOG - 1
          /\ dlog' = [dlog EXCEPT ![tail] = cache[lh[tail]]]
      BY <1>8, <2>1, <3>0, ZenonT(30) DEF WriteLog
    <3>2. \A i \in 1 .. tail - 1 : dlog'[i] = dlog[i]
      BY <3>1
    <3>3. dlog'[tail] = cache[lh[tail]]
      BY <3>1, ZenonT(30)
    <3>4. \A i \in 1 .. tail - 1 : dlog'[i] = cache[lh[i]]
      BY <3>1, <3>2, ZenonT(30)
    <3>5. \A i \in 1 .. tail' - 1 : i \in 1 .. tail - 1 \/ i = tail
      <4>. HIDE LogAssumption DEF IInv, TypeOK, Copied, bufs, store
      <4> QED BY <3>1
    <3>6. QED
      BY <3>1, <3>3, <3>4, <3>5
  <2>2. CASE ~LoopGoesOn
    BY <1>8, <2>2, WriteLogCached DEF WriteLog, LoopGoesOn, calls
  <2>3. QED
    BY <2>1, <2>2, ZenonT(30)
<1>9. CASE WriteHead
  BY <1>9 DEF WriteHead, calls
<1>10. CASE ReadHead
  BY <1>10 DEF ReadHead, calls, Control
<1>11. CASE InstallTrans
  <2>1. CASE LoopGoesOn
    <3>1. /\ \A c \in Block : cache'[c] = IF c = lh[tail] THEN dlog[tail] ELSE cache[c]
          /\ \A c \in Block : disk'[c] = IF c = lh[tail] THEN dlog[tail] ELSE disk[c]
          /\ tail' = tail + 1 /\ lh' = lh /\ dlog' = dlog
          /\ stage' = stage /\ stage = "install" /\ committing' = committing
      BY <1>11, <2>1, InstallBounds, ZenonT(30) DEF InstallTrans, calls
    <3>2. \A i \in 1 .. Len(lh) : lh[i] \in Block /\ (lh[i] = lh[tail] => i = tail)
      <4>. HIDE LogAssumption DEF Copied, bufs, store
      <4> QED BY <1>11, <2>1, InstallBounds DEF Header
    <3>3. tail \in 1 .. Len(lh) /\ Len(lh) \in Nat
      <4>. HIDE LogAssumption DEF IInv, TypeOK, Copied, bufs, store
      <4> QED BY <1>11, <2>1, InstallBounds
    <3>4. \A i \in 1 .. tail : disk'[lh[i]] = dlog[i]
      <4>1. ASSUME NEW i \in 1 .. tail - 1 PROVE disk'[lh[i]] = dlog[i]
        <5>1. disk[lh[i]] = dlog[i]
          BY <3>1, ZenonT(30)
        <5>2. lh[i] \in Block /\ lh[i] # lh[tail]
          BY <3>2, <3>3
        <5>3. QED
          BY <3>1, <5>1, <5>2, ZenonT(30)
      <4>2. disk'[lh[tail]] = dlog[tail]
        BY <3>1, <3>2, <3>3, ZenonT(30)
      <4>3. QED
        BY <3>3, <4>1, <4>2
    <3>5. committing => \A i \in tail + 1 .. Len(lh) : cache'[lh[i]] = dlog[i]
      BY <3>1, <3>2, <3>3
    <3>6. QED
      BY <3>1, <3>3, <3>4, <3>5
  <2>2. CASE ~LoopGoesOn
    BY <1>11, <2>2 DEF InstallTrans, LoopGoesOn, calls
  <2>3. QED
    <3>. HIDE LogAssumption DEF IInv, TypeOK, Copied, bufs, store
    <3> QED BY <2>1, <2>2
<1>12. CASE ClearHead
  BY <1>12, ZenonT(30) DEF ClearHead, calls
<1>13. ASSUME NEW b \in Block, Evict(b) PROVE Copied'
  <2>1. /\ \A c \in Block \ {b} : cache'[c] = cache[c]
        /\ UNCHANGED <<committing, lh, stage, tail, disk, dlog>>
    BY <1>13, ZenonT(30) DEF Evict, calls
  <2>2. /\ stage \in {"write_log", "write_head"} => \A i \in 1 .. Len(lh) : lh[i] # b
        /\ stage = "install" /\ committing => \A i \in tail .. Len(lh) : lh[i] # b
    <3>1. b \notin dirty
      BY <1>13, ZenonT(30) DEF Evict
    <3>2. stage \in {"write_log", "write_head"} => \A i \in 1 .. Len(lh) : lh[i] \in dirty
      BY DEF Pinned, Range
    <3>3. stage = "install" /\ committing => \A i \in tail .. Len(lh) : lh[i] \in dirty
      BY DEF Pinned
    <3>4. QED
      <4>. HIDE LogAssumption DEF IInv, TypeOK, Copied, bufs, store
      <4> QED BY <3>1, <3>2, <3>3
  <2>3. \A i \in 1 .. Len(lh) : lh[i] \in Block
    OBVIOUS
  <2>4. CASE stage = "write_log"
    BY <2>1, <2>2, <2>3, <2>4
  <2>5. CASE stage = "write_head"
    BY <2>1, <2>2, <2>3, <2>5, ZenonT(30)
  <2>6. CASE stage = "install"
    BY <2>1, <2>2, <2>3, <2>6, SMTT(30)
  <2>7. QED
    BY <2>1, <2>4, <2>5, <2>6, ZenonT(30)
<1>14. CASE Crash
  BY <1>14 DEF Crash
<1>15. CASE UNCHANGED vars
  BY <1>15, ZenonT(30) DEF vars, calls
<1>16. QED
  BY <1>1, <1>2, <1>3, <1>4, <1>5, <1>6, <1>7, <1>8, <1>9, <1>10, <1>11,
     <1>12, <1>13, <1>14, <1>15, ZenonT(30), ZenonT(30) DEF Next, Step, DiskStep

(* The invariant holds after mkfs and the first boot.                      *)
LEMMA InitIInv == Init => IInv
<1> SUFFICES ASSUME Init PROVE IInv
  OBVIOUS
<1> USE LogAssumption, LogSizes DEF Init, Boot
<1>1. TypeOK
  <2>1. lh \in Seq(Block) /\ dhead \in Seq(Block) /\ stage \in Stages
    BY DEF Stages
  <2>2. /\ wrote \in [Proc -> SUBSET Block] /\ wb \in [Proc -> Block \cup {NoBuf}]
        /\ cache \in [Block -> Val \cup {NoBuf}] /\ dlog \in [1 .. NLOG - 1 -> Val]
    BY ZenonT(30)
  <2>3. QED
    BY <2>1, <2>2, ZenonT(30) DEF TypeOK
<1>2. Active = {} /\ Cardinality(Active) = 0
  BY FS_EmptySet, ZenonT(30) DEF Active
<1>3. Control
  BY <1>2, ZenonT(30) DEF Control
<1>4. Header
  BY DEF Header
<1>5. Room
  <2>1. Cardinality(Slots) = 0
    <3>1. Slots = {}
      BY <1>2, ZenonT(30) DEF Slots
    <3>2. QED
      BY <3>1, FS_EmptySet
  <2>2. QED
    BY <1>2, <2>1, FS_EmptySet DEF Room
<1>6. Pinned
  BY ZenonT(30) DEF Pinned, Agrees
<1>7. Copied
  BY ZenonT(30) DEF Copied
<1>8. QED
  BY <1>1, <1>3, <1>4, <1>5, <1>6, <1>7 DEF IInv

(* The invariant holds in every state of the log.                          *)
LEMMA Invariance == Spec => []IInv
<1>1. IInv /\ [Next]_vars => IInv'
  BY NextTypeOK, NextControl, NextHeader, NextRoom, NextPinned, NextCopied, ZenonT(30) DEF IInv
<1>2. QED
  BY InitIInv, <1>1, PTL DEF Spec

(* However calls and commits overlap, begin_op() has reserved room for     *)
(* every block that a call in progress may still log, so log_write() and   *)
(* end_op() never panic and write_log() stays inside the log on disk.      *)
THEOREM LogReserved == Spec => []Reserved
<1>1. IInv => Reserved
  <2> SUFFICES ASSUME IInv PROVE Reserved
    BY ZenonT(30)
  <2>1. DOMAIN lh = 1 .. Len(lh)
    BY DEF IInv, TypeOK
  <2>2. QED
    BY <2>1, ZenonT(30) DEF IInv, Reserved, Room, Header
<1>2. QED
  BY Invariance, <1>1, PTL

-----------------------------------------------------------------------------
(* What recovery reads from the log, and what it leaves alone.             *)
LEMMA RecoveredBlocks ==
  IInv => /\ Recovered \in [Block -> Val]
          /\ \A i \in 1 .. Len(dhead) : dhead[i] \in Block /\ Recovered[dhead[i]] = dlog[i]
          /\ \A b \in Block \ Range(dhead) : Recovered[b] = disk[b]
<1> SUFFICES ASSUME TypeOK, Header
             PROVE  /\ Recovered \in [Block -> Val]
                    /\ \A i \in 1 .. Len(dhead) :
                         dhead[i] \in Block /\ Recovered[dhead[i]] = dlog[i]
                    /\ \A b \in Block \ Range(dhead) : Recovered[b] = disk[b]
  BY ZenonT(30) DEF IInv
<1> USE LogAssumption, LogSizes
<1>1. DOMAIN dhead = 1 .. Len(dhead) /\ \A i \in 1 .. Len(dhead) : dhead[i] \in Block
  BY DEF TypeOK
<1>2. Len(dhead) \in Nat /\ 1 .. Len(dhead) \subseteq 1 .. NLOG - 1
  BY DEF TypeOK, Header
<1>3. ASSUME NEW i \in 1 .. Len(dhead)
      PROVE  Recovered[dhead[i]] = dlog[i] /\ dlog[i] \in Val
  <2> DEFINE k == CHOOSE j \in DOMAIN dhead : dhead[j] = dhead[i]
  <2>1. k \in DOMAIN dhead /\ dhead[k] = dhead[i]
    BY <1>1
  <2> HIDE DEF k
  <2>2. k = i
    BY <1>1, <2>1, ZenonT(30) DEF Header
  <2>3. dhead[i] \in Range(dhead) /\ dhead[i] \in Block
    BY <1>1, ZenonT(30) DEF Range
  <2>4. Recovered[dhead[i]] = dlog[k]
    <3>. HIDE LogAssumption, LogSizes
    <3> QED BY <2>3, ZenonT(30) DEF Recovered, k
  <2>5. QED
    BY <1>2, <2>2, <2>4, ZenonT(30) DEF TypeOK
<1>4. \A b \in Block \ Range(dhead) : Recovered[b] = disk[b]
  BY ZenonT(30) DEF Recovered
<1>5. \A b \in Block : Recovered[b] \in Val
  <2> TAKE b \in Block
  <2>1. CASE b \in Range(dhead)
    <3>1. PICK i \in 1 .. Len(dhead) : b = dhead[i]
      BY <1>1, <2>1 DEF Range
    <3>2. QED
      BY <1>3, <3>1
  <2>2. CASE b \notin Range(dhead)
    BY <1>4, <2>2, ZenonT(30) DEF TypeOK
  <2>3. QED
    BY <2>1, <2>2, ZenonT(30)
<1>6. Recovered = [b \in Block |-> Recovered[b]]
  BY DEF Recovered
<1>7. QED
  BY <1>1, <1>3, <1>4, <1>5, <1>6, ZenonT(30)

(* While no call is in progress, a block that is not pinned reads as it is *)
(* on the disk.                                                            *)
LEMMA CleanReads ==
  ASSUME IInv, Active = {}
  PROVE  \A b \in Block \ dirty : bread(b) = disk[b]
<1>1. \A p \in Proc : wb[p] = NoBuf
  BY DEF IInv, Control, Active
<1>2. QED
  BY <1>1, LogAssumption DEF IInv, TypeOK, Pinned, Agrees, bread

(* The header on disk is empty outside recovery and the end of commit().   *)
LEMMA NothingToRecover == dhead = <<>> => Recovered = [b \in Block |-> disk[b]]
<1>1. Range(<<>>) = {}
  BY DEF Range
<1>2. QED
  BY <1>1 DEF Recovered

(* Once the last outstanding end_op() has returned, everything the calls   *)
(* wrote survives a crash.                                                 *)
THEOREM LogDurable == Spec => []Durable
<1>1. IInv => Durable
  <2> SUFFICES ASSUME IInv, stage = "none", outstanding = 0 PROVE Recovered = View
    BY DEF Durable
  <2>1. Active = {}
    BY ActiveFinite, FS_EmptySet, ZenonT(30) DEF IInv, Control
  <2>2. dhead = <<>> /\ lh = <<>>
    BY <2>1 DEF IInv, Header
  <2>3. dirty = {}
    BY <2>2 DEF IInv, Pinned, Range
  <2>4. Recovered = [b \in Block |-> disk[b]]
    BY <2>2, NothingToRecover
  <2>5. \A b \in Block : bread(b) = disk[b]
    BY <2>1, <2>3, CleanReads
  <2>6. QED
    BY <2>4, <2>5 DEF View, Booted
<1>2. QED
  BY Invariance, <1>1, PTL

-----------------------------------------------------------------------------
(* The refinement: WriteHead is the one step at which the abstract disk    *)
(* commits; every other step of commit() and of recovery is invisible.     *)

(* A step that leaves the store, the cache and Booted alone leaves what    *)
(* calls read and what a crash would leave.                                *)
LEMMA SameView ==
  ASSUME UNCHANGED <<disk, dlog, dhead, cache>>, Booted' = Booted
  PROVE  Recovered' = Recovered /\ View' = View
BY DEF Recovered, View, bread

(* The header write makes exactly what the calls read durable.             *)
LEMMA WriteHeadCommits ==
  ASSUME IInv, IInv', WriteHead
  PROVE  Abs!Commit
<1>1. /\ committing /\ committing' /\ Active = {} /\ Active' = {}
      /\ cache' = cache /\ disk' = disk /\ dlog' = dlog /\ dhead' = lh
      /\ stage = "write_head"
  <2>1. Active' = Active
    BY ActiveKept DEF DiskStep
  <2>2. QED
    BY <2>1, ZenonT(30) DEF WriteHead, IInv, Control, calls, bufs
<1>2. View = [b \in Block |-> bread(b)] /\ View' = View
  BY <1>1, ZenonT(30) DEF View, Booted, bread
<1>3. \A b \in Block : Recovered'[b] = bread(b)
  <2>0. /\ \A i \in 1 .. Len(lh) : Recovered'[lh[i]] = dlog[i]
        /\ \A c \in Block \ Range(lh) : Recovered'[c] = disk[c]
    <3>1. (/\ Recovered \in [Block -> Val]
           /\ \A i \in 1 .. Len(dhead) : dhead[i] \in Block /\ Recovered[dhead[i]] = dlog[i]
           /\ \A b \in Block \ Range(dhead) : Recovered[b] = disk[b])'
      BY RecoveredBlocks, PTL
    <3>2. QED
      BY <1>1, <3>1, ZenonT(30)
  <2> TAKE b \in Block
  <2>1. CASE b \in Range(lh)
    <3>0. DOMAIN lh = 1 .. Len(lh)
      BY DEF IInv, TypeOK
    <3>1. PICK i \in 1 .. Len(lh) : b = lh[i]
      BY <2>1, <3>0, ZenonT(30) DEF Range
    <3>2. Recovered'[b] = cache[b]
      BY <1>1, <2>0, <3>1, ZenonT(30) DEF IInv, Copied
    <3>3. cache[b] # NoBuf
      BY <1>1, <2>1, ZenonT(30) DEF IInv, Pinned
    <3>4. QED
      BY <3>2, <3>3, ZenonT(30) DEF bread
  <2>2. CASE b \notin Range(lh)
    <3>1. bread(b) = disk[b]
      BY <1>1, <2>2, CleanReads DEF IInv, Pinned
    <3>2. QED
      BY <2>0, <2>2, <3>1
  <2>3. QED
    BY <2>1, <2>2
<1>4. Recovered' = View
  <2>1. Recovered' = [b \in Block |-> Recovered'[b]]
    BY DEF Recovered
  <2>2. QED
    BY <1>2, <1>3, <2>1
<1>5. QED
  BY <1>1, <1>2, <1>4 DEF Abs!Commit

(* Writing a logged block home changes neither view.                       *)
LEMMA InstallInvisible ==
  ASSUME IInv, InstallTrans
  PROVE  Recovered' = Recovered /\ View' = View
<1>1. CASE ~LoopGoesOn
  <2>1. UNCHANGED <<disk, dlog, dhead, cache>> /\ Booted' = Booted
    BY <1>1 DEF InstallTrans, bufs, calls, Booted
  <2>2. QED
    BY <2>1, SameView
<1>2. CASE LoopGoesOn
  <2>1. /\ tail \in 1 .. Len(lh) /\ lh[tail] \in Block /\ dlog[tail] \in Val
        /\ dhead = lh /\ stage = "install"
    BY <1>2, InstallBounds DEF InstallTrans, IInv, Header
  <2>2. /\ \A b \in Block \ {lh[tail]} : disk'[b] = disk[b] /\ cache'[b] = cache[b]
        /\ disk'[lh[tail]] = dlog[tail] /\ cache'[lh[tail]] = dlog[tail]
        /\ dhead' = dhead /\ dlog' = dlog /\ stage' = stage /\ committing' = committing
    BY <1>2, <2>1, ZenonT(30) DEF InstallTrans, calls, IInv, TypeOK
  <2>3. lh[tail] \in Range(dhead)
    BY <2>1, SMTT(30) DEF Range, IInv, TypeOK
  <2>4. \A b \in Block \ Range(dhead) : disk'[b] = disk[b]
    BY <2>2, <2>3
  <2>5. Recovered' = Recovered
    BY <2>2, <2>4 DEF Recovered
  <2>6. CASE committing
    <3>1. cache[lh[tail]] = dlog[tail] /\ dlog[tail] # NoBuf
      BY <2>1, <2>6, LogAssumption DEF IInv, Copied
    <3>2. \A b \in Block : bread(b)' = bread(b)
      <4> TAKE b \in Block
      <4>1. CASE b = lh[tail]
        BY <2>2, <3>1, <4>1 DEF bread
      <4>2. CASE b # lh[tail]
        BY <2>2, <4>2 DEF bread
      <4>3. QED
        BY <4>1, <4>2
    <3>3. QED
      BY <2>2, <2>5, <2>6, <3>2 DEF View, Booted
  <2>7. CASE ~committing
    BY <2>1, <2>2, <2>5, <2>7 DEF View, Booted
  <2>8. QED
    BY <2>5, <2>6, <2>7
<1>3. QED
  BY <1>1, <1>2

(* When install_trans() is done the header can go: the home blocks hold    *)
(* the whole transaction.                                                  *)
LEMMA ClearInvisible ==
  ASSUME IInv, ClearHead
  PROVE  Recovered' = Recovered /\ View' = View
<1>1. /\ stage = "clear" /\ dhead = lh /\ dirty = {} /\ Active = {}
      /\ dhead' = <<>> /\ UNCHANGED <<disk, dlog, cache, committing>>
      /\ stage' = IF committing THEN "done" ELSE "none"
  BY DEF ClearHead, IInv, Header, Pinned, Control, calls, bufs
<1>2. \A b \in Block : Recovered[b] = disk[b]
  <2> TAKE b \in Block
  <2>0. /\ \A i \in 1 .. Len(dhead) : dhead[i] \in Block /\ Recovered[dhead[i]] = dlog[i]
        /\ \A c \in Block \ Range(dhead) : Recovered[c] = disk[c]
    BY RecoveredBlocks DEF IInv
  <2>1. CASE b \in Range(dhead)
    <3>1. PICK i \in 1 .. Len(dhead) : b = dhead[i]
      BY <2>1 DEF Range, IInv, TypeOK
    <3>2. disk[b] = dlog[i]
      BY <1>1, <3>1 DEF IInv, Copied
    <3>3. QED
      BY <2>0, <3>1, <3>2
  <2>2. CASE b \notin Range(dhead)
    BY <2>0, <2>2
  <2>3. QED
    BY <2>1, <2>2
<1>3. Recovered = [b \in Block |-> disk[b]]
  <2>1. Recovered = [b \in Block |-> Recovered[b]]
    BY DEF Recovered
  <2>2. QED
    BY <1>2, <2>1
<1>4. Recovered' = [b \in Block |-> disk[b]]
  <2>1. (dhead = <<>> => Recovered = [b \in Block |-> disk[b]])'
    BY NothingToRecover, PTL
  <2>2. QED
    BY <1>1, <2>1, ZenonT(30)
<1>5. CASE committing
  BY <1>1, <1>3, <1>4, <1>5 DEF View, Booted, bread
<1>6. CASE ~committing
  <2>1. View = Recovered
    BY <1>1, <1>6 DEF View, Booted
  <2>2. \A b \in Block : bread(b)' = disk[b]
    <3>1. \A b \in Block : bread(b) = disk[b]
      BY <1>1, CleanReads
    <3>2. QED
      BY <1>1, <3>1 DEF bread
  <2>3. View' = [b \in Block |-> disk[b]]
    BY <1>1, <1>6, <2>2, ZenonT(30) DEF View, Booted
  <2>4. QED
    BY <1>3, <1>4, <2>1, <2>3
<1>7. QED
  BY <1>5, <1>6

(* Every step of log.c is a step of the atomic disk or leaves it alone.    *)
LEMMA StepRefines == IInv /\ IInv' /\ [Next]_vars => [Abs!Next]_(Abs!vars)
<1> SUFFICES ASSUME IInv, IInv', [Next]_vars PROVE [Abs!Next]_(Abs!vars)
  BY ZenonT(30)
<1>0. TypeOK
  BY ZenonT(30) DEF IInv
<1>1. ASSUME NEW p \in Proc, BeginOp(p) PROVE Abs!Begin(p)
  <2>1. UNCHANGED <<disk, dlog, dhead, cache>> /\ Booted' = Booted
    BY <1>1, ZenonT(30) DEF BeginOp, bufs, store, Booted
  <2>2. QED
    BY <1>0, <1>1, <2>1, SameView, ActiveSteps, ZenonT(30) DEF Abs!Begin
<1>2. ASSUME NEW p \in Proc, BeginOpSleep(p) PROVE UNCHANGED Abs!vars
  <2>1. UNCHANGED <<disk, dlog, dhead, cache>> /\ Booted' = Booted
    BY <1>2, ZenonT(30) DEF BeginOpSleep, bufs, store, Booted
  <2>2. QED
    BY <1>0, <1>2, <2>1, SameView, ActiveSteps, ZenonT(30) DEF Abs!vars
<1>3. ASSUME NEW p \in Proc, NEW b \in Block, NEW v \in Val, Modify(p, b, v)
      PROVE  Abs!Write(p, b, v)
  <2>1. Active' = Active /\ p \in Active
    BY <1>0, <1>3, ActiveSteps, ZenonT(30) DEF Modify, Active
  <2>2. stage = "none" /\ stage' = "none"
    BY <1>3, <2>1, ZenonT(30) DEF Modify, IInv, Control
  <2>3. Recovered' = Recovered
    <3>1. UNCHANGED <<disk, dlog, dhead>>
      BY <1>3, ZenonT(30) DEF Modify, store
    <3>2. QED
      BY <3>1 DEF Recovered
  <2>4. View = [c \in Block |-> bread(c)] /\ View' = [c \in Block |-> bread(c)']
    BY <2>2, ZenonT(30) DEF View, Booted
  <2>5. \A c \in Block : bread(c)' = IF c = b THEN v ELSE bread(c)
    <3>1. cache' = [cache EXCEPT ![b] = v] /\ disk' = disk /\ v # NoBuf
      BY <1>3, LogAssumption, ZenonT(30) DEF Modify, store
    <3>2. \A c \in Block : cache'[c] = IF c = b THEN v ELSE cache[c]
      BY <1>0, <3>1, ZenonT(30) DEF TypeOK
    <3>3. QED
      BY <3>1, <3>2, ZenonT(30) DEF bread
  <2>6. View' = [View EXCEPT ![b] = v]
    BY <2>4, <2>5, ZenonT(30)
  <2>7. QED
    BY <2>1, <2>3, <2>6, ZenonT(30) DEF Abs!Write
<1>4. ASSUME NEW p \in Proc, LogWrite(p) PROVE UNCHANGED Abs!vars
  <2>1. UNCHANGED <<disk, dlog, dhead, cache>> /\ Booted' = Booted
    BY <1>4, ZenonT(30) DEF LogWrite, store, Booted
  <2>2. QED
    BY <1>0, <1>4, <2>1, SameView, ActiveSteps, ZenonT(30) DEF Abs!vars
<1>5. ASSUME NEW p \in Proc, EndOp(p) PROVE Abs!End(p)
  <2>1. UNCHANGED <<disk, dlog, dhead, cache>> /\ Booted' = Booted
    BY <1>5, ZenonT(30) DEF EndOp, bufs, store, Booted
  <2>2. QED
    BY <1>0, <1>5, <2>1, SameView, ActiveSteps, ZenonT(30) DEF Abs!End
<1>6. ASSUME NEW p \in Proc, EndOpLast(p) PROVE Abs!End(p)
  <2>1. stage = "none"
    BY <1>0, <1>6, ActiveSteps, ZenonT(30) DEF IInv, Control
  <2>2. UNCHANGED <<disk, dlog, dhead, cache>> /\ Booted' = Booted
    BY <1>6, <2>1, ZenonT(30) DEF EndOpLast, bufs, store, Booted
  <2>3. QED
    BY <1>0, <1>6, <2>2, SameView, ActiveSteps, ZenonT(30) DEF Abs!End
<1>7. ASSUME NEW p \in Proc, EndCommit(p) PROVE UNCHANGED Abs!vars
  <2>1. UNCHANGED <<disk, dlog, dhead, cache>> /\ Booted' = Booted
    BY <1>7, ZenonT(30) DEF EndCommit, bufs, store, Booted, IInv, Control
  <2>2. QED
    BY <1>0, <1>7, <2>1, SameView, ActiveSteps, ZenonT(30) DEF Abs!vars
<1>8. CASE WriteLog
  <2>1. /\ cache' = cache /\ disk' = disk /\ dhead = <<>> /\ dhead' = <<>>
        /\ committing /\ committing' /\ Active' = Active
    BY <1>8, WriteLogCached, ActiveKept, ZenonT(30)
       DEF WriteLog, IInv, Header, Control, calls, DiskStep
  <2>2. Range(<<>>) = {}
    BY DEF Range
  <2>3. Recovered' = Recovered
    BY <2>1, <2>2, ZenonT(30) DEF Recovered
  <2>4. View' = View
    BY <2>1, ZenonT(30) DEF View, Booted, bread
  <2>5. QED
    BY <2>1, <2>3, <2>4, ZenonT(30) DEF Abs!vars
<1>9. CASE WriteHead
  BY <1>9, WriteHeadCommits, ZenonT(30) DEF Abs!Next
<1>10. CASE ReadHead
  <2>1. UNCHANGED <<disk, dlog, dhead, cache>> /\ Booted' = Booted
    BY <1>10, ZenonT(30) DEF ReadHead, bufs, store, calls, Booted, IInv, Control
  <2>2. QED
    BY <1>10, <2>1, SameView, ActiveKept, ZenonT(30) DEF Abs!vars, DiskStep
<1>11. CASE InstallTrans
  BY <1>11, InstallInvisible, ActiveKept, ZenonT(30) DEF Abs!vars, DiskStep
<1>12. CASE ClearHead
  BY <1>12, ClearInvisible, ActiveKept, ZenonT(30) DEF Abs!vars, DiskStep
<1>13. ASSUME NEW b \in Block, Evict(b) PROVE UNCHANGED Abs!vars
  <2>1. /\ \A c \in Block \ {b} : cache'[c] = cache[c]
        /\ cache'[b] = NoBuf /\ cache[b] = disk[b]
        /\ UNCHANGED <<disk, dlog, dhead, stage, committing>>
    <3>1. /\ b \notin dirty /\ cache[b] # NoBuf /\ \A p \in Proc : wb[p] # b
          /\ cache' = [cache EXCEPT ![b] = NoBuf]
          /\ UNCHANGED <<disk, dlog, dhead, stage, committing>>
      BY <1>13, ZenonT(30) DEF Evict, store, calls
    <3>2. cache[b] = disk[b]
      BY <3>1, ZenonT(30) DEF IInv, Pinned, Agrees
    <3>3. cache \in [Block -> Val \cup {NoBuf}]
      BY ZenonT(30) DEF IInv, TypeOK
    <3>4. QED
      BY <3>1, <3>2, <3>3, ZenonT(30)
  <2>2. \A c \in Block : bread(c)' = bread(c)
    BY <2>1 DEF bread
  <2>3. Recovered' = Recovered
    BY <2>1 DEF Recovered
  <2>4. View' = View
    BY <2>1, <2>2, <2>3 DEF View, Booted
  <2>5. QED
    BY <1>13, <2>3, <2>4, ActiveKept, ZenonT(30) DEF Abs!vars
<1>14. CASE Crash
  <2>1. Recovered' = Recovered
    BY <1>14 DEF Crash, store, Recovered
  <2>2. View' = Recovered'
    BY <1>14, ZenonT(30) DEF Crash, View, Booted
  <2>3. QED
    BY <1>14, <2>1, <2>2, ActiveKept, ZenonT(30) DEF Abs!Next, Abs!Crash
<1>15. CASE UNCHANGED vars
  <2>1. UNCHANGED <<disk, dlog, dhead, cache>> /\ Booted' = Booted /\ Active' = Active
    BY <1>15, ZenonT(30) DEF vars, store, bufs, calls, Booted, Active
  <2>2. QED
    BY <2>1, SameView, ZenonT(30) DEF Abs!vars
<1>16. QED
  BY <1>1, <1>2, <1>3, <1>4, <1>5, <1>6, <1>7, <1>8, <1>9, <1>10, <1>11,
     <1>12, <1>13, <1>14, <1>15, ZenonT(30) DEF Next, Step, DiskStep, Abs!Next

(* log.c implements the atomic disk: whatever the interleaving of calls,   *)
(* commits, evictions and crashes, the disk changes by whole transactions. *)
THEOREM LogImplementsAtomicDisk == Spec => AtomicTransactions
<1>1. Init => Abs!Init
  <2> SUFFICES ASSUME Init PROVE Abs!Init
    OBVIOUS
  <2>1. Active = {}
    BY ZenonT(30) DEF Init, Boot, Active
  <2>2. View = Recovered
    BY ZenonT(30) DEF Init, Boot, View, Booted
  <2>3. Recovered \in [Block -> Val]
    BY InitIInv, RecoveredBlocks, ZenonT(30)
  <2>4. QED
    BY <2>1, <2>2, <2>3, ZenonT(30) DEF Abs!Init
<1>2. QED
  BY <1>1, Invariance, StepRefines, PTL DEF Spec, AtomicTransactions, Abs!Spec
=============================================================================
