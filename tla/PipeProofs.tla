----------------------------- MODULE PipeProofs -----------------------------
(***************************************************************************)
(* A pipe of any size, with counters that wrap around at any multiple of   *)
(* the size, shared by any finite set of processes: it outlives its users, *)
(* no wakeup of pipewrite(), piperead() and pipeclose() is missed but the  *)
(* one that a killed writer owes, and the ring is a bounded queue.         *)
(***************************************************************************)
EXTENDS Pipe, Sequences, FiniteSetTheorems, TLAPS

Holders(e) == {p \in Proc : e \in ofile[p]}

InWrite == {"write", "wsleep", "wwoken"}
InRead  == {"read", "copy", "rsleep", "rwoken"}
Inside  == {"write", "read", "copy"}

(* f->ref counts the descriptors, and a process that does not exist has    *)
(* none.                                                                   *)
Refs ==
  /\ \A e \in End : ref[e] = Cardinality(Holders(e))
  /\ \A p \in Proc : pc[p] = "unused" => ofile[p] = {}

(* A process inside the pipe has the descriptor it came through.           *)
Through ==
  \A p \in Proc : /\ pc[p] \in InWrite => "write" \in ofile[p]
                  /\ pc[p] \in InRead => "read" \in ofile[p]

(* One process at most is on its way to pipeclose() an end.  An end is     *)
(* closed after its last descriptor, and the page is freed with the second *)
(* end.                                                                    *)
Ends ==
  /\ \A p \in Proc, e \in End : pc[p] = CloseLabel[e] => open[e] /\ ref[e] = 0
  /\ \A p, q \in Proc, e \in End : pc[p] = CloseLabel[e] /\ pc[q] = CloseLabel[e] => p = q
  /\ \A e \in End : ~open[e] => ref[e] = 0
  /\ freed <=> \A e \in End : ~open[e]

(* The lock belongs to the process that is inside.                         *)
Locked == \A p \in Proc : lock = p <=> pc[p] \in Inside

(* The counters are never more than PIPESIZE apart.                        *)
Used == IF nread <= nwrite THEN nwrite - nread ELSE nwrite - nread + UINT
Room == Used <= PIPESIZE

IInv == TypeOK /\ Refs /\ Through /\ Ends /\ Locked /\ NoMissedWakeup /\ Room

PCs == {"unused", "user", "write", "wsleep", "wwoken", "read", "copy",
        "rsleep", "rwoken", "closeread", "closewrite", "zombie"}

(* The calls inside the pipe, and those that concern the process alone.    *)
Calls(p) ==
  \/ Enter(p, "write", "write") \/ Enter(p, "read", "read")
  \/ Relock(p, "wwoken", "write") \/ Relock(p, "rwoken", "read")
  \/ WriteByte(p) \/ WriteFails(p) \/ WriteSleep(p) \/ WriteEnd(p)
  \/ ReadSleep(p) \/ ReadFails(p) \/ ReadCopy(p) \/ ReadByte(p) \/ ReadEnd(p)
  \/ Kill(p) \/ Exit(p) \/ ExitKeepsFiles(p) \/ ExitDone(p)

(* A step is one of these, fork(), fileclose() or pipeclose().             *)
Moves ==
  \E p \in Proc : \/ Calls(p)
                  \/ \E q \in Proc : Fork(p, q)
                  \/ \E e \in End : fileclose(p, e) \/ pipeclose(p, e)

(* Next, sorted by what it does to the files.                              *)
LEMMA NextMoves == Next => Moves
  BY ZenonT(30) DEF Next, InKernel, Program, Calls, Moves

(* Where the processes are after a call: the caller moves on, and the      *)
(* processes that it wakes leave their channel.                            *)
Moved(p, l) ==
  /\ pc' \in [Proc -> PCs] /\ pc'[p] = l
  /\ \A q \in Proc \ {p} : pc'[q] = pc[q]

Woken(p, l, s, w) ==
  /\ pc' \in [Proc -> PCs] /\ pc'[p] = l
  /\ \A q \in Proc \ {p} : pc'[q] = IF pc[q] = s THEN w ELSE pc[q]

(* A wakeup followed by a move of the caller.                              *)
LEMMA Wakes ==
  ASSUME pc \in [Proc -> PCs], NEW p \in Proc, NEW l \in PCs,
         NEW s \in PCs, NEW w \in PCs, pc' = [wakeup(pc, s, w) EXCEPT ![p] = l]
  PROVE  Woken(p, l, s, w)
  BY ZenonT(30) DEF Woken, wakeup

(* A move of the caller alone.                                             *)
LEMMA Goes ==
  ASSUME pc \in [Proc -> PCs], NEW p \in Proc, NEW l \in PCs, Goto(p, l)
  PROVE  Moved(p, l)
  BY ZenonT(30) DEF Goto, Moved

(* Where every call leaves its process and the others.                     *)
LEMMA CallPcs ==
  ASSUME IInv, NEW p \in Proc
  PROVE  /\ Enter(p, "write", "write") \/ Relock(p, "wwoken", "write") => Moved(p, "write")
         /\ Enter(p, "read", "read") \/ Relock(p, "rwoken", "read") => Moved(p, "read")
         /\ WriteFails(p) \/ ReadFails(p) => Moved(p, "user")
         /\ WriteSleep(p) => Woken(p, "wsleep", "rsleep", "rwoken")
         /\ WriteEnd(p) => Woken(p, "user", "rsleep", "rwoken")
         /\ ReadEnd(p) => Woken(p, "user", "wsleep", "wwoken")
         /\ ReadSleep(p) => Moved(p, "rsleep")
         /\ ReadCopy(p) => Moved(p, "copy")
         /\ WriteByte(p) \/ ReadByte(p) \/ Exit(p) => UNCHANGED pc
         /\ ExitKeepsFiles(p) \/ ExitDone(p) => Moved(p, "zombie")
         /\ Kill(p) => Moved(p, KillWakes(p))
         /\ \/ pc[p] = "rsleep" /\ KillWakes(p) = "rwoken"
            \/ pc[p] = "wsleep" /\ KillWakes(p) = "wwoken"
            \/ pc[p] \notin {"rsleep", "wsleep"} /\ KillWakes(p) = pc[p]
<1>0. pc \in [Proc -> PCs]
  BY ZenonT(30) DEF IInv, TypeOK, PCs
<1>1. ASSUME NEW l \in {"write", "read", "user", "rsleep", "copy", "zombie"}, Goto(p, l)
      PROVE  Moved(p, l)
  BY <1>0, <1>1, Goes, ZenonT(30) DEF PCs
<1>2. ASSUME Enter(p, "write", "write") \/ Relock(p, "wwoken", "write")
      PROVE  Goto(p, "write")
  BY <1>2, ZenonT(30) DEF Enter, Relock
<1>3. ASSUME Enter(p, "read", "read") \/ Relock(p, "rwoken", "read")
      PROVE  Goto(p, "read")
  BY <1>3, ZenonT(30) DEF Enter, Relock
<1>4. ASSUME WriteFails(p) \/ ReadFails(p) PROVE Goto(p, "user")
  BY <1>4, ZenonT(30) DEF WriteFails, ReadFails, Return, Goto
<1>5. ASSUME WriteSleep(p) PROVE Woken(p, "wsleep", "rsleep", "rwoken")
  <2>1. pc' = [wakeup(pc, "rsleep", "rwoken") EXCEPT ![p] = "wsleep"]
    BY <1>5, ZenonT(30) DEF WriteSleep
  <2>2. QED
    BY <1>0, <2>1, Wakes, ZenonT(30) DEF PCs
<1>6. ASSUME WriteEnd(p) PROVE Woken(p, "user", "rsleep", "rwoken")
  <2>1. pc' = [wakeup(pc, "rsleep", "rwoken") EXCEPT ![p] = "user"]
    BY <1>6, ZenonT(30) DEF WriteEnd, Return
  <2>2. QED
    BY <1>0, <2>1, Wakes, ZenonT(30) DEF PCs
<1>7. ASSUME ReadEnd(p) PROVE Woken(p, "user", "wsleep", "wwoken")
  <2>1. pc' = [wakeup(pc, "wsleep", "wwoken") EXCEPT ![p] = "user"]
    BY <1>7, ZenonT(30) DEF ReadEnd, Return
  <2>2. QED
    BY <1>0, <2>1, Wakes, ZenonT(30) DEF PCs
<1>8. /\ ReadSleep(p) => Goto(p, "rsleep")
      /\ ReadCopy(p) => Goto(p, "copy")
      /\ ExitKeepsFiles(p) \/ ExitDone(p) => Goto(p, "zombie")
  BY ZenonT(30) DEF ReadSleep, ReadCopy, ExitKeepsFiles, ExitDone
<1>9. WriteByte(p) \/ ReadByte(p) \/ Exit(p) => UNCHANGED pc
  BY ZenonT(30) DEF WriteByte, ReadByte, Exit
<1>10. /\ KillWakes(p) \in PCs
       /\ \/ pc[p] = "rsleep" /\ KillWakes(p) = "rwoken"
          \/ pc[p] = "wsleep" /\ KillWakes(p) = "wwoken"
          \/ pc[p] \notin {"rsleep", "wsleep"} /\ KillWakes(p) = pc[p]
  BY <1>0, ZenonT(30) DEF KillWakes, PCs
<1>11. Kill(p) => Moved(p, KillWakes(p))
  BY <1>0, <1>10, Goes, ZenonT(30) DEF Kill
<1>12. QED
  BY <1>1, <1>2, <1>3, <1>4, <1>5, <1>6, <1>7, <1>8, <1>9, <1>10, <1>11, ZenonT(30)

(* The calls leave the files alone, nobody is created by them or starts to *)
(* close an end, and only processes with the descriptor come in.           *)
Frame ==
  /\ UNCHANGED files /\ pc' \in [Proc -> PCs]
  /\ \A q \in Proc : /\ pc'[q] = "unused" => pc[q] = "unused"
                     /\ \A e \in End : pc'[q] = CloseLabel[e] => pc[q] = CloseLabel[e]
                     /\ pc'[q] \in InWrite => "write" \in ofile[q]
                     /\ pc'[q] \in InRead => "read" \in ofile[q]

(* The two positions in front of pipeclose().                              *)
LEMMA Labels == /\ CloseLabel["read"] = "closeread" /\ CloseLabel["write"] = "closewrite"
                /\ \A e \in End : CloseLabel[e] \in {"closeread", "closewrite"}
  BY ZenonT(30) DEF CloseLabel, End

(* A call that moves its process and wakes others keeps the frame.         *)
LEMMA FrameMove ==
  ASSUME IInv, NEW p \in Proc, UNCHANGED files, pc' \in [Proc -> PCs],
         pc'[p] \notin {"unused", "closeread", "closewrite"},
         pc'[p] \in InWrite => "write" \in ofile[p],
         pc'[p] \in InRead => "read" \in ofile[p],
         \A q \in Proc \ {p} : \/ pc'[q] = pc[q]
                               \/ pc[q] = "rsleep" /\ pc'[q] = "rwoken"
                               \/ pc[q] = "wsleep" /\ pc'[q] = "wwoken"
  PROVE  Frame
<1>1. Through
  BY ZenonT(30) DEF IInv
<1>2. ASSUME NEW q \in Proc
      PROVE  /\ pc'[q] = "unused" => pc[q] = "unused"
             /\ \A e \in End : pc'[q] = CloseLabel[e] => pc[q] = CloseLabel[e]
             /\ pc'[q] \in InWrite => "write" \in ofile[q]
             /\ pc'[q] \in InRead => "read" \in ofile[q]
  <2>1. CASE q = p
    BY <2>1, Labels, ZenonT(30)
  <2>2. CASE q # p /\ pc'[q] = pc[q]
    BY <1>1, <2>2, ZenonT(30) DEF Through
  <2>3. CASE q # p /\ pc[q] = "rsleep" /\ pc'[q] = "rwoken"
    BY <1>1, <2>3, Labels, ZenonT(30) DEF Through, InRead, InWrite
  <2>4. CASE q # p /\ pc[q] = "wsleep" /\ pc'[q] = "wwoken"
    BY <1>1, <2>4, Labels, ZenonT(30) DEF Through, InRead, InWrite
  <2>5. QED
    BY <2>1, <2>2, <2>3, <2>4, ZenonT(30)
<1>3. QED
  BY <1>2, ZenonT(30) DEF Frame

(* So does one that moves nobody.                                          *)
LEMMA FrameSame ==
  ASSUME IInv, UNCHANGED <<pc, files>>
  PROVE  Frame
<1>1. Through /\ pc \in [Proc -> PCs]
  BY ZenonT(30) DEF IInv, TypeOK, PCs
<1>2. QED
  BY <1>1, ZenonT(30) DEF Frame, Through

(* So does kill(), which only wakes its victim.                            *)
LEMMA FrameKill ==
  ASSUME IInv, NEW p \in Proc, UNCHANGED files, pc' \in [Proc -> PCs], pc[p] # "unused",
         \/ pc[p] = "rsleep" /\ pc'[p] = "rwoken"
         \/ pc[p] = "wsleep" /\ pc'[p] = "wwoken"
         \/ pc'[p] = pc[p],
         \A q \in Proc \ {p} : pc'[q] = pc[q]
  PROVE  Frame
<1>1. Through
  BY ZenonT(30) DEF IInv
<1>2. CASE pc'[p] = pc[p]
  BY <1>1, <1>2, ZenonT(30) DEF Frame, Through
<1>3. CASE pc[p] = "rsleep" /\ pc'[p] = "rwoken"
  BY <1>1, <1>3, Labels, ZenonT(30) DEF Frame, Through, InWrite, InRead
<1>4. CASE pc[p] = "wsleep" /\ pc'[p] = "wwoken"
  BY <1>1, <1>4, Labels, ZenonT(30) DEF Frame, Through, InWrite, InRead
<1>5. QED
  BY <1>2, <1>3, <1>4, ZenonT(30)

(* So does every call.                                                     *)
LEMMA CallsFrame ==
  ASSUME IInv, NEW p \in Proc, Calls(p)
  PROVE  Frame
<1>0. Through
  BY ZenonT(30) DEF IInv
<1>1. UNCHANGED files
  BY ZenonT(30) DEF Calls, Enter, Relock, WriteByte, WriteFails, WriteSleep, WriteEnd, ReadSleep,
     ReadFails, ReadCopy, ReadByte, ReadEnd, Kill, Exit, ExitKeepsFiles, ExitDone, Return
<1>2. CASE Enter(p, "write", "write") \/ Relock(p, "wwoken", "write")
  <2>1. "write" \in ofile[p]
    BY <1>0, <1>2, ZenonT(30) DEF Enter, Relock, Through, InWrite
  <2>2. QED
    BY <1>1, <1>2, <2>1, CallPcs, FrameMove, ZenonT(30) DEF Moved, InWrite, InRead
<1>3. CASE Enter(p, "read", "read") \/ Relock(p, "rwoken", "read") \/ ReadSleep(p) \/ ReadCopy(p)
  <2>1. "read" \in ofile[p]
    BY <1>0, <1>3, ZenonT(30) DEF Enter, Relock, ReadSleep, ReadCopy, Through, InRead
  <2>2. \E l \in {"read", "rsleep", "copy"} : Moved(p, l)
    BY <1>3, CallPcs, ZenonT(30)
  <2>3. QED
    BY <1>1, <2>1, <2>2, FrameMove, ZenonT(30) DEF Moved, InWrite, InRead
<1>4. CASE WriteFails(p) \/ ReadFails(p) \/ ExitKeepsFiles(p) \/ ExitDone(p)
  <2>1. \E l \in {"user", "zombie"} : Moved(p, l)
    BY <1>4, CallPcs, ZenonT(30)
  <2>2. QED
    BY <1>1, <2>1, FrameMove, ZenonT(30) DEF Moved, InWrite, InRead
<1>5. CASE WriteSleep(p)
  <2>1. "write" \in ofile[p]
    BY <1>0, <1>5, ZenonT(30) DEF WriteSleep, Through, InWrite
  <2>2. QED
    BY <1>1, <1>5, <2>1, CallPcs, FrameMove, ZenonT(30) DEF Woken, InWrite, InRead
<1>6. CASE WriteEnd(p)
  BY <1>1, <1>6, CallPcs, FrameMove, ZenonT(30) DEF Woken, InWrite, InRead
<1>7. CASE ReadEnd(p)
  BY <1>1, <1>7, CallPcs, FrameMove, ZenonT(30) DEF Woken, InWrite, InRead
<1>8. CASE WriteByte(p) \/ ReadByte(p) \/ Exit(p)
  BY <1>1, <1>8, CallPcs, FrameSame, ZenonT(30)
<1>9. CASE Kill(p)
  <2>1. pc[p] # "unused"
    BY <1>9, ZenonT(30) DEF Kill
  <2>2. QED
    BY <1>1, <1>9, <2>1, CallPcs, FrameKill, ZenonT(30) DEF Moved
<1>10. QED
  BY <1>2, <1>3, <1>4, <1>5, <1>6, <1>7, <1>8, <1>9, ZenonT(30) DEF Calls

(* The descriptors of a finite set of processes can be counted.            *)
LEMMA HoldersFinite ==
  \A e \in End : /\ IsFiniteSet(Holders(e)) /\ Cardinality(Holders(e)) \in 0 .. Cardinality(Proc)
                 /\ Cardinality(Proc) \in Nat
<1> TAKE e \in End
<1>1. IsFiniteSet(Proc) /\ Holders(e) \subseteq Proc
  BY PipeAssumption, ZenonT(30) DEF Holders
<1>2. /\ IsFiniteSet(Holders(e)) /\ Cardinality(Holders(e)) <= Cardinality(Proc)
  BY <1>1, FS_Subset, ZenonT(30)
<1>3. Cardinality(Holders(e)) \in Nat /\ Cardinality(Proc) \in Nat
  BY <1>1, <1>2, FS_CardinalityType, ZenonT(30)
<1>4. QED
  BY <1>2, <1>3

(* Who has a descriptor can rely on its end.                               *)
LEMMA HasEnd ==
  ASSUME IInv, NEW p \in Proc, NEW e \in End, e \in ofile[p]
  PROVE  ref[e] > 0 /\ open[e] /\ \A q \in Proc : pc[q] # CloseLabel[e]
<1>1. Refs /\ Ends
  BY ZenonT(30) DEF IInv
<1>2. Holders(e) # {} /\ IsFiniteSet(Holders(e)) /\ Cardinality(Holders(e)) \in Nat
  BY HoldersFinite DEF Holders
<1>3. Cardinality(Holders(e)) # 0
  BY <1>2, FS_EmptySet, ZenonT(30)
<1>4. ref[e] > 0 /\ ref[e] # 0
  BY <1>1, <1>2, <1>3 DEF Refs
<1>5. QED
  BY <1>1, <1>4, ZenonT(30) DEF Ends

(* fork() adds one descriptor of each end that its caller has.             *)
LEMMA ForkRefs ==
  ASSUME IInv, NEW p \in Proc, NEW q \in Proc, Fork(p, q)
  PROVE  /\ Moved(q, "user") /\ UNCHANGED <<open, freed>> /\ pc[q] = "unused"
         /\ ofile' \in [Proc -> SUBSET End] /\ ofile'[q] = ofile[p]
         /\ \A r \in Proc \ {q} : ofile'[r] = ofile[r]
         /\ \A e \in End : ref'[e] = Cardinality(Holders(e)')
         /\ \A e \in End \ ofile[p] : ref'[e] = ref[e]
<1>0. /\ pc \in [Proc -> PCs] /\ ofile \in [Proc -> SUBSET End] /\ Refs
  BY ZenonT(30) DEF IInv, TypeOK, PCs
<1>1. /\ Goto(q, "user") /\ UNCHANGED <<open, freed>> /\ pc[q] = "unused"
      /\ ofile' = [ofile EXCEPT ![q] = ofile[p]]
      /\ ref' = [e \in End |-> ref[e] + IF e \in ofile[p] THEN 1 ELSE 0]
  BY ZenonT(30) DEF Fork
<1>2. Moved(q, "user")
  BY <1>0, <1>1, Goes, ZenonT(30) DEF PCs
<1>3. /\ ofile' \in [Proc -> SUBSET End] /\ ofile'[q] = ofile[p]
      /\ \A r \in Proc \ {q} : ofile'[r] = ofile[r]
  BY <1>0, <1>1, ZenonT(30)
<1>4. ofile[q] = {}
  BY <1>0, <1>1, ZenonT(30) DEF Refs
<1>5. ASSUME NEW e \in End
      PROVE  ref'[e] = Cardinality(Holders(e)') /\ (e \notin ofile[p] => ref'[e] = ref[e])
  <2>1. ref[e] = Cardinality(Holders(e)) /\ IsFiniteSet(Holders(e)) /\ ref[e] \in Nat
    BY <1>0, HoldersFinite DEF Refs
  <2>2. CASE e \in ofile[p]
    <3>1. Holders(e)' = Holders(e) \cup {q} /\ q \notin Holders(e)
      BY <1>3, <1>4, <2>2, ZenonT(30) DEF Holders
    <3>2. Cardinality(Holders(e)') = Cardinality(Holders(e)) + 1
      BY <2>1, <3>1, FS_AddElement, ZenonT(30)
    <3>3. QED
      BY <1>1, <2>1, <2>2, <3>2, ZenonT(30)
  <2>3. CASE e \notin ofile[p]
    <3>1. Holders(e)' = Holders(e)
      BY <1>3, <1>4, <2>3, ZenonT(30) DEF Holders
    <3>2. QED
      BY <1>1, <2>1, <2>3, <3>1
  <2>4. QED
    BY <2>2, <2>3, ZenonT(30)
<1>6. QED
  BY <1>1, <1>2, <1>3, <1>5, ZenonT(30)

(* fileclose() takes one away, and leads to pipeclose() with the last.     *)
LEMMA CloseRefs ==
  ASSUME IInv, NEW p \in Proc, NEW e \in End, fileclose(p, e)
  PROVE  /\ UNCHANGED <<open, freed>> /\ pc[p] = "user" /\ e \in ofile[p]
         /\ ofile' \in [Proc -> SUBSET End] /\ ofile'[p] = ofile[p] \ {e}
         /\ \A r \in Proc \ {p} : ofile'[r] = ofile[r]
         /\ \A o \in End : ref'[o] = Cardinality(Holders(o)')
         /\ \A o \in End \ {e} : ref'[o] = ref[o]
         /\ \/ ref'[e] = 0 /\ Moved(p, CloseLabel[e])
            \/ ref'[e] > 0 /\ Moved(p, "user")
<1>0. /\ pc \in [Proc -> PCs] /\ ofile \in [Proc -> SUBSET End] /\ Refs
      /\ ref \in [End -> 0 .. Cardinality(Proc)]
  BY ZenonT(30) DEF IInv, TypeOK, PCs
<1>1. /\ UNCHANGED <<open, freed>> /\ pc[p] = "user" /\ e \in ofile[p]
      /\ ofile' = [ofile EXCEPT ![p] = @ \ {e}]
      /\ ref' = [ref EXCEPT ![e] = @ - 1]
      /\ IF LastRef(e) THEN Goto(p, CloseLabel[e]) ELSE UNCHANGED pc
  BY ZenonT(30) DEF fileclose
<1>2. /\ ofile' \in [Proc -> SUBSET End] /\ ofile'[p] = ofile[p] \ {e}
      /\ \A r \in Proc \ {p} : ofile'[r] = ofile[r]
  BY <1>0, <1>1, ZenonT(30)
<1>3. ref'[e] = ref[e] - 1 /\ \A o \in End \ {e} : ref'[o] = ref[o]
  BY <1>0, <1>1, ZenonT(30)
<1>4. /\ \A o \in End : ref[o] = Cardinality(Holders(o)) /\ IsFiniteSet(Holders(o))
      /\ ref[e] \in Nat
  BY <1>0, HoldersFinite DEF Refs
<1>5. ref'[e] = Cardinality(Holders(e)')
  <2>1. Holders(e)' = Holders(e) \ {p} /\ p \in Holders(e)
    BY <1>1, <1>2, ZenonT(30) DEF Holders
  <2>2. Cardinality(Holders(e)') = Cardinality(Holders(e)) - 1
    BY <1>4, <2>1, FS_RemoveElement, ZenonT(30)
  <2>3. QED
    BY <1>3, <1>4, <2>2, ZenonT(30)
<1>6. ASSUME NEW o \in End \ {e} PROVE ref'[o] = Cardinality(Holders(o)')
  <2>1. Holders(o)' = Holders(o)
    BY <1>2, ZenonT(30) DEF Holders
  <2>2. QED
    BY <1>3, <1>4, <2>1, ZenonT(30)
<1>7. ref[e] > 0
  BY <1>1, HasEnd, ZenonT(30)
<1>8. CASE LastRef(e)
  <2>1. ref'[e] = 0
    BY <1>3, <1>8 DEF LastRef
  <2>2. Moved(p, CloseLabel[e])
    <3>1. CloseLabel[e] \in PCs
      BY Labels, ZenonT(30) DEF PCs
    <3>2. QED
      BY <1>0, <1>1, <1>8, <3>1, Goes, ZenonT(30)
  <2>3. QED
    BY <1>1, <1>2, <1>3, <1>5, <1>6, <2>1, <2>2, ZenonT(30)
<1>9. CASE ~LastRef(e)
  <2>1. ref'[e] > 0
    BY <1>3, <1>4, <1>7, <1>9 DEF LastRef
  <2>2. Moved(p, "user")
    BY <1>0, <1>1, <1>9, ZenonT(30) DEF Moved
  <2>3. QED
    BY <1>1, <1>2, <1>3, <1>5, <1>6, <2>1, <2>2, ZenonT(30)
<1>10. QED
  BY <1>8, <1>9, ZenonT(30)

(* pipeclose() closes its end and wakes the other side.                    *)
LEMMA ClosePcs ==
  ASSUME IInv, NEW p \in Proc, NEW e \in End, pipeclose(p, e)
  PROVE  /\ pc[p] = CloseLabel[e] /\ lock = None /\ UNCHANGED <<lock, ref, ofile>>
         /\ open' \in [End -> BOOLEAN] /\ ~open'[e]
         /\ \A o \in End \ {e} : open'[o] = open[o]
         /\ freed' <=> \A o \in End : ~open'[o]
         /\ e = "write" => Woken(p, "user", "rsleep", "rwoken")
         /\ e = "read" => Woken(p, "user", "wsleep", "wwoken")
<1>0. pc \in [Proc -> PCs] /\ open \in [End -> BOOLEAN]
  BY ZenonT(30) DEF IInv, TypeOK, PCs
<1>1. /\ pc[p] = CloseLabel[e] /\ lock = None /\ UNCHANGED <<lock, ref, ofile>>
      /\ open' = [open EXCEPT ![e] = FALSE] /\ freed' = BothClosed(e)
      /\ pc' = [wakeupClosed(pc, e) EXCEPT ![p] = "user"]
  BY ZenonT(30) DEF pipeclose
<1>2. open' \in [End -> BOOLEAN] /\ ~open'[e] /\ \A o \in End \ {e} : open'[o] = open[o]
  BY <1>0, <1>1, ZenonT(30)
<1>3. freed' <=> \A o \in End : ~open'[o]
  BY <1>1, <1>2, ZenonT(30) DEF BothClosed
<1>4. e = "write" => Woken(p, "user", "rsleep", "rwoken")
  <2>1. e = "write" => pc' = [wakeup(pc, "rsleep", "rwoken") EXCEPT ![p] = "user"]
    BY <1>1, ZenonT(30) DEF wakeupClosed
  <2>2. QED
    BY <1>0, <2>1, Wakes, ZenonT(30) DEF PCs
<1>5. e = "read" => Woken(p, "user", "wsleep", "wwoken")
  <2>1. e = "read" => pc' = [wakeup(pc, "wsleep", "wwoken") EXCEPT ![p] = "user"]
    BY <1>1, ZenonT(30) DEF wakeupClosed
  <2>2. QED
    BY <1>0, <2>1, Wakes, ZenonT(30) DEF PCs
<1>6. QED
  BY <1>1, <1>2, <1>3, <1>4, <1>5, ZenonT(30)

(* What pipeclose() does to the other processes, whatever end it closes.   *)
LEMMA CloseOthers ==
  ASSUME IInv, NEW p \in Proc, NEW e \in End, pipeclose(p, e)
  PROVE  /\ pc' \in [Proc -> PCs] /\ pc'[p] = "user"
         /\ \A q \in Proc \ {p} : \/ pc'[q] = pc[q]
                                  \/ pc[q] = "rsleep" /\ pc'[q] = "rwoken"
                                  \/ pc[q] = "wsleep" /\ pc'[q] = "wwoken"
<1>1. Woken(p, "user", "rsleep", "rwoken") \/ Woken(p, "user", "wsleep", "wwoken")
  BY ClosePcs, ZenonT(30) DEF End
<1>2. QED
  BY <1>1, ZenonT(30) DEF Woken

(* The references are the descriptors.                                     *)
LEMMA NextRefs == IInv /\ Moves => Refs'
<1> SUFFICES ASSUME IInv, Moves PROVE Refs'
  BY ZenonT(30)
<1>0. Refs
  BY ZenonT(30) DEF IInv
<1>1. ASSUME NEW p \in Proc, Calls(p) PROVE Refs'
  <2>1. /\ UNCHANGED <<ref, ofile>> /\ \A q \in Proc : pc'[q] = "unused" => pc[q] = "unused"
    BY <1>1, CallsFrame, ZenonT(30) DEF Frame, files
  <2>2. QED
    BY <1>0, <2>1, ZenonT(30) DEF Refs, Holders
<1>2. ASSUME NEW p \in Proc, NEW q \in Proc, Fork(p, q) PROVE Refs'
  <2>1. \A r \in Proc : pc'[r] = "unused" => pc[r] = "unused" /\ ofile'[r] = ofile[r]
    BY <1>2, ForkRefs, ZenonT(30) DEF Moved
  <2>2. QED
    BY <1>0, <1>2, <2>1, ForkRefs, ZenonT(30) DEF Refs
<1>3. ASSUME NEW p \in Proc, NEW e \in End, fileclose(p, e) PROVE Refs'
  <2>1. \A r \in Proc : pc'[r] = "unused" => pc[r] = "unused" /\ ofile'[r] = ofile[r]
    BY <1>3, CloseRefs, Labels DEF Moved
  <2>2. QED
    BY <1>0, <1>3, <2>1, CloseRefs, ZenonT(30) DEF Refs
<1>4. ASSUME NEW p \in Proc, NEW e \in End, pipeclose(p, e) PROVE Refs'
  <2>1. UNCHANGED <<ref, ofile>> /\ \A q \in Proc : pc'[q] = "unused" => pc[q] = "unused"
    BY <1>4, ClosePcs, CloseOthers, ZenonT(30)
  <2>2. QED
    BY <1>0, <2>1, ZenonT(30) DEF Refs, Holders
<1>5. QED
  BY <1>1, <1>2, <1>3, <1>4, ZenonT(30) DEF Moves

(* Nobody loses the descriptor while inside.                               *)
LEMMA NextThrough == IInv /\ Moves => Through'
<1> SUFFICES ASSUME IInv, Moves PROVE Through'
  BY ZenonT(30)
<1>0. Through
  BY ZenonT(30) DEF IInv
<1>1. ASSUME NEW p \in Proc, Calls(p) PROVE Through'
  BY <1>1, CallsFrame, ZenonT(30) DEF Frame, files, Through
<1>2. ASSUME NEW p \in Proc, NEW q \in Proc, Fork(p, q) PROVE Through'
  BY <1>0, <1>2, ForkRefs, ZenonT(30) DEF Moved, Through, InWrite, InRead
<1>3. ASSUME NEW p \in Proc, NEW e \in End, fileclose(p, e) PROVE Through'
  <2>1. /\ pc'[p] \notin InWrite \cup InRead
        /\ \A q \in Proc \ {p} : pc'[q] = pc[q] /\ ofile'[q] = ofile[q]
    BY <1>3, CloseRefs, Labels DEF Moved, InWrite, InRead
  <2>2. QED
    BY <1>0, <2>1, ZenonT(30) DEF Through
<1>4. ASSUME NEW p \in Proc, NEW e \in End, pipeclose(p, e) PROVE Through'
  BY <1>0, <1>4, ClosePcs, CloseOthers, ZenonT(30) DEF Through, InWrite, InRead
<1>5. QED
  BY <1>1, <1>2, <1>3, <1>4, ZenonT(30) DEF Moves

(* An end is closed once, after its last descriptor.                       *)
LEMMA NextEnds == IInv /\ Moves => Ends'
<1> SUFFICES ASSUME IInv, Moves PROVE Ends'
  BY ZenonT(30)
<1>0. Ends
  BY ZenonT(30) DEF IInv
<1>1. ASSUME NEW p \in Proc, Calls(p) PROVE Ends'
  <2>1. /\ UNCHANGED <<open, freed, ref>>
        /\ \A q \in Proc, e \in End : pc'[q] = CloseLabel[e] => pc[q] = CloseLabel[e]
    BY <1>1, CallsFrame, ZenonT(30) DEF Frame, files
  <2>2. QED
    BY <1>0, <2>1 DEF Ends, CloseLabel
<1>2. ASSUME NEW p \in Proc, NEW q \in Proc, Fork(p, q) PROVE Ends'
  <2>1. /\ UNCHANGED <<open, freed>> /\ \A e \in End \ ofile[p] : ref'[e] = ref[e]
        /\ \A r \in Proc, e \in End : pc'[r] = CloseLabel[e] => pc[r] = CloseLabel[e]
    BY <1>2, ForkRefs, Labels DEF Moved
  <2>2. \A e \in End : e \in ofile[p] => open[e] /\ \A r \in Proc : pc[r] # CloseLabel[e]
    BY HasEnd, ZenonT(30)
  <2>3. ASSUME NEW e \in End
        PROVE  /\ \A r \in Proc : pc'[r] = CloseLabel[e] => open'[e] /\ ref'[e] = 0
               /\ \A r, s \in Proc : pc'[r] = CloseLabel[e] /\ pc'[s] = CloseLabel[e] => r = s
               /\ ~open'[e] => ref'[e] = 0
    <3>1. CASE e \in ofile[p]
      BY <2>1, <2>2, <3>1, ZenonT(30)
    <3>2. CASE e \notin ofile[p]
      BY <1>0, <2>1, <3>2 DEF Ends
    <3>3. QED
      BY <3>1, <3>2, ZenonT(30)
  <2>4. freed' <=> \A e \in End : ~open'[e]
    BY <1>0, <2>1, ZenonT(30) DEF Ends
  <2>5. QED
    BY <2>3, <2>4, ZenonT(30) DEF Ends, CloseLabel
<1>3. ASSUME NEW p \in Proc, NEW e \in End, fileclose(p, e) PROVE Ends'
  <2>1. /\ UNCHANGED <<open, freed>> /\ \A o \in End \ {e} : ref'[o] = ref[o]
        /\ pc'[p] = CloseLabel[e] => ref'[e] = 0
        /\ pc'[p] \in {"user", CloseLabel[e]}
        /\ \A q \in Proc \ {p} : pc'[q] = pc[q]
    BY <1>3, CloseRefs, Labels DEF Moved
  <2>2. open[e] /\ \A r \in Proc : pc[r] # CloseLabel[e]
    BY <1>3, CloseRefs, HasEnd, ZenonT(30)
  <2>3. \A o \in End \ {e} : CloseLabel[o] # CloseLabel[e] /\ CloseLabel[o] # "user"
    BY Labels, ZenonT(30) DEF End
  <2>4. ASSUME NEW o \in End
        PROVE  /\ \A r \in Proc : pc'[r] = CloseLabel[o] => open'[o] /\ ref'[o] = 0
               /\ \A r, s \in Proc : pc'[r] = CloseLabel[o] /\ pc'[s] = CloseLabel[o] => r = s
               /\ ~open'[o] => ref'[o] = 0
    <3>1. CASE o = e
      BY <2>1, <2>2, <3>1, ZenonT(30)
    <3>2. CASE o # e
      <4>1. \A r \in Proc : pc'[r] = CloseLabel[o] => pc[r] = CloseLabel[o]
        BY <2>1, <2>3, <3>2, ZenonT(30)
      <4>2. QED
        BY <1>0, <2>1, <3>2, <4>1, ZenonT(30) DEF Ends
    <3>3. QED
      BY <3>1, <3>2, ZenonT(30)
  <2>5. freed' <=> \A o \in End : ~open'[o]
    BY <1>0, <2>1, ZenonT(30) DEF Ends
  <2>6. QED
    BY <2>4, <2>5, ZenonT(30) DEF Ends, CloseLabel
<1>4. ASSUME NEW p \in Proc, NEW e \in End, pipeclose(p, e) PROVE Ends'
  <2>1. /\ pc[p] = CloseLabel[e] /\ UNCHANGED ref /\ ~open'[e]
        /\ \A o \in End \ {e} : open'[o] = open[o]
        /\ freed' <=> \A o \in End : ~open'[o]
    BY <1>4, ClosePcs, ZenonT(30)
  <2>2. \A r \in Proc, o \in End : pc'[r] = CloseLabel[o] => r # p /\ pc[r] = CloseLabel[o]
    BY <1>4, CloseOthers, Labels, ZenonT(30)
  <2>3. ref[e] = 0 /\ \A r \in Proc : pc'[r] # CloseLabel[e]
    BY <1>0, <2>1, <2>2 DEF Ends
  <2>4. ASSUME NEW o \in End
        PROVE  /\ \A r \in Proc : pc'[r] = CloseLabel[o] => open'[o] /\ ref'[o] = 0
               /\ \A r, s \in Proc : pc'[r] = CloseLabel[o] /\ pc'[s] = CloseLabel[o] => r = s
               /\ ~open'[o] => ref'[o] = 0
    <3>1. CASE o = e
      BY <2>1, <2>3, <3>1, ZenonT(30)
    <3>2. CASE o # e
      BY <1>0, <2>1, <2>2, <3>2 DEF Ends
    <3>3. QED
      BY <3>1, <3>2, ZenonT(30)
  <2>5. QED
    BY <2>1, <2>4, ZenonT(30) DEF Ends, CloseLabel
<1>5. QED
  BY <1>1, <1>2, <1>3, <1>4, ZenonT(30) DEF Moves

(* The lock is taken and given up together with the way in and out.        *)
LEMMA LockFrame ==
  ASSUME Locked, NEW p \in Proc,
         \A q \in Proc \ {p} : pc'[q] \in Inside <=> pc[q] \in Inside,
         \/ UNCHANGED lock /\ (pc'[p] \in Inside <=> pc[p] \in Inside)
         \/ lock = None /\ lock' = p /\ pc'[p] \in Inside
         \/ pc[p] \in Inside /\ lock' = None /\ pc'[p] \notin Inside
  PROVE  Locked'
<1>0. None \notin Proc
  BY PipeAssumption, ZenonT(30)
<1>1. CASE UNCHANGED lock /\ (pc'[p] \in Inside <=> pc[p] \in Inside)
  BY <1>1, ZenonT(30) DEF Locked
<1>2. CASE lock = None /\ lock' = p /\ pc'[p] \in Inside
  BY <1>0, <1>2, ZenonT(30) DEF Locked
<1>3. CASE pc[p] \in Inside /\ lock' = None /\ pc'[p] \notin Inside
  BY <1>0, <1>3, ZenonT(30) DEF Locked
<1>4. QED
  BY <1>1, <1>2, <1>3, ZenonT(30)

(* What the calls do to the lock.                                          *)
Comes(p)  == Enter(p, "write", "write") \/ Enter(p, "read", "read")
               \/ Relock(p, "wwoken", "write") \/ Relock(p, "rwoken", "read")
Leaves(p) == \/ WriteFails(p) \/ WriteSleep(p) \/ WriteEnd(p)
             \/ ReadSleep(p) \/ ReadFails(p) \/ ReadEnd(p)
Stays(p)  == \/ WriteByte(p) \/ ReadByte(p) \/ ReadCopy(p)
             \/ Kill(p) \/ Exit(p) \/ ExitKeepsFiles(p) \/ ExitDone(p)

(* Every step keeps the lock with the process that is inside.              *)
LEMMA NextLocked == IInv /\ Moves => Locked'
<1> SUFFICES ASSUME IInv, Moves PROVE Locked'
  BY ZenonT(30)
<1>0. Locked
  BY ZenonT(30) DEF IInv
<1>1. ASSUME NEW p \in Proc, Comes(p) PROVE Locked'
  <2>1. lock = None /\ lock' = p
    BY <1>1, ZenonT(30) DEF Comes, Enter, Relock
  <2>2. pc'[p] \in Inside /\ \A q \in Proc \ {p} : pc'[q] = pc[q]
    BY <1>1, CallPcs, ZenonT(30) DEF Comes, Moved, Inside
  <2>3. QED
    BY <1>0, <2>1, <2>2, LockFrame, ZenonT(30)
<1>2. ASSUME NEW p \in Proc, Leaves(p) PROVE Locked'
  <2>1. pc[p] \in Inside /\ lock' = None
    BY <1>2, ZenonT(30) DEF Leaves, WriteFails, WriteSleep, WriteEnd, ReadSleep, ReadFails, ReadEnd,
       Return, Inside
  <2>2. \/ Moved(p, "user") \/ Moved(p, "rsleep")
        \/ Woken(p, "wsleep", "rsleep", "rwoken")
        \/ Woken(p, "user", "rsleep", "rwoken")
        \/ Woken(p, "user", "wsleep", "wwoken")
    BY <1>2, CallPcs, ZenonT(30) DEF Leaves
  <2>3. /\ pc'[p] \notin Inside
        /\ \A q \in Proc \ {p} : pc'[q] \in Inside <=> pc[q] \in Inside
    BY <2>2, ZenonT(30) DEF Moved, Woken, Inside
  <2>4. QED
    BY <1>0, <2>1, <2>3, LockFrame, ZenonT(30)
<1>3. ASSUME NEW p \in Proc, Stays(p) PROVE Locked'
  <2>1. UNCHANGED lock
    BY <1>3, ZenonT(30) DEF Stays, WriteByte, ReadByte, ReadCopy, Kill, Exit, ExitKeepsFiles, ExitDone
  <2>2. CASE WriteByte(p) \/ ReadByte(p) \/ Exit(p)
    BY <1>0, <2>1, <2>2, CallPcs, ZenonT(30) DEF Locked
  <2>3. CASE ReadCopy(p)
    <3>1. pc[p] = "read" /\ Moved(p, "copy")
      BY <2>3, CallPcs, ZenonT(30) DEF ReadCopy
    <3>2. QED
      BY <1>0, <2>1, <3>1, LockFrame, ZenonT(30) DEF Moved, Inside
  <2>4. CASE ExitKeepsFiles(p) \/ ExitDone(p)
    <3>1. pc[p] = "user" /\ Moved(p, "zombie")
      BY <2>4, CallPcs, ZenonT(30) DEF ExitKeepsFiles, ExitDone
    <3>2. QED
      BY <1>0, <2>1, <3>1, LockFrame, ZenonT(30) DEF Moved, Inside
  <2>5. CASE Kill(p)
    <3>1. /\ pc'[p] \in Inside <=> pc[p] \in Inside
          /\ \A q \in Proc \ {p} : pc'[q] = pc[q]
      BY <2>5, CallPcs, ZenonT(30) DEF Moved, Inside
    <3>2. QED
      BY <1>0, <2>1, <3>1, LockFrame, ZenonT(30)
  <2>6. QED
    BY <1>3, <2>2, <2>3, <2>4, <2>5, ZenonT(30) DEF Stays
<1>4. ASSUME NEW p \in Proc, NEW q \in Proc, Fork(p, q) PROVE Locked'
  <2>1. UNCHANGED lock
    BY <1>4, ZenonT(30) DEF Fork
  <2>2. QED
    BY <1>0, <1>4, <2>1, ForkRefs, LockFrame DEF Moved, Inside
<1>5. ASSUME NEW p \in Proc, NEW e \in End, fileclose(p, e) PROVE Locked'
  <2>1. UNCHANGED lock
    BY <1>5, ZenonT(30) DEF fileclose
  <2>2. pc[p] \notin Inside /\ pc'[p] \notin Inside /\ \A q \in Proc \ {p} : pc'[q] = pc[q]
    BY <1>5, CloseRefs, Labels, ZenonT(30) DEF Moved, Inside
  <2>3. QED
    BY <1>0, <2>1, <2>2, LockFrame, ZenonT(30)
<1>6. ASSUME NEW p \in Proc, NEW e \in End, pipeclose(p, e) PROVE Locked'
  <2>1. UNCHANGED lock /\ pc[p] \notin Inside
    BY <1>6, ClosePcs, Labels, ZenonT(30) DEF Inside
  <2>2. pc'[p] \notin Inside /\ \A q \in Proc \ {p} : pc'[q] \in Inside <=> pc[q] \in Inside
    BY <1>6, CloseOthers, ZenonT(30) DEF Inside
  <2>3. QED
    BY <1>0, <2>1, <2>2, LockFrame, ZenonT(30)
<1>7. QED
  BY <1>1, <1>2, <1>3, <1>4, <1>5, <1>6, ZenonT(30) DEF Moves, Calls, Comes, Leaves, Stays

(* Sleepers and what they wait for, by the caller that holds the lock.     *)
Sleeps(l) == \E p \in Proc : pc[p] = l
Owed == \E q \in Proc : killed[q]

(* What the sleepers wait for, by what the holder of the lock does.        *)
LEMMA Waits ==
  ASSUME IInv
  PROVE  /\ lock = None => /\ Sleeps("rsleep") => open["write"] /\ (empty \/ Owed)
                           /\ Sleeps("wsleep") => open["read"] /\ full
         /\ \A p \in Proc :
              /\ pc[p] \in Inside => lock = p /\ lock # None
              /\ pc[p] = "write" => /\ Sleeps("rsleep") => open["write"]
                                    /\ Sleeps("wsleep") => open["read"] /\ full
              /\ pc[p] = "read" => /\ Sleeps("rsleep") => open["write"] /\ (empty \/ Owed)
                                   /\ Sleeps("wsleep") => open["read"] /\ full
              /\ pc[p] = "copy" => /\ Sleeps("rsleep") => open["write"] /\ (empty \/ Owed)
                                   /\ Sleeps("wsleep") => open["read"]
<1>1. Locked /\ NoMissedWakeup /\ None \notin Proc
  BY PipeAssumption, ZenonT(30) DEF IInv
<1>2. \A p \in Proc : pc[p] \in Inside => lock = p /\ lock # None
  BY <1>1, ZenonT(30) DEF Locked
<1>3. /\ Sleeps("rsleep") => /\ open["write"]
                             /\ empty \/ (lock # None /\ pc[lock] = "write") \/ Owed
      /\ Sleeps("wsleep") => /\ open["read"]
                             /\ full \/ (lock # None /\ pc[lock] = "copy")
  BY <1>1, ZenonT(30) DEF NoMissedWakeup, Sleeps, Owed
<1>4. \A p \in Proc : pc[p] \in {"write", "read", "copy"} => lock = p
  BY <1>2, ZenonT(30) DEF Inside
<1> HIDE DEF Sleeps, Owed, empty, full
<1>5. QED
  BY <1>2, <1>3, <1>4, ZenonT(30)

(* A sleeper has its end open.                                             *)
LEMMA SleeperOpen ==
  ASSUME IInv
  PROVE  Sleeps("rsleep") => open["read"]
<1> SUFFICES ASSUME NEW p \in Proc, pc[p] = "rsleep" PROVE open["read"]
  BY ZenonT(30) DEF Sleeps
<1>1. "read" \in ofile[p]
  BY ZenonT(30) DEF IInv, Through, InRead
<1>2. QED
  BY <1>1, HasEnd, ZenonT(30) DEF End

(* Steps that change neither the ring nor what the sleepers wait for.      *)
LEMMA WakeKept ==
  ASSUME IInv, UNCHANGED <<ring, lock, open>>,
         \A q \in Proc : /\ pc'[q] = "rsleep" => pc[q] = "rsleep"
                         /\ pc'[q] = "wsleep" => pc[q] = "wsleep"
                         /\ pc[q] \in Inside => pc'[q] = pc[q]
                         /\ killed[q] => killed'[q]
  PROVE  NoMissedWakeup'
<1>1. Locked /\ NoMissedWakeup /\ lock \in Proc \cup {None}
  BY ZenonT(30) DEF IInv, TypeOK
<1>2. lock # None => pc'[lock] = pc[lock]
  BY <1>1, ZenonT(30) DEF Locked
<1>3. (empty' <=> empty) /\ (full' <=> full)
  BY ZenonT(30) DEF empty, full, ring
<1>4. (Sleeps("rsleep")' => Sleeps("rsleep")) /\ (Sleeps("wsleep")' => Sleeps("wsleep")) /\ (Owed => Owed')
  BY ZenonT(30) DEF Sleeps, Owed
<1>5. /\ Sleeps("rsleep") => /\ open["write"]
                             /\ empty \/ (lock # None /\ pc[lock] = "write") \/ Owed
      /\ Sleeps("wsleep") => /\ open["read"]
                             /\ full \/ (lock # None /\ pc[lock] = "copy")
  BY <1>1, ZenonT(30) DEF NoMissedWakeup, Sleeps, Owed
<1>6. /\ Sleeps("rsleep")' => /\ open'["write"]
                              /\ empty' \/ (lock' # None /\ pc'[lock'] = "write") \/ Owed'
      /\ Sleeps("wsleep")' => /\ open'["read"]
                              /\ full' \/ (lock' # None /\ pc'[lock'] = "copy")
  <2> HIDE DEF Sleeps, Owed, empty, full
  <2>1. lock' = lock /\ open' = open
    BY ZenonT(30)
  <2>2. QED
    BY <1>2, <1>3, <1>4, <1>5, <2>1, ZenonT(30)
<1>7. QED
  BY <1>6, ZenonT(30) DEF NoMissedWakeup, Sleeps, Owed

(* The invariant after a step, from what the sleepers wait for then.       *)
LEMMA WakeStep ==
  ASSUME Sleeps("rsleep")' =>
           open'["write"] /\ (empty' \/ (lock' # None /\ pc'[lock'] = "write") \/ Owed'),
         Sleeps("wsleep")' =>
           open'["read"] /\ (full' \/ (lock' # None /\ pc'[lock'] = "copy"))
  PROVE  NoMissedWakeup'
  BY ZenonT(30) DEF NoMissedWakeup, Sleeps, Owed

(* Who sleeps after a call: a wakeup leaves nobody on its channel.         *)
LEMMA Sleepers ==
  ASSUME NEW p \in Proc
  PROVE  /\ \A l, t \in PCs : Moved(p, l) /\ l # t /\ Sleeps(t)' => Sleeps(t)
         /\ \A l \in {"user", "wsleep"} : Woken(p, l, "rsleep", "rwoken") => ~Sleeps("rsleep")'
         /\ Woken(p, "user", "rsleep", "rwoken") /\ Sleeps("wsleep")' => Sleeps("wsleep")
         /\ Woken(p, "user", "wsleep", "wwoken") => ~Sleeps("wsleep")'
         /\ Woken(p, "user", "wsleep", "wwoken") /\ Sleeps("rsleep")' => Sleeps("rsleep")
<1>1. \A l, t \in PCs : Moved(p, l) /\ l # t /\ Sleeps(t)' => Sleeps(t)
  BY ZenonT(30) DEF Moved, Sleeps
<1>2. \A l \in {"user", "wsleep"} : Woken(p, l, "rsleep", "rwoken") => ~Sleeps("rsleep")'
  BY ZenonT(30) DEF Woken, Sleeps
<1>3. Woken(p, "user", "rsleep", "rwoken") /\ Sleeps("wsleep")' => Sleeps("wsleep")
  BY ZenonT(30) DEF Woken, Sleeps
<1>4. Woken(p, "user", "wsleep", "wwoken") => ~Sleeps("wsleep")'
  BY ZenonT(30) DEF Woken, Sleeps
<1>5. Woken(p, "user", "wsleep", "wwoken") /\ Sleeps("rsleep")' => Sleeps("rsleep")
  BY ZenonT(30) DEF Woken, Sleeps
<1>6. QED
  BY <1>1, <1>2, <1>3, <1>4, <1>5, ZenonT(30)

(* Every step that gives a sleeper something to do wakes it, or is taken   *)
(* by the process that will; pipewrite() killed on a full ring is not.     *)
LEMMA NextWakeups == IInv /\ Moves => NoMissedWakeup'
<1> SUFFICES ASSUME IInv, Moves PROVE NoMissedWakeup'
  BY ZenonT(30)
<1>1. ASSUME NEW p \in Proc, Comes(p) PROVE NoMissedWakeup'
  <2>1. /\ lock = None /\ UNCHANGED <<ring, open, killed>>
        /\ Moved(p, "write") \/ Moved(p, "read")
    <3>1. lock = None /\ UNCHANGED <<ring, files, killed>>
      BY <1>1, ZenonT(30) DEF Comes, Enter, Relock
    <3>2. Moved(p, "write") \/ Moved(p, "read")
      BY <1>1, CallPcs, ZenonT(30) DEF Comes
    <3>3. QED
      BY <3>1, <3>2, ZenonT(30) DEF files
  <2>2. (Sleeps("rsleep")' => Sleeps("rsleep")) /\ (Sleeps("wsleep")' => Sleeps("wsleep"))
    BY <2>1, Sleepers, ZenonT(30) DEF PCs
  <2>3. (empty' <=> empty) /\ (full' <=> full) /\ (Owed' <=> Owed)
    BY <2>1, ZenonT(30) DEF empty, full, ring, Owed
  <2>4. QED
    BY <2>1, <2>2, <2>3, Waits, WakeStep, ZenonT(30)
<1>2. ASSUME NEW p \in Proc, WriteByte(p) PROVE NoMissedWakeup'
  <2>1. pc[p] = "write" /\ ~full /\ UNCHANGED <<lock, open, pc>>
    BY <1>2, ZenonT(30) DEF WriteByte, files
  <2>2. (Sleeps("rsleep")' => Sleeps("rsleep")) /\ (Sleeps("wsleep")' => Sleeps("wsleep"))
    BY <2>1, ZenonT(30) DEF Sleeps
  <2>3. lock = p /\ lock # None
    BY <2>1, Waits, ZenonT(30) DEF Inside
  <2>4. QED
    BY <2>1, <2>2, <2>3, Waits, WakeStep, ZenonT(30)
<1>3. ASSUME NEW p \in Proc, WriteFails(p) PROVE NoMissedWakeup'
  <2>1. /\ pc[p] = "write" /\ full /\ (~open["read"] \/ killed[p])
        /\ UNCHANGED <<ring, open, killed>>
    BY <1>3, ZenonT(30) DEF WriteFails, Return, files
  <2>2. (Sleeps("rsleep")' => Sleeps("rsleep")) /\ (Sleeps("wsleep")' => Sleeps("wsleep"))
    BY <1>3, CallPcs, Sleepers, ZenonT(30) DEF PCs
  <2>3. (full' <=> full) /\ (killed[p] => Owed')
    BY <2>1, ZenonT(30) DEF full, ring, Owed
  <2>4. QED
    BY <2>1, <2>2, <2>3, Waits, SleeperOpen, WakeStep, ZenonT(30)
<1>4. ASSUME NEW p \in Proc, WriteSleep(p) PROVE NoMissedWakeup'
  <2>1. full /\ open["read"] /\ UNCHANGED <<ring, open>>
    BY <1>4, ZenonT(30) DEF WriteSleep, files
  <2>2. ~Sleeps("rsleep")'
    BY <1>4, CallPcs, Sleepers, ZenonT(30)
  <2>3. full' <=> full
    BY <2>1, ZenonT(30) DEF full, ring
  <2>4. QED
    BY <2>1, <2>2, <2>3, WakeStep, ZenonT(30)
<1>5. ASSUME NEW p \in Proc, WriteEnd(p) PROVE NoMissedWakeup'
  <2>1. pc[p] = "write" /\ UNCHANGED <<ring, open>>
    BY <1>5, ZenonT(30) DEF WriteEnd, Return, files
  <2>2. ~Sleeps("rsleep")' /\ (Sleeps("wsleep")' => Sleeps("wsleep"))
    BY <1>5, CallPcs, Sleepers, ZenonT(30)
  <2>3. full' <=> full
    BY <2>1, ZenonT(30) DEF full, ring
  <2>4. QED
    BY <2>1, <2>2, <2>3, Waits, WakeStep, ZenonT(30)
<1>6. ASSUME NEW p \in Proc, ReadSleep(p) PROVE NoMissedWakeup'
  <2>1. pc[p] = "read" /\ empty /\ open["write"] /\ UNCHANGED <<ring, open>>
    BY <1>6, ZenonT(30) DEF ReadSleep, files
  <2>2. Sleeps("wsleep")' => Sleeps("wsleep")
    BY <1>6, CallPcs, Sleepers, ZenonT(30) DEF PCs
  <2>3. (empty' <=> empty) /\ (full' <=> full)
    BY <2>1, ZenonT(30) DEF empty, full, ring
  <2>4. QED
    BY <2>1, <2>2, <2>3, Waits, WakeStep, ZenonT(30)
<1>7. ASSUME NEW p \in Proc, ReadFails(p) PROVE NoMissedWakeup'
  <2>1. pc[p] = "read" /\ empty /\ open["write"] /\ UNCHANGED <<ring, open>>
    BY <1>7, ZenonT(30) DEF ReadFails, Return, files
  <2>2. Sleeps("wsleep")' => Sleeps("wsleep")
    BY <1>7, CallPcs, Sleepers, ZenonT(30) DEF PCs
  <2>3. (empty' <=> empty) /\ (full' <=> full)
    BY <2>1, ZenonT(30) DEF empty, full, ring
  <2>4. QED
    BY <2>1, <2>2, <2>3, Waits, WakeStep, ZenonT(30)
<1>8. ASSUME NEW p \in Proc, ReadCopy(p) PROVE NoMissedWakeup'
  <2>1. pc[p] = "read" /\ UNCHANGED <<ring, open, killed>>
    BY <1>8, ZenonT(30) DEF ReadCopy, files
  <2>2. (Sleeps("rsleep")' => Sleeps("rsleep")) /\ (Sleeps("wsleep")' => Sleeps("wsleep"))
    BY <1>8, CallPcs, Sleepers, ZenonT(30) DEF PCs
  <2>3. (empty' <=> empty) /\ (full' <=> full) /\ (Owed' <=> Owed)
    BY <2>1, ZenonT(30) DEF empty, full, ring, Owed
  <2>4. QED
    BY <2>1, <2>2, <2>3, Waits, WakeStep, ZenonT(30)
<1>9. ASSUME NEW p \in Proc, ReadByte(p) PROVE NoMissedWakeup'
  <2>1. pc[p] = "copy" /\ ~empty /\ UNCHANGED <<lock, open, pc, killed>>
    BY <1>9, ZenonT(30) DEF ReadByte, files
  <2>2. /\ (Sleeps("rsleep")' => Sleeps("rsleep")) /\ (Sleeps("wsleep")' => Sleeps("wsleep"))
        /\ (Owed' <=> Owed)
    BY <2>1, ZenonT(30) DEF Sleeps, Owed
  <2>3. lock = p /\ lock # None
    BY <2>1, Waits, ZenonT(30) DEF Inside
  <2>4. QED
    BY <2>1, <2>2, <2>3, Waits, WakeStep, ZenonT(30)
<1>10. ASSUME NEW p \in Proc, ReadEnd(p) PROVE NoMissedWakeup'
  <2>1. pc[p] = "copy" /\ UNCHANGED <<ring, open, killed>>
    BY <1>10, ZenonT(30) DEF ReadEnd, Return, files
  <2>2. ~Sleeps("wsleep")' /\ (Sleeps("rsleep")' => Sleeps("rsleep"))
    BY <1>10, CallPcs, Sleepers, ZenonT(30)
  <2>3. (empty' <=> empty) /\ (Owed' <=> Owed)
    BY <2>1, ZenonT(30) DEF empty, ring, Owed
  <2>4. QED
    BY <2>1, <2>2, <2>3, Waits, WakeStep, ZenonT(30)
<1>11. ASSUME NEW p \in Proc, Kill(p) PROVE NoMissedWakeup'
  <2>1. UNCHANGED <<ring, lock, open>> /\ killed' = [killed EXCEPT ![p] = TRUE]
    BY <1>11, ZenonT(30) DEF Kill, files
  <2>2. killed \in [Proc -> BOOLEAN]
    BY ZenonT(30) DEF IInv, TypeOK
  <2>3. \A q \in Proc : killed[q] => killed'[q]
    BY <2>1, <2>2, ZenonT(30)
  <2>4. \A q \in Proc : /\ pc'[q] = "rsleep" => pc[q] = "rsleep"
                        /\ pc'[q] = "wsleep" => pc[q] = "wsleep"
                        /\ pc[q] \in Inside => pc'[q] = pc[q]
    BY <1>11, CallPcs, ZenonT(30) DEF Moved, Inside
  <2>5. QED
    BY <2>1, <2>3, <2>4, WakeKept, ZenonT(30)
<1>12. ASSUME NEW p \in Proc, Exit(p) PROVE NoMissedWakeup'
  BY <1>12, WakeKept, ZenonT(30) DEF Exit, files
<1>13. ASSUME NEW p \in Proc, ExitKeepsFiles(p) \/ ExitDone(p) PROVE NoMissedWakeup'
  <2>1. pc[p] = "user" /\ UNCHANGED <<ring, lock, open, killed>>
    BY <1>13, ZenonT(30) DEF ExitKeepsFiles, ExitDone, files
  <2>2. \A q \in Proc : /\ pc'[q] = "rsleep" => pc[q] = "rsleep"
                        /\ pc'[q] = "wsleep" => pc[q] = "wsleep"
                        /\ pc[q] \in Inside => pc'[q] = pc[q]
    BY <1>13, <2>1, CallPcs, ZenonT(30) DEF Moved, Inside
  <2>3. QED
    BY <2>1, <2>2, WakeKept, ZenonT(30)
<1>14. ASSUME NEW p \in Proc, NEW q \in Proc, Fork(p, q) PROVE NoMissedWakeup'
  <2>1. UNCHANGED <<ring, lock, open, killed>>
    BY <1>14, ZenonT(30) DEF Fork
  <2>2. \A r \in Proc : /\ pc'[r] = "rsleep" => pc[r] = "rsleep"
                        /\ pc'[r] = "wsleep" => pc[r] = "wsleep"
                        /\ pc[r] \in Inside => pc'[r] = pc[r]
    BY <1>14, ForkRefs, ZenonT(30) DEF Moved, Inside
  <2>3. QED
    BY <2>1, <2>2, WakeKept, ZenonT(30)
<1>15. ASSUME NEW p \in Proc, NEW e \in End, fileclose(p, e) PROVE NoMissedWakeup'
  <2>1. UNCHANGED <<ring, lock, open, killed>>
    BY <1>15, ZenonT(30) DEF fileclose
  <2>2. \A r \in Proc : /\ pc'[r] = "rsleep" => pc[r] = "rsleep"
                        /\ pc'[r] = "wsleep" => pc[r] = "wsleep"
                        /\ pc[r] \in Inside => pc'[r] = pc[r]
    BY <1>15, CloseRefs, Labels DEF Moved, Inside
  <2>3. QED
    BY <2>1, <2>2, WakeKept, ZenonT(30)
<1>16. ASSUME NEW p \in Proc, NEW e \in End, pipeclose(p, e) PROVE NoMissedWakeup'
  <2>1. UNCHANGED <<ring, killed>> /\ lock = None
    BY <1>16, ZenonT(30) DEF pipeclose
  <2>2. (empty' <=> empty) /\ (full' <=> full) /\ (Owed' <=> Owed)
    BY <2>1, ZenonT(30) DEF empty, full, ring, Owed
  <2>3. CASE e = "write"
    <3>1. ~Sleeps("rsleep")' /\ (Sleeps("wsleep")' => Sleeps("wsleep"))
      BY <1>16, <2>3, ClosePcs, Sleepers, ZenonT(30)
    <3>2. open'["read"] = open["read"]
      BY <1>16, <2>3, ClosePcs, ZenonT(30) DEF End
    <3>3. QED
      BY <2>1, <2>2, <3>1, <3>2, Waits, WakeStep, ZenonT(30)
  <2>4. CASE e = "read"
    <3>1. ~Sleeps("wsleep")' /\ (Sleeps("rsleep")' => Sleeps("rsleep"))
      BY <1>16, <2>4, ClosePcs, Sleepers, ZenonT(30)
    <3>2. open'["write"] = open["write"]
      BY <1>16, <2>4, ClosePcs, ZenonT(30) DEF End
    <3>3. QED
      BY <2>1, <2>2, <3>1, <3>2, Waits, WakeStep, ZenonT(30)
  <2>5. QED
    BY <2>3, <2>4, ZenonT(30) DEF End
<1>17. QED
  BY <1>1, <1>2, <1>3, <1>4, <1>5, <1>6, <1>7, <1>8, <1>9, <1>10, <1>11, <1>12, <1>13,
     <1>14, <1>15, <1>16, ZenonT(30) DEF Moves, Calls, Comes

-----------------------------------------------------------------------------
(* Quotient and remainder.                                                 *)
LEMMA DivMod ==
  ASSUME NEW U \in Nat \ {0}, NEW x \in Nat
  PROVE  x % U \in 0 .. U - 1 /\ x \div U \in Nat /\ x = U * (x \div U) + (x % U)
  OBVIOUS

(* The remainder is unique.                                                *)
LEMMA Unique ==
  ASSUME NEW U \in Nat \ {0}, NEW r \in 0 .. U - 1, NEW s \in 0 .. U - 1,
         NEW q \in Int, NEW t \in Int, NEW z \in Nat, z = U * q + r, z = U * t + s
  PROVE  r = s
<1>1. CASE q >= t + 1
  <2>1. U * (q - t) >= U
    BY <1>1
  <2>2. U * (q - t) = U * q - U * t
    OBVIOUS
  <2>3. QED
    BY <2>1, <2>2
<1>2. CASE t >= q + 1
  <2>1. U * (t - q) >= U
    BY <1>2
  <2>2. U * (t - q) = U * t - U * q
    OBVIOUS
  <2>3. QED
    BY <2>1, <2>2
<1>3. QED
  BY <1>1, <1>2

(* Numbers a multiple of U apart have the same remainder.                  *)
LEMMA Congruent ==
  ASSUME NEW U \in Nat \ {0}, NEW x \in Nat, NEW y \in Nat, NEW m \in Nat, y = x + U * m
  PROVE  y % U = x % U
<1>1. x = U * (x \div U) + (x % U) /\ x \div U \in Nat /\ x % U \in 0 .. U - 1
  BY DivMod, ZenonT(30)
<1>2. y = U * (y \div U) + (y % U) /\ y \div U \in Nat /\ y % U \in 0 .. U - 1
  BY DivMod, ZenonT(30)
<1>3. U * ((x \div U) + m) = U * (x \div U) + U * m
  BY <1>1
<1>4. y = U * ((x \div U) + m) + (x % U)
  BY <1>1, <1>2, <1>3
<1>5. y \div U \in Int /\ (x \div U) + m \in Int
  BY <1>1, <1>2
<1>6. QED
  BY <1>1, <1>2, <1>4, <1>5, Unique, ZenonT(30)

(* Numbers less than U apart have different remainders.                    *)
LEMMA Apart ==
  ASSUME NEW U \in Nat \ {0}, NEW x \in Nat, NEW y \in Nat, x < y, y < x + U
  PROVE  y % U # x % U
<1>1. x = U * (x \div U) + (x % U) /\ x \div U \in Nat /\ x % U \in 0 .. U - 1
  BY DivMod, ZenonT(30)
<1>2. y = U * (y \div U) + (y % U) /\ y \div U \in Nat /\ y % U \in 0 .. U - 1
  BY DivMod, ZenonT(30)
<1>3. ASSUME NEW d \in Int PROVE U * d \notin 1 .. U - 1
  <2>1. CASE d <= 0
    BY <2>1
  <2>2. CASE d >= 1
    BY <2>2
  <2>3. QED
    BY <2>1, <2>2
<1>4. U * ((y \div U) - (x \div U)) = U * (y \div U) - U * (x \div U)
  BY <1>1, <1>2
<1>5. (y \div U) - (x \div U) \in Int
  BY <1>1, <1>2
<1>6. U * (y \div U) - U * (x \div U) \notin 1 .. U - 1
  BY <1>3, <1>4, <1>5, ZenonT(30)
<1>7. QED
  BY <1>1, <1>2, <1>6

(* A number below 2 * U modulo U.                                          *)
LEMMA Wraps ==
  ASSUME NEW U \in Nat \ {0}, NEW x \in 0 .. 2 * U - 1
  PROVE  (x < U => x % U = x) /\ (x >= U => x % U = x - U)
<1>1. CASE x < U
  BY <1>1
<1>2. CASE x >= U
  BY <1>2
<1>3. QED
  BY <1>1, <1>2, ZenonT(30)

(* A counter that wraps around leads to the same byte of the ring.         *)
LEMMA Whole ==
  ASSUME NEW x \in Nat
  PROVE  (x + UINT) % PIPESIZE = x % PIPESIZE
<1>1. /\ UINT = PIPESIZE * (UINT \div PIPESIZE) /\ UINT \div PIPESIZE \in Nat
      /\ PIPESIZE \in Nat \ {0}
  BY PipeAssumption, DivMod
<1>2. x + UINT \in Nat /\ x + UINT = x + PIPESIZE * (UINT \div PIPESIZE)
  BY <1>1
<1>3. QED
  BY <1>1, <1>2, Congruent, ZenonT(30)

-----------------------------------------------------------------------------
(* The length of the queue from counters that may have wrapped around.     *)
LEMMA Length ==
  ASSUME NEW r \in 0 .. UINT - 1, NEW w \in 0 .. UINT - 1
  PROVE  (w - r + UINT) % UINT = IF r <= w THEN w - r ELSE w - r + UINT
<1> DEFINE y == w - r + UINT
           u == IF r <= w THEN w - r ELSE w - r + UINT
<1>1. UINT \in Nat \ {0} /\ y \in 0 .. 2 * UINT - 1
  BY PipeAssumption
<1>2. u = IF y < UINT THEN y ELSE y - UINT
  BY PipeAssumption
<1> HIDE DEF y, u
<1>3. (y < UINT => y % UINT = y) /\ (y >= UINT => y % UINT = y - UINT)
  BY <1>1, Wraps, ZenonT(30)
<1>4. y % UINT = u
  BY <1>1, <1>2, <1>3
<1>5. QED
  BY <1>4, ZenonT(30) DEF y, u

(* The tests of pipewrite() and piperead(), as what the ring holds.        *)
LEMMA RingTests ==
  ASSUME IInv
  PROVE  /\ Used \in 0 .. PIPESIZE
         /\ full <=> Used = PIPESIZE
         /\ empty <=> Used = 0
         /\ nread \in 0 .. UINT - 1 /\ nwrite \in 0 .. UINT - 1
<1>1. /\ nread \in 0 .. UINT - 1 /\ nwrite \in 0 .. UINT - 1 /\ Used <= PIPESIZE
      /\ PIPESIZE \in Nat \ {0} /\ UINT \in Nat /\ UINT > PIPESIZE
  BY PipeAssumption, ZenonT(30) DEF IInv, TypeOK, Room
<1>2. Used \in 0 .. PIPESIZE /\ (empty <=> Used = 0)
  BY <1>1 DEF Used, empty
<1>4. full <=> Used = PIPESIZE
  <2> DEFINE y == nread + PIPESIZE
             u == IF y < UINT THEN y ELSE y - UINT
  <2>1. UINT \in Nat \ {0} /\ y \in 0 .. 2 * UINT - 1
    BY <1>1
  <2>2. Used = PIPESIZE <=> nwrite = u
    BY <1>1 DEF Used
  <2>3. full <=> nwrite = y % UINT
    BY ZenonT(30) DEF full
  <2> HIDE DEF y
  <2>4. (y < UINT => y % UINT = y) /\ (y >= UINT => y % UINT = y - UINT)
    BY <2>1, Wraps, ZenonT(30)
  <2>5. y % UINT = u
    BY <2>1, <2>4
  <2> HIDE DEF u
  <2>6. QED
    BY <2>2, <2>3, <2>5, ZenonT(30)
<1>5. QED
  BY <1>1, <1>2, <1>4, ZenonT(30)

(* The counter after one more byte.                                        *)
LEMMA Counts ==
  ASSUME NEW x \in 0 .. UINT - 1
  PROVE  /\ (x + 1) % UINT = IF x + 1 < UINT THEN x + 1 ELSE 0
         /\ (x + 1) % UINT \in 0 .. UINT - 1
<1> DEFINE y == x + 1
<1>1. UINT \in Nat \ {0} /\ y \in 0 .. 2 * UINT - 1 /\ y <= UINT
  BY PipeAssumption
<1> HIDE DEF y
<1>2. (y < UINT => y % UINT = y) /\ (y >= UINT => y % UINT = y - UINT)
  BY <1>1, Wraps, ZenonT(30)
<1>3. y % UINT = (IF y < UINT THEN y ELSE 0) /\ y % UINT \in 0 .. UINT - 1
  BY <1>1, <1>2
<1>4. QED
  BY <1>3, ZenonT(30) DEF y

(* pipewrite() puts one byte where there is room.                          *)
LEMMA Puts ==
  ASSUME IInv, NEW p \in Proc, WriteByte(p)
  PROVE  /\ nwrite' \in 0 .. UINT - 1 /\ Used' = Used + 1 /\ Used \in 0 .. PIPESIZE - 1
         /\ UNCHANGED nread
<1>1. ~full /\ nwrite' = (nwrite + 1) % UINT /\ UNCHANGED nread
  BY ZenonT(30) DEF WriteByte
<1>2. /\ Used \in 0 .. PIPESIZE - 1
      /\ nread \in 0 .. UINT - 1 /\ nwrite \in 0 .. UINT - 1
  BY <1>1, RingTests, PipeAssumption
<1>3. /\ nwrite' = IF nwrite + 1 < UINT THEN nwrite + 1 ELSE 0
      /\ nwrite' \in 0 .. UINT - 1
  BY <1>1, <1>2, Counts, ZenonT(30)
<1>4. Used' = Used + 1
  BY <1>1, <1>2, <1>3, PipeAssumption DEF Used
<1>5. QED
  BY <1>1, <1>2, <1>3, <1>4, ZenonT(30)

(* piperead() takes one that is there.                                     *)
LEMMA Gets ==
  ASSUME IInv, NEW p \in Proc, ReadByte(p)
  PROVE  /\ nread' \in 0 .. UINT - 1 /\ Used' = Used - 1 /\ Used \in 1 .. PIPESIZE
         /\ nread' = IF nread + 1 < UINT THEN nread + 1 ELSE 0
         /\ UNCHANGED <<nwrite, data>>
<1>1. ~empty /\ nread' = (nread + 1) % UINT /\ UNCHANGED <<nwrite, data>>
  BY ZenonT(30) DEF ReadByte
<1>2. /\ Used \in 1 .. PIPESIZE
      /\ nread \in 0 .. UINT - 1 /\ nwrite \in 0 .. UINT - 1
  BY <1>1, RingTests, PipeAssumption
<1>3. /\ nread' = IF nread + 1 < UINT THEN nread + 1 ELSE 0
      /\ nread' \in 0 .. UINT - 1
  BY <1>1, <1>2, Counts, ZenonT(30)
<1>4. Used' = Used - 1
  BY <1>1, <1>2, <1>3, PipeAssumption DEF Used
<1>5. QED
  BY <1>1, <1>2, <1>3, <1>4, ZenonT(30)

(* Only pipewrite() and piperead() touch the ring.                         *)
LEMMA RingSteps ==
  Moves => UNCHANGED ring \/ \E p \in Proc : WriteByte(p) \/ ReadByte(p)
<1> SUFFICES ASSUME Moves PROVE UNCHANGED ring \/ \E p \in Proc : WriteByte(p) \/ ReadByte(p)
  BY ZenonT(30)
<1>1. ASSUME NEW p \in Proc, Calls(p)
      PROVE  UNCHANGED ring \/ WriteByte(p) \/ ReadByte(p)
  BY <1>1, ZenonT(30) DEF Calls, Enter, Relock, WriteFails, WriteSleep, WriteEnd, ReadSleep,
     ReadFails, ReadCopy, ReadEnd, Kill, Exit, ExitKeepsFiles, ExitDone, Return
<1>2. ASSUME NEW p \in Proc, NEW q \in Proc, Fork(p, q) PROVE UNCHANGED ring
  BY <1>2, ZenonT(30) DEF Fork
<1>3. ASSUME NEW p \in Proc, NEW e \in End, fileclose(p, e) \/ pipeclose(p, e)
      PROVE  UNCHANGED ring
  BY <1>3, ZenonT(30) DEF fileclose, pipeclose
<1>4. QED
  BY <1>1, <1>2, <1>3, ZenonT(30) DEF Moves

(* The counters stay within PIPESIZE of each other.                        *)
LEMMA NextRoom == IInv /\ Moves => Room'
<1> SUFFICES ASSUME IInv, Moves PROVE Room'
  BY ZenonT(30)
<1>1. CASE UNCHANGED ring
  BY <1>1, ZenonT(30) DEF IInv, Room, Used, ring
<1>2. ASSUME NEW p \in Proc, WriteByte(p) PROVE Room'
  BY <1>2, Puts, PipeAssumption DEF Room
<1>3. ASSUME NEW p \in Proc, ReadByte(p) PROVE Room'
  BY <1>3, Gets, PipeAssumption DEF Room
<1>4. QED
  BY <1>1, <1>2, <1>3, RingSteps, ZenonT(30)

-----------------------------------------------------------------------------
(* What the calls do to the variables that the ring and the files leave.   *)
LEMMA CallsType ==
  ASSUME IInv, NEW p \in Proc, Calls(p)
  PROVE  /\ lock' \in Proc \cup {None} /\ left' \in [Proc -> 0 .. MaxN]
         /\ killed' \in [Proc -> BOOLEAN] /\ exiting' \in [Proc -> BOOLEAN]
<1>0. /\ lock \in Proc \cup {None} /\ left \in [Proc -> 0 .. MaxN]
      /\ killed \in [Proc -> BOOLEAN] /\ exiting \in [Proc -> BOOLEAN] /\ MaxN \in Nat \ {0}
  BY PipeAssumption, ZenonT(30) DEF IInv, TypeOK
<1>1. /\ lock' = lock \/ lock' = p \/ lock' = None
      /\ killed' = killed \/ killed' = [killed EXCEPT ![p] = TRUE]
      /\ exiting' = exiting \/ exiting' = [exiting EXCEPT ![p] = TRUE]
  BY ZenonT(30) DEF Calls, Enter, Relock, WriteByte, WriteFails, WriteSleep, WriteEnd, ReadSleep,
     ReadFails, ReadCopy, ReadByte, ReadEnd, Kill, Exit, ExitKeepsFiles, ExitDone, Return
<1>2. \/ UNCHANGED left
      \/ \E k \in 1 .. MaxN : left' = [left EXCEPT ![p] = k]
      \/ left' = [left EXCEPT ![p] = 0]
      \/ left[p] > 0 /\ left' = [left EXCEPT ![p] = @ - 1]
  BY ZenonT(30) DEF Calls, Enter, Relock, WriteByte, WriteFails, WriteSleep, WriteEnd, ReadSleep,
     ReadFails, ReadCopy, ReadByte, ReadEnd, Kill, Exit, ExitKeepsFiles, ExitDone, Return
<1>3. left' \in [Proc -> 0 .. MaxN]
  BY <1>0, <1>2
<1>4. lock' \in Proc \cup {None}
  BY <1>0, <1>1, ZenonT(30)
<1>5. killed' \in [Proc -> BOOLEAN] /\ exiting' \in [Proc -> BOOLEAN]
  BY <1>0, <1>1, ZenonT(30)
<1>6. QED
  BY <1>3, <1>4, <1>5, ZenonT(30)

(* The ring keeps its type.                                                *)
LEMMA RingType ==
  ASSUME IInv, Moves
  PROVE  /\ data' \in [0 .. PIPESIZE - 1 -> Byte]
         /\ nread' \in 0 .. UINT - 1 /\ nwrite' \in 0 .. UINT - 1
<1>0. /\ data \in [0 .. PIPESIZE - 1 -> Byte]
      /\ nread \in 0 .. UINT - 1 /\ nwrite \in 0 .. UINT - 1
  BY ZenonT(30) DEF IInv, TypeOK
<1>1. CASE UNCHANGED ring
  BY <1>0, <1>1, ZenonT(30) DEF ring
<1>2. ASSUME NEW p \in Proc, WriteByte(p)
      PROVE  /\ data' \in [0 .. PIPESIZE - 1 -> Byte]
             /\ nread' \in 0 .. UINT - 1 /\ nwrite' \in 0 .. UINT - 1
  <2>1. PICK b \in Byte : data' = [data EXCEPT ![nwrite % PIPESIZE] = b]
    BY <1>2, ZenonT(30) DEF WriteByte
  <2>2. data' \in [0 .. PIPESIZE - 1 -> Byte]
    BY <1>0, <2>1, ZenonT(30)
  <2>3. QED
    BY <1>0, <1>2, <2>2, Puts, ZenonT(30)
<1>3. ASSUME NEW p \in Proc, ReadByte(p)
      PROVE  /\ data' \in [0 .. PIPESIZE - 1 -> Byte]
             /\ nread' \in 0 .. UINT - 1 /\ nwrite' \in 0 .. UINT - 1
  BY <1>0, <1>3, Gets, ZenonT(30)
<1>4. QED
  BY <1>1, <1>2, <1>3, RingSteps, ZenonT(30)

(* f->ref is at most the number of processes, because it counts them.      *)
LEMMA RefType ==
  ASSUME IInv, Refs', ref' \in [End -> Int]
  PROVE  ref' \in [End -> 0 .. Cardinality(Proc)]
<1>1. \A e \in End : Cardinality(Holders(e)') \in 0 .. Cardinality(Proc)
  <2> SUFFICES ASSUME NEW e \in End PROVE Cardinality(Holders(e)') \in 0 .. Cardinality(Proc)
    BY ZenonT(30)
  <2>1. IsFiniteSet(Proc) /\ Holders(e)' \subseteq Proc
    BY PipeAssumption, ZenonT(30) DEF Holders
  <2>2. IsFiniteSet(Holders(e)') /\ Cardinality(Holders(e)') <= Cardinality(Proc)
    BY <2>1, FS_Subset, ZenonT(30)
  <2>3. Cardinality(Holders(e)') \in Nat /\ Cardinality(Proc) \in Nat
    BY <2>1, <2>2, FS_CardinalityType, ZenonT(30)
  <2>4. QED
    BY <2>2, <2>3
<1>2. \A e \in End : ref'[e] \in 0 .. Cardinality(Proc)
  BY <1>1, ZenonT(30) DEF Refs
<1>3. QED
  BY <1>2, ZenonT(30)

(* Every step keeps the types.                                             *)
LEMMA NextTypeOK == IInv /\ Moves => TypeOK'
<1> SUFFICES ASSUME IInv, Moves PROVE TypeOK'
  BY ZenonT(30)
<1>0. TypeOK /\ Refs' /\ PCs = {"unused", "user", "write", "wsleep", "wwoken", "read", "copy",
                      "rsleep", "rwoken", "closeread", "closewrite", "zombie"}
  BY NextRefs, ZenonT(30) DEF IInv, PCs
<1>1. ASSUME NEW p \in Proc, Calls(p) PROVE TypeOK'
  <2>1. UNCHANGED <<open, freed, ref, ofile>> /\ pc' \in [Proc -> PCs]
    BY <1>1, CallsFrame, ZenonT(30) DEF Frame, files
  <2>2. QED
    BY <1>0, <1>1, <2>1, CallsType, RingType, ZenonT(30) DEF TypeOK
<1>2. ASSUME NEW p \in Proc, NEW q \in Proc, Fork(p, q) PROVE TypeOK'
  <2>1. /\ UNCHANGED <<lock, open, freed, left, killed, exiting>>
        /\ ref' = [e \in End |-> ref[e] + IF e \in ofile[p] THEN 1 ELSE 0]
    BY <1>2, ZenonT(30) DEF Fork
  <2>2. pc' \in [Proc -> PCs] /\ ofile' \in [Proc -> SUBSET End]
    BY <1>2, ForkRefs, ZenonT(30) DEF Moved
  <2>3. ref \in [End -> 0 .. Cardinality(Proc)]
    BY <1>0, ZenonT(30) DEF TypeOK
  <2>4. ref' \in [End -> 0 .. Cardinality(Proc)]
    <3>1. ref' \in [End -> Int]
      BY <2>1, <2>3
    <3>2. QED
      BY <1>0, <3>1, RefType, ZenonT(30)
  <2>5. QED
    BY <1>0, <2>1, <2>2, <2>4, RingType, ZenonT(30) DEF TypeOK
<1>3. ASSUME NEW p \in Proc, NEW e \in End, fileclose(p, e) PROVE TypeOK'
  <2>1. /\ UNCHANGED <<lock, open, freed, left, killed, exiting>>
        /\ ref' = [ref EXCEPT ![e] = @ - 1]
    BY <1>3, ZenonT(30) DEF fileclose
  <2>2. pc' \in [Proc -> PCs] /\ ofile' \in [Proc -> SUBSET End]
    BY <1>3, CloseRefs, ZenonT(30) DEF Moved
  <2>3. ref \in [End -> 0 .. Cardinality(Proc)]
    BY <1>0, ZenonT(30) DEF TypeOK
  <2>4. ref' \in [End -> 0 .. Cardinality(Proc)]
    <3>1. ref' \in [End -> Int]
      BY <2>1, <2>3
    <3>2. QED
      BY <1>0, <3>1, RefType, ZenonT(30)
  <2>5. QED
    BY <1>0, <2>1, <2>2, <2>4, RingType, ZenonT(30) DEF TypeOK
<1>4. ASSUME NEW p \in Proc, NEW e \in End, pipeclose(p, e) PROVE TypeOK'
  <2>1. UNCHANGED <<lock, ref, ofile, left, killed, exiting>> /\ freed' = BothClosed(e)
    BY <1>4, ZenonT(30) DEF pipeclose
  <2>2. pc' \in [Proc -> PCs] /\ open' \in [End -> BOOLEAN]
    BY <1>4, ClosePcs, CloseOthers, ZenonT(30)
  <2>3. freed' \in BOOLEAN
    BY <2>1, ZenonT(30) DEF BothClosed
  <2>4. QED
    BY <1>0, <2>1, <2>2, <2>3, RingType, ZenonT(30) DEF TypeOK
<1>5. QED
  BY <1>1, <1>2, <1>3, <1>4, ZenonT(30) DEF Moves

-----------------------------------------------------------------------------
(* pipealloc() and sys_pipe() establish the invariant.                     *)
LEMMA InitIInv == Init => IInv
<1> SUFFICES ASSUME Init PROVE IInv
  BY ZenonT(30)
<1>0. /\ IsFiniteSet(Proc) /\ First \in Proc /\ None \notin Proc /\ 1 \in Byte
      /\ PIPESIZE \in Nat \ {0} /\ UINT \in Nat /\ MaxN \in Nat \ {0} /\ UINT > PIPESIZE
  BY PipeAssumption, ZenonT(30)
<1>1. /\ lock = None /\ nread = 0 /\ nwrite = 0
      /\ open = [e \in End |-> TRUE] /\ freed = FALSE
      /\ \A e \in End : open[e] /\ ref[e] = 1
      /\ \A p \in Proc : /\ p # First => ofile[p] = {} /\ pc[p] = "unused"
                         /\ p = First => ofile[p] = End /\ pc[p] = "user"
  BY ZenonT(30) DEF Init
<1>2. \A e \in End : Holders(e) = {First} /\ Cardinality(Holders(e)) = 1
  <2>1. \A e \in End : Holders(e) = {First}
    BY <1>0, <1>1, ZenonT(30) DEF Holders
  <2>2. QED
    BY <2>1, FS_Singleton, ZenonT(30)
<1>3. Refs
  BY <1>1, <1>2, ZenonT(30) DEF Refs
<1>4. TypeOK
  <2>1. Cardinality(Proc) \in Nat /\ Cardinality(Proc) >= 1
    <3>1. IsFiniteSet({First}) /\ {First} \subseteq Proc /\ Cardinality({First}) = 1
      BY <1>0, FS_Singleton, ZenonT(30)
    <3>2. Cardinality({First}) <= Cardinality(Proc) /\ Cardinality(Proc) \in Nat
      BY <1>0, <3>1, FS_Subset, FS_CardinalityType, ZenonT(30)
    <3>3. QED
      BY <3>1, <3>2, ZenonT(30)
  <2>2. ref \in [End -> 0 .. Cardinality(Proc)]
    BY <2>1 DEF Init
  <2>3. nread \in 0 .. UINT - 1 /\ nwrite \in 0 .. UINT - 1 /\ left \in [Proc -> 0 .. MaxN]
    BY <1>0 DEF Init
  <2>4. /\ lock \in Proc \cup {None} /\ data \in [0 .. PIPESIZE - 1 -> Byte]
        /\ open \in [End -> BOOLEAN] /\ freed \in BOOLEAN
        /\ ofile \in [Proc -> SUBSET End]
        /\ killed \in [Proc -> BOOLEAN] /\ exiting \in [Proc -> BOOLEAN]
    BY <1>0, ZenonT(30) DEF Init
  <2>5. pc \in [Proc -> {"unused", "user", "write", "wsleep", "wwoken", "read", "copy",
                         "rsleep", "rwoken", "closeread", "closewrite", "zombie"}]
    BY ZenonT(30) DEF Init
  <2>6. QED
    BY <2>2, <2>3, <2>4, <2>5, ZenonT(30) DEF TypeOK
<1>5. \A p \in Proc : pc[p] \notin InWrite \cup InRead \cup Inside /\ \A e \in End : pc[p] # CloseLabel[e]
  BY <1>1, Labels, ZenonT(30) DEF InWrite, InRead, Inside
<1>6. Through /\ Locked
  BY <1>0, <1>1, <1>5, ZenonT(30) DEF Through, Locked
<1>7. Ends
  <2>1. End # {}
    BY ZenonT(30) DEF End
  <2>2. QED
    BY <1>1, <1>5, <2>1, ZenonT(30) DEF Ends
<1>8. NoMissedWakeup
  BY <1>5, ZenonT(30) DEF NoMissedWakeup, InWrite, InRead
<1>9. Room
  BY <1>0, <1>1 DEF Room, Used
<1>10. QED
  BY <1>3, <1>4, <1>6, <1>7, <1>8, <1>9, ZenonT(30) DEF IInv

(* Every step keeps it.                                                    *)
LEMMA NextIInv == IInv /\ [Next]_vars => IInv'
<1>1. IInv /\ Moves => IInv'
  BY NextTypeOK, NextRefs, NextThrough, NextEnds, NextLocked, NextWakeups, NextRoom,
     ZenonT(30) DEF IInv
<1>2. ASSUME IInv, UNCHANGED vars PROVE IInv'
  <2>1. UNCHANGED <<lock, data, nread, nwrite, open, freed, ref, ofile, pc, left, killed, exiting>>
    BY <1>2, ZenonT(30) DEF vars, ring, files
  <2>2. TypeOK' /\ Room'
    BY <1>2, <2>1, ZenonT(30) DEF IInv, TypeOK, Room, Used
  <2>3. Refs' /\ Through' /\ Ends' /\ Locked'
    BY <1>2, <2>1, ZenonT(30) DEF IInv, Refs, Holders, Through, Ends, Locked
  <2>4. NoMissedWakeup'
    BY <1>2, <2>1, ZenonT(30) DEF IInv, NoMissedWakeup, empty, full
  <2>5. QED
    BY <2>2, <2>3, <2>4, ZenonT(30) DEF IInv
<1>3. QED
  BY <1>1, <1>2, NextMoves, ZenonT(30)

(* The inductive invariant holds throughout.                               *)
LEMMA Invariance == Spec => []IInv
  BY InitIInv, NextIInv, PTL DEF Spec

(* Nobody is inside a pipe that is freed: who is has a descriptor.         *)
LEMMA FreedIsIdle == IInv => NoUseAfterFree
<1> SUFFICES ASSUME IInv, freed PROVE NoUseAfterFree
  BY ZenonT(30) DEF NoUseAfterFree
<1>1. \A e \in End : ~open[e]
  BY ZenonT(30) DEF IInv, Ends
<1>2. ASSUME NEW p \in Proc
      PROVE  /\ pc[p] \notin InWrite \cup InRead
             /\ \A e \in End : pc[p] # CloseLabel[e]
  <2>1. pc[p] \in InWrite => "write" \in ofile[p]
    BY ZenonT(30) DEF IInv, Through
  <2>2. pc[p] \in InRead => "read" \in ofile[p]
    BY ZenonT(30) DEF IInv, Through
  <2>3. "write" \notin ofile[p] /\ "read" \notin ofile[p]
    BY <1>1, HasEnd, ZenonT(30) DEF End
  <2>4. \A e \in End : pc[p] # CloseLabel[e]
    BY <1>1, ZenonT(30) DEF IInv, Ends
  <2>5. QED
    BY <2>1, <2>2, <2>3, <2>4, ZenonT(30)
<1>3. \A p \in Proc : pc[p] \in {"unused", "user", "zombie"}
  <2>1. pc \in [Proc -> PCs]
    BY ZenonT(30) DEF IInv, TypeOK, PCs
  <2>2. QED
    BY <1>2, <2>1, Labels, ZenonT(30) DEF PCs, InWrite, InRead, End
<1>4. lock = None
  <2>1. Locked /\ lock \in Proc \cup {None}
    BY ZenonT(30) DEF IInv, TypeOK
  <2>2. QED
    BY <1>3, <2>1, ZenonT(30) DEF Locked, Inside
<1>5. QED
  BY <1>3, <1>4, ZenonT(30) DEF NoUseAfterFree

(* The pipe exists for as long as anybody can reach it: whatever the order *)
(* in which its processes fork, close, are killed and exit, pipeclose()    *)
(* frees the page when nobody is inside it or on the way to its lock.      *)
THEOREM PipeOutlivesUsers == Spec => []PipeIntact
<1>1. IInv => PipeIntact
  BY FreedIsIdle, ZenonT(30) DEF PipeIntact, IInv
<1>2. QED
  BY <1>1, Invariance, PTL

(* No reader or writer sleeps through what it waits for, except a reader   *)
(* after a writer that was killed on a full ring.                          *)
THEOREM PipeMissesNoWakeup == Spec => []NoMissedWakeup
<1>1. IInv => NoMissedWakeup
  BY ZenonT(30) DEF IInv
<1>2. QED
  BY <1>1, Invariance, PTL

-----------------------------------------------------------------------------
(* Functions on 1 .. n are sequences.                                      *)
LEMMA IsSeq ==
  ASSUME NEW S, NEW n \in Nat, NEW s \in [1 .. n -> S]
  PROVE  s \in Seq(S) /\ Len(s) = n
  OBVIOUS

(* One more element at the end.                                            *)
LEMMA IsAppend ==
  ASSUME NEW S, NEW n \in Nat, NEW s \in [1 .. n -> S], NEW t \in [1 .. n + 1 -> S],
         NEW e \in S, t[n + 1] = e, \A k \in 1 .. n : t[k] = s[k]
  PROVE  t = Append(s, e)
<1>1. s \in Seq(S) /\ Len(s) = n /\ t \in Seq(S) /\ Len(t) = n + 1
  BY IsSeq
<1>2. QED
  BY <1>1

(* All but the first element.                                              *)
LEMMA IsTail ==
  ASSUME NEW S, NEW n \in Nat, NEW s \in [1 .. n + 1 -> S], NEW t \in [1 .. n -> S],
         \A k \in 1 .. n : t[k] = s[k + 1]
  PROVE  t = Tail(s) /\ s # <<>>
<1>1. s \in Seq(S) /\ Len(s) = n + 1 /\ t \in Seq(S) /\ Len(t) = n /\ n + 1 # 0
  BY IsSeq
<1>2. QED
  BY <1>1

(* The queue of the refinement mapping, and the byte of the ring that a    *)
(* counter leads to.                                                       *)
Bytes == [k \in 1 .. (nwrite - nread + UINT) % UINT |-> data[(nread + k - 1) % PIPESIZE]]
Slot(x) == x % PIPESIZE

(* Counters UINT apart lead to the same byte, counters less than PIPESIZE  *)
(* apart to different ones.                                                *)
LEMMA Slots ==
  /\ \A x \in Nat : Slot(x) \in 0 .. PIPESIZE - 1 /\ Slot(x + UINT) = Slot(x)
  /\ \A x, y \in Nat : x < y /\ y < x + PIPESIZE => Slot(y) # Slot(x)
<1>1. PIPESIZE \in Nat \ {0}
  BY PipeAssumption, ZenonT(30)
<1>2. \A x \in Nat : Slot(x) \in 0 .. PIPESIZE - 1
  BY <1>1, DivMod, ZenonT(30) DEF Slot
<1>3. \A x \in Nat : Slot(x + UINT) = Slot(x)
  BY Whole, ZenonT(30) DEF Slot
<1>4. \A x, y \in Nat : x < y /\ y < x + PIPESIZE => Slot(y) # Slot(x)
  BY <1>1, Apart, ZenonT(30) DEF Slot
<1>5. QED
  BY <1>2, <1>3, <1>4, ZenonT(30)

(* As many bytes as the counters are apart, in the order of the counters.  *)
LEMMA BytesAre ==
  /\ IInv => Bytes = [k \in 1 .. Used |-> data[Slot(nread + k - 1)]]
  /\ IInv' => Bytes' = [k \in 1 .. Used' |-> data'[Slot(nread' + k - 1)]]
<1>1. IInv => (nwrite - nread + UINT) % UINT = Used
  BY Length, ZenonT(30) DEF IInv, TypeOK, Used
<1>2. IInv' => (nwrite' - nread' + UINT) % UINT = Used'
  BY Length, ZenonT(30) DEF IInv, TypeOK, Used
<1>3. QED
  BY <1>1, <1>2, ZenonT(30) DEF Bytes, Slot

(* pipewrite() appends the byte, and none of those in the ring is lost.    *)
LEMMA PutsByte ==
  ASSUME IInv, IInv', NEW p \in Proc, WriteByte(p)
  PROVE  /\ \E b \in Byte : Bytes' = Append(Bytes, b)
         /\ Len(Bytes) < PIPESIZE
<1> DEFINE n == Used
<1>1. PICK b \in Byte : data' = [data EXCEPT ![Slot(nwrite)] = b]
  BY ZenonT(30) DEF WriteByte, Slot
<1>2. n \in 0 .. PIPESIZE - 1 /\ Used' = n + 1 /\ UNCHANGED nread /\ n \in Nat
  BY Puts, PipeAssumption
<1>3. /\ data \in [0 .. PIPESIZE - 1 -> Byte] /\ data' \in [0 .. PIPESIZE - 1 -> Byte]
      /\ nread \in 0 .. UINT - 1 /\ nwrite \in 0 .. UINT - 1 /\ nread \in Nat /\ nwrite \in Nat
      /\ PIPESIZE \in Nat \ {0} /\ UINT \in Nat
  BY PipeAssumption DEF IInv, TypeOK
<1>4. /\ Bytes = [k \in 1 .. n |-> data[Slot(nread + k - 1)]]
      /\ Bytes' = [k \in 1 .. n + 1 |-> data'[Slot(nread + k - 1)]]
  BY <1>2, BytesAre, ZenonT(30)
<1>5. nread + n \in Nat /\ Slot(nread + n) = Slot(nwrite)
  <2> DEFINE z == nread + n
  <2>1. z \in Nat /\ (z = nwrite \/ z = nwrite + UINT)
    BY <1>2, <1>3 DEF Used
  <2> HIDE DEF z
  <2>2. Slot(z) = Slot(nwrite)
    BY <1>3, <2>1, Slots, ZenonT(30)
  <2>3. QED
    BY <2>1, <2>2, ZenonT(30) DEF z
<1> HIDE DEF n
<1>6. \A k \in 1 .. n + 1 : Slot(nread + k - 1) \in 0 .. PIPESIZE - 1
  <2> TAKE k \in 1 .. n + 1
  <2>1. nread + k - 1 \in Nat
    BY <1>2, <1>3
  <2>2. QED
    BY <2>1, Slots, ZenonT(30)
<1>7. Bytes \in [1 .. n -> Byte] /\ Bytes' \in [1 .. n + 1 -> Byte]
  <2>1. \A k \in 1 .. n : k \in 1 .. n + 1
    BY <1>2
  <2>2. QED
    BY <1>3, <1>4, <1>6, <2>1, ZenonT(30)
<1>8. \A k \in 1 .. n : Bytes'[k] = Bytes[k]
  <2> TAKE k \in 1 .. n
  <2> DEFINE x == nread + k - 1
             y == nread + n
  <2>1. x \in Nat /\ y \in Nat /\ x < y /\ y < x + PIPESIZE
    BY <1>2, <1>3
  <2> HIDE DEF x, y
  <2>2. Slot(y) # Slot(x) /\ Slot(x) \in 0 .. PIPESIZE - 1
    BY <2>1, Slots, ZenonT(30)
  <2>3. Slot(x) # Slot(nwrite)
    BY <1>5, <2>2, ZenonT(30) DEF y
  <2>4. data'[Slot(x)] = data[Slot(x)]
    BY <1>1, <1>3, <2>2, <2>3, ZenonT(30)
  <2>5. k \in 1 .. n + 1
    BY <1>2
  <2>6. QED
    BY <1>4, <2>4, <2>5, ZenonT(30) DEF x
<1>9. Bytes'[n + 1] = b
  <2>1. n + 1 \in 1 .. n + 1 /\ nread + (n + 1) - 1 = nread + n
    BY <1>2, <1>3
  <2>2. Slot(nwrite) \in 0 .. PIPESIZE - 1
    BY <1>3, Slots, ZenonT(30)
  <2>3. data'[Slot(nread + n)] = b
    BY <1>1, <1>3, <1>5, <2>2, ZenonT(30)
  <2>4. QED
    BY <1>4, <2>1, <2>3, ZenonT(30)
<1>10. Bytes' = Append(Bytes, b)
  BY <1>2, <1>7, <1>8, <1>9, IsAppend
<1>11. Len(Bytes) = n
  BY <1>2, <1>7, IsSeq, ZenonT(30)
<1>12. QED
  BY <1>2, <1>3, <1>10, <1>11

(* piperead() takes the oldest byte.                                       *)
LEMMA GetsByte ==
  ASSUME IInv, IInv', NEW p \in Proc, ReadByte(p)
  PROVE  Bytes' = Tail(Bytes) /\ Bytes # <<>>
<1> DEFINE n == Used'
<1>1. /\ n \in Nat /\ Used = n + 1 /\ UNCHANGED data
      /\ nread' = IF nread + 1 < UINT THEN nread + 1 ELSE 0
  BY Gets, PipeAssumption
<1>2. /\ data \in [0 .. PIPESIZE - 1 -> Byte]
      /\ nread \in 0 .. UINT - 1 /\ nread \in Nat /\ nread' \in Nat
      /\ PIPESIZE \in Nat \ {0} /\ UINT \in Nat
  BY PipeAssumption DEF IInv, TypeOK
<1>3. /\ Bytes = [k \in 1 .. n + 1 |-> data[Slot(nread + k - 1)]]
      /\ Bytes' = [k \in 1 .. n |-> data[Slot(nread' + k - 1)]]
  BY <1>1, BytesAre, ZenonT(30)
<1> HIDE DEF n
<1>4. \A k \in Nat \ {0} : /\ Slot(nread + k - 1) \in 0 .. PIPESIZE - 1
                           /\ Slot(nread' + k - 1) \in 0 .. PIPESIZE - 1
                           /\ Slot(nread' + k - 1) = Slot(nread + (k + 1) - 1)
  <2> TAKE k \in Nat \ {0}
  <2> DEFINE x == nread + k - 1
             y == nread' + k - 1
             z == nread + (k + 1) - 1
  <2>1. x \in Nat /\ y \in Nat /\ z \in Nat /\ (z = y \/ z = y + UINT)
    BY <1>1, <1>2
  <2> HIDE DEF x, y, z
  <2>2. Slot(x) \in 0 .. PIPESIZE - 1 /\ Slot(y) \in 0 .. PIPESIZE - 1 /\ Slot(y) = Slot(z)
    BY <2>1, Slots, ZenonT(30)
  <2>3. QED
    BY <2>2, ZenonT(30) DEF x, y, z
<1>5. \A k \in 1 .. n + 1 : k \in Nat \ {0}
  BY <1>1
<1>6. \A k \in 1 .. n : k \in 1 .. n + 1 /\ k + 1 \in 1 .. n + 1
  BY <1>1
<1>7. Bytes \in [1 .. n + 1 -> Byte] /\ Bytes' \in [1 .. n -> Byte]
  BY <1>2, <1>3, <1>4, <1>5, <1>6, ZenonT(30)
<1>8. \A k \in 1 .. n : Bytes'[k] = Bytes[k + 1]
  BY <1>3, <1>4, <1>5, <1>6, ZenonT(30)
<1>9. QED
  BY <1>1, <1>7, <1>8, IsTail, ZenonT(30)

(* What a step does to the two ends: only pipeclose() changes them.        *)
LEMMA EndSteps ==
  ASSUME IInv, Moves
  PROVE  \/ UNCHANGED open
         \/ \E p \in Proc, e \in End : pipeclose(p, e)
<1>1. ASSUME NEW p \in Proc, Calls(p) PROVE UNCHANGED open
  BY <1>1, CallsFrame, ZenonT(30) DEF Frame, files
<1>2. ASSUME NEW p \in Proc, NEW q \in Proc, Fork(p, q) PROVE UNCHANGED open
  BY <1>2, ForkRefs, ZenonT(30)
<1>3. ASSUME NEW p \in Proc, NEW e \in End, fileclose(p, e) PROVE UNCHANGED open
  BY <1>3, CloseRefs, ZenonT(30)
<1>4. QED
  BY <1>1, <1>2, <1>3, ZenonT(30) DEF Moves

(* Every step of the pipe is a step of the queue, or invisible to it.      *)
LEMMA StepRefines == IInv /\ IInv' /\ [Next]_vars => [Queue!Next]_(Queue!vars)
<1> SUFFICES ASSUME IInv, IInv', [Next]_vars PROVE Queue!Next \/ UNCHANGED Queue!vars
  BY ZenonT(30)
<1>1. ASSUME UNCHANGED <<ring, open>> PROVE UNCHANGED Queue!vars
  BY <1>1, ZenonT(30) DEF Queue!vars, ring
<1>2. ASSUME NEW p \in Proc, WriteByte(p) PROVE Queue!Next
  <2>1. UNCHANGED open
    BY <1>2, ZenonT(30) DEF WriteByte, files
  <2>2. open["write"]
    <3>1. "write" \in ofile[p]
      BY <1>2, ZenonT(30) DEF WriteByte, IInv, Through, InWrite
    <3>2. QED
      BY <3>1, HasEnd, ZenonT(30) DEF End
  <2>3. PICK b \in Byte : Bytes' = Append(Bytes, b) /\ Len(Bytes) < PIPESIZE
    BY <1>2, PutsByte, ZenonT(30)
  <2>4. Queue!Put(b)
    BY <2>1, <2>2, <2>3, ZenonT(30) DEF Queue!Put, Bytes
  <2>5. QED
    BY <2>4, ZenonT(30) DEF Queue!Next
<1>3. ASSUME NEW p \in Proc, ReadByte(p) PROVE Queue!Next
  <2>1. UNCHANGED open
    BY <1>3, ZenonT(30) DEF ReadByte, files
  <2>2. open["read"]
    <3>1. "read" \in ofile[p]
      BY <1>3, ZenonT(30) DEF ReadByte, IInv, Through, InRead
    <3>2. QED
      BY <3>1, HasEnd, ZenonT(30) DEF End
  <2>3. Bytes' = Tail(Bytes) /\ Bytes # <<>>
    BY <1>3, GetsByte, ZenonT(30)
  <2>4. Queue!Get
    BY <2>1, <2>2, <2>3, ZenonT(30) DEF Queue!Get, Bytes
  <2>5. QED
    BY <2>4, ZenonT(30) DEF Queue!Next
<1>4. ASSUME NEW p \in Proc, NEW e \in End, pipeclose(p, e) PROVE Queue!Next
  <2>1. UNCHANGED ring /\ open' = [open EXCEPT ![e] = FALSE] /\ pc[p] = CloseLabel[e]
    BY <1>4, ZenonT(30) DEF pipeclose
  <2>2. Bytes' = Bytes
    BY <2>1, ZenonT(30) DEF Bytes, ring
  <2>3. open[e] /\ open \in [End -> BOOLEAN]
    BY <2>1, ZenonT(30) DEF IInv, Ends, TypeOK
  <2>4. CASE e = "read"
    <3>1. open["read"] = TRUE /\ open'["read"] = FALSE /\ open'["write"] = open["write"]
      BY <2>1, <2>3, <2>4, ZenonT(30) DEF End
    <3>2. Queue!CloseRead
      BY <2>2, <3>1, ZenonT(30) DEF Queue!CloseRead, Bytes
    <3>3. QED
      BY <3>2, ZenonT(30) DEF Queue!Next
  <2>5. CASE e = "write"
    <3>1. open["write"] = TRUE /\ open'["write"] = FALSE /\ open'["read"] = open["read"]
      BY <2>1, <2>3, <2>5, ZenonT(30) DEF End
    <3>2. Queue!CloseWrite
      BY <2>2, <3>1, ZenonT(30) DEF Queue!CloseWrite, Bytes
    <3>3. QED
      BY <3>2, ZenonT(30) DEF Queue!Next
  <2>6. QED
    BY <2>4, <2>5, ZenonT(30) DEF End
<1>5. CASE UNCHANGED vars
  <2>1. UNCHANGED <<ring, open>>
    BY <1>5, ZenonT(30) DEF vars, files
  <2>2. QED
    BY <1>1, <2>1, ZenonT(30)
<1>6. CASE Moves
  BY <1>1, <1>2, <1>3, <1>4, <1>6, RingSteps, EndSteps, ZenonT(30)
<1>7. QED
  BY <1>5, <1>6, NextMoves, ZenonT(30)

(* The ring of pipe.c is a bounded queue of bytes, for every size and also *)
(* when nread and nwrite wrap around: bytes come out in the order in which *)
(* they went in, none is lost or overwritten, and a closed end stays       *)
(* closed.                                                                 *)
THEOREM PipeIsQueue == Spec => RingIsQueue
<1>1. Init => Queue!Init
  <2> SUFFICES ASSUME Init PROVE Queue!Init
    BY ZenonT(30)
  <2>1. open["read"] = TRUE /\ open["write"] = TRUE
    BY ZenonT(30) DEF Init, End
  <2>2. Bytes = <<>>
    <3>1. Bytes = [k \in 1 .. Used |-> data[Slot(nread + k - 1)]]
      BY InitIInv, BytesAre, ZenonT(30)
    <3>2. Used = 0
      BY DEF Init, Used
    <3>3. Bytes \in [1 .. 0 -> {data[Slot(nread + k - 1)] : k \in 1 .. 0}]
      BY <3>1, <3>2, ZenonT(30)
    <3>4. Bytes \in Seq({data[Slot(nread + k - 1)] : k \in 1 .. 0}) /\ Len(Bytes) = 0
      BY <3>3, IsSeq, ZenonT(30)
    <3>5. QED
      BY <3>4
  <2>3. QED
    BY <2>1, <2>2, ZenonT(30) DEF Queue!Init, Bytes
<1>2. QED
  BY <1>1, Invariance, StepRefines, PTL DEF Spec, RingIsQueue, Queue!Spec

=============================================================================
