---------------------------- MODULE SchedProofs ----------------------------
(***************************************************************************)
(* The lottery and the stride scheduler on any finite set of processors    *)
(* with any table of processes and any numbers of tickets: a process runs  *)
(* on one processor at a time, and the passes of stride_scheduler() are    *)
(* not negative and below max plus one stride per processor, as long as    *)
(* nobody has asked for a negative number of tickets.                      *)
(***************************************************************************)
EXTENDS Sched, FiniteSetTheorems, TLAPS

(* c->proc is set while a process runs; the process is RUNNING, and on no  *)
(* other processor.                                                        *)
Placed ==
  /\ \A c \in CPU : on[c] # None <=> spc[c] = "run"
  /\ \A c, d \in CPU : on[c] = on[d] /\ on[c] # None => c = d
  /\ \A s \in Slot : state[s] = "RUNNING" <=> \E c \in CPU : on[c] = s

(* The child that fork() is about to start is an EMBRYO, and one parent's. *)
Forked ==
  /\ \A s \in Slot : forking[s] \in Slot => state[forking[s]] = "EMBRYO"
  /\ \A s, t \in Slot : forking[s] \in Slot /\ forking[s] = forking[t] => s = t

(* The processors that have seen s below max and will add its stride: each *)
(* has room for one.                                                       *)
Pending(s) ==
  {c \in CPU : policy = "stride" /\ spc[c] = "choose" /\ min[c] = s /\ ~atmax[c]}
Limit == max + Cardinality(CPU) * TOTAL_MAX_TICKETS
Room ==
  \A s \in Slot : pass[s] + TOTAL_MAX_TICKETS * Cardinality(Pending(s)) < Limit

(* No number is negative until somebody asks for one.                      *)
Natural == \A s \in Slot : tickets[s] \in Nat /\ stride[s] \in Nat /\ pass[s] \in Nat

IInv == TypeOK /\ Placed /\ Forked /\ (negative \/ (Natural /\ Room))

States == {"UNUSED", "EMBRYO", "SLEEPING", "RUNNABLE", "RUNNING", "ZOMBIE"}
Phases == {"look", "choose", "run"}

-----------------------------------------------------------------------------
(* Numbers.                                                                *)

(* None and Reset are not slots, and None is not a processor.              *)
LEMMA NoneIsNothing == None \notin Slot /\ None \notin CPU /\ Reset \notin Slot
<1>1. Slot \subseteq Nat /\ Reset \notin Slot BY SchedAssumption DEF Slot, Reset
<1> QED BY <1>1, SchedAssumption, Zenon

(* The small numbers are ints.                                             *)
LEMMA Ints ==
  /\ INT_MAX \in Nat /\ Limit \in Nat /\ Limit <= INT_MAX
  /\ 0 \in int /\ 1 \in int /\ - TOTAL_MAX_TICKETS .. TOTAL_MAX_TICKETS \subseteq int
<1>1. /\ max \in Nat /\ TOTAL_MAX_TICKETS \in Nat /\ TOTAL_MAX_TICKETS < max /\ INT_MAX \in Nat
      /\ max + Cardinality(CPU) * TOTAL_MAX_TICKETS <= INT_MAX /\ Cardinality(CPU) \in Nat
  BY SchedAssumption, FS_CardinalityType
<1>. DEFINE k == Cardinality(CPU)
<1>2. k * TOTAL_MAX_TICKETS \in Nat BY <1>1
<1>. DEFINE m == k * TOTAL_MAX_TICKETS
<1>3. m \in Nat /\ max + m <= INT_MAX /\ Limit = max + m BY <1>1, <1>2 DEF Limit
<1>. HIDE DEF m, k
<1> QED BY <1>1, <1>3 DEF int

(* Tickets are ints.                                                       *)
LEMMA TicketsInt == ASSUME TypeOK, NEW s \in Slot PROVE tickets[s] \in int
<1>1. tickets[s] \in Tickets \cup {0, 1} BY Zenon DEF TypeOK, DEFAULT_TICKETS
<1>2. Tickets \subseteq int BY SchedAssumption, Zenon
<1> QED BY <1>1, <1>2, Ints, Zenon

(* The sum of two ints is an int, and exact if it does not overflow.       *)
LEMMA PlusInt ==
  ASSUME NEW a \in int, NEW b \in int
  PROVE  plus(a, b) \in int /\ (a + b \in int => plus(a, b) = a + b)
<1>1. INT_MAX \in Nat BY Ints
<1> QED BY <1>1 DEF plus, int

(* A stride is at most TOTAL_MAX_TICKETS, and negative only for a negative *)
(* number of tickets.                                                      *)
LEMMA StrideBounded ==
  ASSUME TypeOK, NEW s \in Slot, tickets[s] # 0
  PROVE  /\ StrideOf(s) \in - TOTAL_MAX_TICKETS .. TOTAL_MAX_TICKETS
         /\ tickets[s] \in Nat => StrideOf(s) \in 0 .. TOTAL_MAX_TICKETS
<1>1. tickets[s] \in Int /\ TOTAL_MAX_TICKETS \in Nat
  <2>1. INT_MAX \in Nat BY Ints
  <2> QED BY <2>1, SchedAssumption, TicketsInt DEF int
<1>2. \A a \in Nat, b \in Nat \ {0} : a \div b \in 0 .. a OBVIOUS
<1>3. CASE tickets[s] > 0
  <2>1. tickets[s] \in Nat \ {0} BY <1>1, <1>3
  <2>2. StrideOf(s) = TOTAL_MAX_TICKETS \div tickets[s] BY <1>3 DEF StrideOf
  <2>3. StrideOf(s) \in 0 .. TOTAL_MAX_TICKETS BY <1>1, <1>2, <2>1, <2>2
  <2> QED BY <1>1, <2>3
<1>4. CASE ~(tickets[s] > 0)
  <2>1. - tickets[s] \in Nat \ {0} /\ tickets[s] \notin Nat BY <1>1, <1>4
  <2>2. StrideOf(s) = - (TOTAL_MAX_TICKETS \div (- tickets[s])) BY <1>4 DEF StrideOf
  <2>3. TOTAL_MAX_TICKETS \div (- tickets[s]) \in 0 .. TOTAL_MAX_TICKETS BY <1>1, <1>2, <2>1
  <2> QED BY <1>1, <2>1, <2>2, <2>3
<1> QED BY <1>3, <1>4

(* Sets of processors are finite, and none is larger than CPU.             *)
LEMMA CPUs ==
  ASSUME NEW P \in SUBSET CPU
  PROVE  /\ IsFiniteSet(P) /\ Cardinality(P) \in Nat /\ Cardinality(CPU) \in Nat
         /\ Cardinality(P) <= Cardinality(CPU)
<1>1. IsFiniteSet(CPU) BY SchedAssumption
<1>2. IsFiniteSet(P) /\ Cardinality(P) <= Cardinality(CPU) BY <1>1, FS_Subset
<1> QED BY <1>1, <1>2, FS_CardinalityType

(* Products of natural numbers are ordered as their factors.               *)
LEMMA Product ==
  ASSUME NEW a \in Nat, NEW b \in Nat, NEW t \in Nat, a <= b
  PROVE  /\ t * a \in Nat /\ t * b \in Nat /\ t * a <= t * b
         /\ a < b => t * a + t <= t * b
         /\ a * t = t * a
<1>1. t * a \in Nat /\ t * b \in Nat /\ a * t = t * a OBVIOUS
<1>2. PICK d \in Nat : b = a + d BY b - a \in Nat
<1>3. t * b = t * a + t * d /\ t * d \in Nat BY <1>2
<1>4. ASSUME a < b PROVE t <= t * d
  <2>1. PICK e \in Nat : d = e + 1 BY <1>2, <1>4, d - 1 \in Nat
  <2>2. t * d = t * e + t /\ t * e \in Nat BY <2>1
  <2> QED BY <2>2
<1> QED BY <1>1, <1>3, <1>4

(* Room for a pass below max, whoever else is pending.                     *)
LEMMA RoomBelowMax ==
  ASSUME NEW P \in SUBSET CPU, NEW x \in Nat, x < max
  PROVE  x + TOTAL_MAX_TICKETS * Cardinality(P) < Limit
<1>1. /\ Cardinality(P) \in Nat /\ Cardinality(CPU) \in Nat
      /\ Cardinality(P) <= Cardinality(CPU)
  BY CPUs, ZenonT(30)
<1>2. TOTAL_MAX_TICKETS \in Nat /\ max \in Nat BY SchedAssumption, ZenonT(30)
<1>3. /\ TOTAL_MAX_TICKETS * Cardinality(P) \in Nat
      /\ TOTAL_MAX_TICKETS * Cardinality(P) <= TOTAL_MAX_TICKETS * Cardinality(CPU)
      /\ TOTAL_MAX_TICKETS * Cardinality(CPU) \in Nat
      /\ Cardinality(CPU) * TOTAL_MAX_TICKETS = TOTAL_MAX_TICKETS * Cardinality(CPU)
  BY <1>1, <1>2, Product
<1> QED BY <1>2, <1>3 DEF Limit

(* Room stays when the pass does not grow and nobody becomes pending.      *)
LEMMA RoomKept ==
  ASSUME NEW P \in SUBSET CPU, NEW Q \in SUBSET P, NEW x \in Nat, NEW y \in Nat, y <= x,
         x + TOTAL_MAX_TICKETS * Cardinality(P) < Limit
  PROVE  y + TOTAL_MAX_TICKETS * Cardinality(Q) < Limit
<1>1. /\ Cardinality(P) \in Nat /\ Cardinality(Q) \in Nat /\ Cardinality(CPU) \in Nat
      /\ Cardinality(Q) <= Cardinality(P)
  <2>1. IsFiniteSet(P) /\ Cardinality(P) \in Nat /\ Cardinality(CPU) \in Nat BY CPUs
  <2>2. IsFiniteSet(Q) /\ Cardinality(Q) <= Cardinality(P) BY <2>1, FS_Subset
  <2> QED BY <2>1, <2>2, FS_CardinalityType
<1>2. TOTAL_MAX_TICKETS \in Nat /\ max \in Nat BY SchedAssumption
<1>3. /\ TOTAL_MAX_TICKETS * Cardinality(P) \in Nat
      /\ TOTAL_MAX_TICKETS * Cardinality(Q) \in Nat
      /\ TOTAL_MAX_TICKETS * Cardinality(Q) <= TOTAL_MAX_TICKETS * Cardinality(P)
  BY <1>1, <1>2, Product, ZenonT(30)
<1>4. Limit \in Nat BY <1>1, <1>2, Product DEF Limit
<1> QED BY <1>3, <1>4

(* A pending processor has room for a stride.                              *)
LEMMA RoomUsed ==
  ASSUME NEW P \in SUBSET CPU, NEW c \in P, NEW x \in Nat, NEW d \in 0 .. TOTAL_MAX_TICKETS,
         x + TOTAL_MAX_TICKETS * Cardinality(P) < Limit
  PROVE  x + d + TOTAL_MAX_TICKETS * Cardinality(P \ {c}) < Limit
<1>1. IsFiniteSet(P) /\ Cardinality(P) \in Nat /\ Cardinality(CPU) \in Nat BY CPUs
<1>2. Cardinality(P \ {c}) = Cardinality(P) - 1 BY <1>1, FS_RemoveElement, ZenonT(30)
<1>3. Cardinality(P \ {c}) \in Nat
  <2>1. IsFiniteSet(P \ {c}) BY <1>1, FS_RemoveElement, ZenonT(30)
  <2> QED BY <2>1, FS_CardinalityType
<1>4. TOTAL_MAX_TICKETS \in Nat /\ max \in Nat BY SchedAssumption, ZenonT(30)
<1>5. /\ TOTAL_MAX_TICKETS * Cardinality(P) \in Nat
      /\ TOTAL_MAX_TICKETS * Cardinality(P \ {c}) \in Nat
      /\ TOTAL_MAX_TICKETS * Cardinality(P \ {c}) + TOTAL_MAX_TICKETS
           <= TOTAL_MAX_TICKETS * Cardinality(P)
  BY <1>1, <1>2, <1>3, <1>4, Product
<1>6. Limit \in Nat BY <1>1, <1>4, Product DEF Limit
<1> QED BY <1>4, <1>5, <1>6

(* A processor that is not pending has room for two strides.               *)
LEMMA RoomForTwo ==
  ASSUME NEW c \in CPU, NEW P \in SUBSET (CPU \ {c}),
         NEW x \in 0 .. TOTAL_MAX_TICKETS, NEW d \in 0 .. TOTAL_MAX_TICKETS
  PROVE  x + d + TOTAL_MAX_TICKETS * Cardinality(P) < Limit
<1>1. x < max /\ x \in Nat BY SchedAssumption
<1>2. x + TOTAL_MAX_TICKETS * Cardinality(P \cup {c}) < Limit BY <1>1, RoomBelowMax
<1>3. (P \cup {c}) \ {c} = P OBVIOUS
<1> QED BY <1>1, <1>2, <1>3, RoomUsed, ZenonT(30)

(* A sum for which there is room does not overflow.                        *)
LEMMA Exact ==
  ASSUME NEW P \in SUBSET CPU, NEW a \in Nat, NEW b \in Nat,
         a + b + TOTAL_MAX_TICKETS * Cardinality(P) < Limit
  PROVE  plus(a, b) = a + b
<1>1. Cardinality(P) \in Nat /\ TOTAL_MAX_TICKETS \in Nat BY CPUs, SchedAssumption, ZenonT(30)
<1>2. TOTAL_MAX_TICKETS * Cardinality(P) \in Nat BY <1>1
<1>3. INT_MAX \in Nat /\ Limit \in Nat /\ Limit <= INT_MAX BY Ints, ZenonT(30)
<1>. DEFINE m == TOTAL_MAX_TICKETS * Cardinality(P)
<1>4. m \in Nat /\ a + b + m < Limit BY <1>2
<1>. HIDE DEF m
<1>5. a + b \in Nat /\ ~(a + b > INT_MAX) /\ ~(a + b < - INT_MAX - 1) BY <1>3, <1>4
<1> QED BY <1>5, ZenonT(30) DEF plus

-----------------------------------------------------------------------------
(* Processes and processors.                                               *)

(* What the next steps use of the types.                                   *)
LEMMA Tables ==
  ASSUME IInv
  PROVE  /\ state \in [Slot -> States] /\ spc \in [CPU -> Phases]
         /\ on \in [CPU -> Slot \cup {None}] /\ forking \in [Slot -> Slot \cup {None, Reset}]
BY DEF IInv, TypeOK, States, Phases

(* Both schedulers run a process that they have found RUNNABLE in the same *)
(* critical section.                                                       *)
LEMMA RunPlaced ==
  ASSUME IInv, NEW c \in CPU, NEW s \in Slot, spc[c] # "run", state[s] = "RUNNABLE",
         Run(c, s), UNCHANGED forking
  PROVE  Placed' /\ Forked'
<1> USE NoneIsNothing, Tables
<1>1. /\ state' = [state EXCEPT ![s] = "RUNNING"] /\ on' = [on EXCEPT ![c] = s]
      /\ spc' = [spc EXCEPT ![c] = "run"]
  BY DEF Run, SetState
<1>2. on[c] = None /\ \A d \in CPU : on[d] # s BY ZenonT(30) DEF IInv, Placed
<1>3. \A d \in CPU : on'[d] = IF d = c THEN s ELSE on[d] BY <1>1, ZenonT(30)
<1>4. \A d \in CPU : on'[d] # None <=> spc'[d] = "run" BY <1>1, ZenonT(30) DEF IInv, Placed
<1>5. \A d, e \in CPU : on'[d] = on'[e] /\ on'[d] # None => d = e
  BY <1>2, <1>3 DEF IInv, Placed
<1>6. \A t \in Slot : state'[t] = "RUNNING" <=> \E d \in CPU : on'[d] = t
  <2>1. ASSUME NEW t \in Slot, t # s
        PROVE  state'[t] = "RUNNING" <=> \E d \in CPU : on'[d] = t
    <3>1. state'[t] = state[t] BY <1>1, <2>1
    <3>2. (\E d \in CPU : on'[d] = t) <=> \E d \in CPU : on[d] = t BY <1>2, <1>3, <2>1, ZenonT(30)
    <3> QED BY <3>1, <3>2, ZenonT(30) DEF IInv, Placed
  <2>2. state'[s] = "RUNNING" /\ on'[c] = s BY <1>1, ZenonT(30)
  <2> QED BY <2>1, <2>2, ZenonT(30)
<1>7. Forked' BY <1>1, ZenonT(30) DEF IInv, Forked
<1> QED BY <1>4, <1>5, <1>6, <1>7 DEF Placed

(* A scheduler that looks, or finds nobody, runs nobody.                   *)
LEMMA LookPlaced ==
  ASSUME IInv, NEW c \in CPU, spc[c] # "run", NEW l \in {"look", "choose"},
         spc' = [spc EXCEPT ![c] = l], UNCHANGED <<state, on, forking>>
  PROVE  Placed' /\ Forked'
<1> USE NoneIsNothing, Tables
<1>1. \A d \in CPU : on'[d] # None <=> spc'[d] = "run" BY ZenonT(30) DEF IInv, Placed
<1> QED BY <1>1 DEF IInv, Placed, Forked

(* A process that gives the processor up.                                  *)
LEMMA LeavePlaced ==
  ASSUME IInv, NEW c \in CPU, NEW v \in States \ {"RUNNING"}, Leave(c, v)
  PROVE  Placed' /\ Forked'
<1> USE NoneIsNothing, Tables
<1>. PICK s : s = on[c] OBVIOUS
<1>1. /\ state' = [state EXCEPT ![s] = v] /\ on' = [on EXCEPT ![c] = None]
      /\ spc' = [spc EXCEPT ![c] = "look"] /\ UNCHANGED forking /\ spc[c] = "run"
  BY DEF Leave, SetState, fork
<1>2. s \in Slot /\ state[s] = "RUNNING" BY <1>1 DEF IInv, Placed
<1>3. \A d \in CPU : on'[d] = IF d = c THEN None ELSE on[d] BY <1>1, ZenonT(30)
<1>4. \A d \in CPU : on'[d] # None <=> spc'[d] = "run" BY <1>1, ZenonT(30) DEF IInv, Placed
<1>5. \A d, e \in CPU : on'[d] = on'[e] /\ on'[d] # None => d = e BY <1>3 DEF IInv, Placed
<1>6. ASSUME NEW t \in Slot PROVE state'[t] = "RUNNING" <=> \E d \in CPU : on'[d] = t
  <2>1. CASE t = s
    <3>1. state'[s] # "RUNNING" BY <1>1, <1>2
    <3>2. \A d \in CPU : on'[d] # s BY <1>2, <1>3 DEF IInv, Placed
    <3> QED BY <2>1, <3>1, <3>2
  <2>2. CASE t # s
    <3>1. state'[t] = state[t] BY <1>1, <2>2
    <3>2. (\E d \in CPU : on'[d] = t) <=> \E d \in CPU : on[d] = t BY <1>3, <2>2
    <3> QED BY <3>1, <3>2, ZenonT(30) DEF IInv, Placed
  <2> QED BY <2>1, <2>2
<1>7. Forked' BY <1>1, <1>2, ZenonT(30) DEF IInv, Forked
<1> QED BY <1>4, <1>5, <1>6, <1>7 DEF Placed

(* wakeup() and wait() concern processes that do not run.                  *)
LEMMA BecomesPlaced ==
  ASSUME IInv, NEW s \in Slot, NEW u \in {"SLEEPING", "ZOMBIE"},
         NEW v \in {"RUNNABLE", "UNUSED"}, Becomes(s, u, v)
  PROVE  Placed' /\ Forked'
<1> USE NoneIsNothing, Tables
<1>1. state[s] = u /\ state' = [state EXCEPT ![s] = v] /\ UNCHANGED <<spc, on, forking>>
  BY DEF Becomes, SetState, fork
<1>2. \A t \in Slot : state'[t] = "RUNNING" <=> state[t] = "RUNNING" BY <1>1, ZenonT(30)
<1>3. Placed' BY <1>1, <1>2 DEF IInv, Placed
<1>4. Forked' BY <1>1, ZenonT(30) DEF IInv, Forked
<1> QED BY <1>3, <1>4

(* fork(): the child is an EMBRYO until it is RUNNABLE.                    *)
LEMMA ForkPlaced ==
  ASSUME IInv, NEW c \in CPU,
         ForkRunnable(c) \/ ForkFails(c) \/ ForkReset(c) \/ \E s \in Slot : allocproc(c, s)
  PROVE  Placed' /\ Forked'
<1> USE NoneIsNothing, Tables
<1>. PICK p : p = on[c] OBVIOUS
<1>0. spc[c] = "run" /\ UNCHANGED <<spc, on>>
  BY DEF ForkRunnable, ForkFails, ForkReset, allocproc
<1>1. p \in Slot BY <1>0 DEF IInv, Placed
<1>2. CASE ForkReset(c)
  <2>1. UNCHANGED state /\ forking' = [forking EXCEPT ![p] = None] BY <1>2 DEF ForkReset
  <2> QED BY <1>0, <1>1, <2>1 DEF IInv, Placed, Forked
<1>3. CASE ForkRunnable(c) \/ ForkFails(c)
  <2>. PICK k \in Slot : k = forking[p] BY <1>3 DEF ForkRunnable, ForkFails
  <2>1. \E v \in {"RUNNABLE", "UNUSED"}, f \in {Reset, None} :
          state' = [state EXCEPT ![k] = v] /\ forking' = [forking EXCEPT ![p] = f]
    BY <1>3, ZenonT(30) DEF ForkRunnable, ForkFails, SetState
  <2>2. state[k] = "EMBRYO" BY <1>1, ZenonT(30) DEF IInv, Forked
  <2>3. \A t \in Slot : state'[t] = "RUNNING" <=> state[t] = "RUNNING" BY <2>1, <2>2, ZenonT(30)
  <2>4. Placed' BY <1>0, <2>3, ZenonT(30) DEF IInv, Placed
  <2>5. \A t \in Slot : t # p => forking'[t] = forking[t] BY <1>1, <2>1, ZenonT(30)
  <2>6. forking'[p] \notin Slot
    <3>1. forking'[p] \in {Reset, None} BY <1>1, <2>1, ZenonT(30)
    <3> QED BY <3>1, ZenonT(30)
  <2>7. \A t \in Slot : forking'[t] \in Slot => t # p /\ forking[t] \in Slot /\ forking[t] # k
    <3>1. \A t, w \in Slot : forking[t] \in Slot /\ forking[t] = forking[w] => t = w
      BY ZenonT(30) DEF IInv, Forked
    <3> QED BY <1>1, <2>5, <2>6, <3>1, ZenonT(30)
  <2>8. \A t \in Slot : forking'[t] \in Slot => state'[forking'[t]] = "EMBRYO"
    BY <2>1, <2>5, <2>7 DEF IInv, Forked
  <2>9. \A t, w \in Slot : forking'[t] \in Slot /\ forking'[t] = forking'[w] => t = w
    BY <2>5, <2>7, ZenonT(30) DEF IInv, Forked
  <2> QED BY <2>4, <2>8, <2>9 DEF Forked
<1>4. ASSUME NEW s \in Slot, allocproc(c, s) PROVE Placed' /\ Forked'
  <2>1. /\ state[s] = "UNUSED" /\ state' = [state EXCEPT ![s] = "EMBRYO"]
        /\ forking' = [forking EXCEPT ![p] = s] /\ forking[p] = None
    BY <1>4 DEF allocproc, SetState
  <2>2. \A t \in Slot : state'[t] = "RUNNING" <=> state[t] = "RUNNING" BY <2>1
  <2>3. Placed' BY <1>0, <2>2, ZenonT(30) DEF IInv, Placed
  <2>4. \A t \in Slot : forking'[t] = IF t = p THEN s ELSE forking[t] BY <1>1, <2>1, ZenonT(30)
  <2>5. \A t \in Slot : forking[t] # s BY <2>1, ZenonT(30) DEF IInv, Forked
  <2>6. \A t \in Slot : forking'[t] \in Slot => state'[forking'[t]] = "EMBRYO"
    BY <2>1, <2>4, ZenonT(30) DEF IInv, Forked
  <2>7. \A t, w \in Slot : forking'[t] \in Slot /\ forking'[t] = forking'[w] => t = w
    BY <2>4, <2>5, ZenonT(30) DEF IInv, Forked
  <2> QED BY <2>3, <2>6, <2>7 DEF Forked
<1> QED BY <1>2, <1>3, <1>4

(* Every step preserves where processes run and who forks.                 *)
LEMMA NextPlaced == ASSUME IInv, Next PROVE Placed' /\ Forked'
<1>. DEFINE Good == Placed' /\ Forked'
<1>1. ASSUME NEW c \in CPU, LotteryTotal(c) \/ LotteryNobody(c) \/ StrideScan(c) \/ StrideNobody(c)
      PROVE  Good
  <2>1. /\ spc[c] # "run" /\ UNCHANGED <<state, on, forking>>
        /\ \E l \in {"look", "choose"} : spc' = [spc EXCEPT ![c] = l]
    BY <1>1 DEF LotteryTotal, LotteryNobody, StrideScan, StrideNobody, Idle, fork
  <2> QED BY <2>1, LookPlaced, ZenonT(30)
<1>2. ASSUME NEW c \in CPU, NEW s \in Slot, LotteryRun(c, s) PROVE Good
  <2>1. spc[c] # "run" /\ state[s] = "RUNNABLE" /\ Run(c, s) /\ UNCHANGED forking
    BY <1>2 DEF LotteryRun, Wins, Runnable, fork
  <2> QED BY <2>1, RunPlaced
<1>3. ASSUME NEW c \in CPU, NEW s \in Slot, StrideRun(c, s) PROVE Good
  <2>1. spc[c] # "run" /\ state[s] = "RUNNABLE" /\ Run(c, s) /\ UNCHANGED forking
    BY <1>3 DEF StrideRun, MinRunnable, fork
  <2> QED BY <2>1, RunPlaced
<1>4. ASSUME NEW c \in CPU, Leave(c, "SLEEPING") \/ Leave(c, "ZOMBIE") \/ Leave(c, "RUNNABLE")
      PROVE  Good
  BY <1>4, LeavePlaced DEF States
<1>5. ASSUME UNCHANGED <<state, spc, on, forking>> PROVE Good BY <1>5 DEF IInv, Placed, Forked
<1>6. ASSUME NEW c \in CPU,
             ForkRunnable(c) \/ ForkFails(c) \/ ForkReset(c) \/ \E s \in Slot : allocproc(c, s)
      PROVE  Good
  BY <1>6, ForkPlaced
<1>7. ASSUME NEW s \in Slot, Becomes(s, "SLEEPING", "RUNNABLE") \/ Becomes(s, "ZOMBIE", "UNUSED")
      PROVE  Good
  BY <1>7, BecomesPlaced
<1> HIDE DEF Good
<1>8. ASSUME NEW c \in CPU, LotteryTrap(c) \/ ClearPass(c) \/ \E n \in Tickets : sys_tickets(c, n)
      PROVE  Good
  BY <1>5, <1>8, ZenonT(30) DEF LotteryTrap, ClearPass, sys_tickets, fork
<1>9. ASSUME Halted PROVE Good BY <1>5, <1>9, ZenonT(30) DEF Halted, vars, fork
<1>10. Good
  BY <1>1, <1>2, <1>3, <1>4, <1>6, <1>7, <1>8, <1>9, ZenonT(60) DEF Next, Choose, Program
<1> QED BY <1>10 DEF Good

-----------------------------------------------------------------------------
(* Passes.                                                                 *)

(* What the next steps use of the types.                                   *)
LEMMA Fields ==
  ASSUME IInv, ~negative
  PROVE  /\ pass \in [Slot -> Nat] /\ stride \in [Slot -> 0 .. TOTAL_MAX_TICKETS]
         /\ spc \in [CPU -> Phases] /\ min \in [CPU -> Slot \cup {None}]
         /\ atmax \in [CPU -> BOOLEAN] /\ \A s \in Slot : Pending(s) \in SUBSET CPU
         /\ Room /\ Natural
<1>1. TypeOK /\ Natural /\ Room BY ZenonT(30) DEF IInv
<1>2. pass \in [Slot -> Nat] BY <1>1 DEF TypeOK, Natural
<1>3. stride \in [Slot -> 0 .. TOTAL_MAX_TICKETS]
  <2>1. TOTAL_MAX_TICKETS \in Nat BY SchedAssumption, ZenonT(30)
  <2> QED BY <1>1, <2>1 DEF TypeOK, Natural
<1> QED BY <1>1, <1>2, <1>3, ZenonT(30) DEF TypeOK, Phases, Pending

(* A step after which no pass is larger and no processor pending that was  *)
(* not.                                                                    *)
LEMMA NobodyPending ==
  ASSUME IInv, ~negative, policy' = policy, min' = min,
         \A s \in Slot : pass'[s] \in Nat /\ pass'[s] <= pass[s],
         \A c \in CPU : policy = "stride" /\ spc'[c] = "choose"
                           => spc[c] = "choose" /\ atmax'[c] = atmax[c]
  PROVE  Room'
<1> SUFFICES ASSUME NEW s \in Slot
             PROVE  pass'[s] + TOTAL_MAX_TICKETS * Cardinality(Pending(s)') < Limit
  BY DEF Room, Limit
<1>1. Pending(s)' \in SUBSET Pending(s) /\ Pending(s) \in SUBSET CPU BY DEF Pending
<1>2. pass[s] + TOTAL_MAX_TICKETS * Cardinality(Pending(s)) < Limit BY Fields, ZenonT(30) DEF Room
<1>3. pass[s] \in Nat BY Fields
<1> QED BY <1>1, <1>2, <1>3, RoomKept, ZenonT(30)

(* stride_scheduler() has seen the smallest below max.                     *)
LEMMA ScanRoom == ASSUME IInv, ~negative, NEW c \in CPU, StrideScan(c) PROVE Room'
<1> SUFFICES ASSUME NEW s \in Slot
             PROVE  pass'[s] + TOTAL_MAX_TICKETS * Cardinality(Pending(s)') < Limit
  BY DEF Room, Limit
<1> USE Fields
<1>1. /\ UNCHANGED <<policy, pass>> /\ spc' = [spc EXCEPT ![c] = "choose"] /\ spc[c] = "look"
      /\ atmax' = [atmax EXCEPT ![c] = Smallest = {}]
      /\ min' = min \/ \E t \in Smallest : min' = [min EXCEPT ![c] = t]
      /\ Smallest = {} => min' = min
      /\ Smallest # {} => \E t \in Smallest : min' = [min EXCEPT ![c] = t]
  BY DEF StrideScan
<1>2. CASE s \in Smallest
  <2>1. pass[s] < max BY <1>2 DEF Smallest, Below
  <2>2. Pending(s)' \in SUBSET CPU BY DEF Pending
  <2> QED BY <1>1, <2>1, <2>2, RoomBelowMax, ZenonT(30)
<1>3. CASE s \notin Smallest
  <2>1. c \notin Pending(s)'
    <3>1. CASE Smallest = {} BY <1>1, <3>1, ZenonT(30) DEF Pending
    <3>2. CASE Smallest # {} BY <1>1, <1>3, <3>2, ZenonT(30) DEF Pending
    <3> QED BY <3>1, <3>2
  <2>2. \A d \in CPU : d # c => (spc'[d] = spc[d] /\ atmax'[d] = atmax[d] /\ min'[d] = min[d])
    BY <1>1, ZenonT(30)
  <2>3. Pending(s)' \in SUBSET Pending(s) BY <1>1, <2>1, <2>2, ZenonT(30) DEF Pending
  <2>4. pass[s] + TOTAL_MAX_TICKETS * Cardinality(Pending(s)) < Limit BY Fields, ZenonT(30) DEF Room
  <2> QED BY <1>1, <2>3, <2>4, RoomKept
<1> QED BY <1>2, <1>3

(* stride_scheduler() adds the stride, or starts all passes over.          *)
LEMMA RunRoom ==
  ASSUME IInv, ~negative, NEW c \in CPU, NEW r \in Slot, StrideRun(c, r)
  PROVE  Room' /\ \A s \in Slot : pass'[s] \in Nat
<1> SUFFICES ASSUME NEW s \in Slot
             PROVE  /\ pass'[s] + TOTAL_MAX_TICKETS * Cardinality(Pending(s)') < Limit
                    /\ pass'[s] \in Nat
  BY DEF Room, Limit
<1> USE Fields
<1>1. /\ UNCHANGED <<policy, min>> /\ spc' = [spc EXCEPT ![c] = "run"] /\ spc[c] = "choose"
      /\ policy = "stride" /\ min[c] = r /\ atmax' = [atmax EXCEPT ![c] = FALSE]
      /\ pass' = [(IF atmax[c] THEN stride ELSE pass) EXCEPT ![r] = plus(@, stride[r])]
  BY DEF StrideRun, Run, Advance, StartOver
<1>2. Pending(s)' = Pending(s) \ {c} BY <1>1, ZenonT(30) DEF Pending
<1>3. pass[s] + TOTAL_MAX_TICKETS * Cardinality(Pending(s)) < Limit BY Fields, ZenonT(30) DEF Room
<1>4. stride[s] \in 0 .. TOTAL_MAX_TICKETS /\ stride[s] \in Nat /\ TOTAL_MAX_TICKETS \in Nat
      /\ pass[s] \in Nat
  BY SchedAssumption
<1>5. CASE atmax[c]
  <2>1. Pending(s)' \in SUBSET (CPU \ {c}) /\ Pending(s)' \in SUBSET CPU BY <1>2
  <2>2. CASE s = r
    <3>1. pass'[s] = plus(stride[s], stride[s]) BY <1>1, <1>5, <2>2, ZenonT(30)
    <3>2. stride[s] + stride[s] + TOTAL_MAX_TICKETS * Cardinality(Pending(s)') < Limit
      BY <1>4, <2>1, RoomForTwo, ZenonT(30)
    <3>3. pass'[s] = stride[s] + stride[s] BY <1>4, <2>1, <3>1, <3>2, Exact, ZenonT(30)
    <3>4. stride[s] + stride[s] \in Nat BY <1>4
    <3> QED BY <3>2, <3>3, <3>4, ZenonT(30)
  <2>3. CASE s # r
    <3>1. pass'[s] = stride[s] BY <1>1, <1>5, <2>3, ZenonT(30)
    <3>2. stride[s] < max BY <1>4, SchedAssumption
    <3> QED BY <1>4, <2>1, <3>1, <3>2, RoomBelowMax, ZenonT(30)
  <2> QED BY <2>2, <2>3
<1>6. CASE ~atmax[c] /\ s = r
  <2>1. c \in Pending(s) BY <1>1, <1>6 DEF Pending
  <2>2. pass'[s] = plus(pass[s], stride[s]) BY <1>1, <1>6, ZenonT(30)
  <2>3. pass[s] + stride[s] + TOTAL_MAX_TICKETS * Cardinality(Pending(s)') < Limit
    BY <1>2, <1>3, <1>4, <2>1, RoomUsed, ZenonT(30)
  <2>4. Pending(s)' \in SUBSET CPU BY <1>2
  <2>5. pass'[s] = pass[s] + stride[s] BY <1>4, <2>2, <2>3, <2>4, Exact, ZenonT(30)
  <2>6. pass[s] + stride[s] \in Nat BY <1>4
  <2> QED BY <2>3, <2>5, <2>6, ZenonT(30)
<1>7. CASE ~atmax[c] /\ s # r
  <2>1. pass'[s] = pass[s] BY <1>1, <1>7, ZenonT(30)
  <2>2. Pending(s)' \in SUBSET Pending(s) BY <1>2
  <2> QED BY <1>3, <1>4, <2>1, <2>2, RoomKept
<1> QED BY <1>5, <1>6, <1>7

(* fork() starts the race over.                                            *)
LEMMA ResetRoom == ASSUME IInv, ~negative, NEW c \in CPU, ForkReset(c) PROVE Room'
<1> SUFFICES ASSUME NEW s \in Slot
             PROVE  pass'[s] + TOTAL_MAX_TICKETS * Cardinality(Pending(s)') < Limit
  BY DEF Room, Limit
<1> USE Fields
<1>1. /\ UNCHANGED <<policy, spc, min, atmax>>
      /\ pass' = [t \in Slot |-> IF Ready(t) /\ tickets[t] # 0 THEN StrideOf(t) ELSE pass[t]]
  BY DEF ForkReset, locals
<1>2. Pending(s)' = Pending(s) BY <1>1 DEF Pending
<1>3. CASE Ready(s) /\ tickets[s] # 0
  <2>1. pass'[s] \in 0 .. TOTAL_MAX_TICKETS
    BY <1>1, <1>3, StrideBounded, ZenonT(30) DEF IInv, Natural
  <2>2. pass'[s] \in Nat /\ pass'[s] < max BY <2>1, SchedAssumption
  <2> QED BY <1>2, <2>2, RoomBelowMax
<1>4. CASE ~(Ready(s) /\ tickets[s] # 0) BY <1>1, <1>2, <1>4, ZenonT(30) DEF Room
<1> QED BY <1>3, <1>4

(* Every step leaves room.                                                 *)
LEMMA NextRoom == ASSUME IInv, ~negative, Next PROVE Room'
<1> USE Fields
<1>1. ASSUME NEW c \in CPU, LotteryTotal(c) \/ LotteryNobody(c) \/ \E s \in Slot : LotteryRun(c, s)
      PROVE  Room'
  <2>1. policy = "lottery" /\ UNCHANGED <<policy, pass, min>>
    BY <1>1 DEF LotteryTotal, LotteryNobody, LotteryRun, fields
  <2> QED BY <2>1, NobodyPending
<1>2. ASSUME NEW c \in CPU, NEW l \in Phases \ {"choose"}, UNCHANGED <<policy, pass, min>>,
             spc' = [spc EXCEPT ![c] = l], \A d \in CPU : d # c => atmax'[d] = atmax[d]
      PROVE  Room'
  <2>1. \A d \in CPU : spc'[d] = "choose" => spc[d] = "choose" /\ atmax'[d] = atmax[d] BY <1>2, ZenonT(30)
  <2> QED BY <1>2, <2>1, NobodyPending
<1>3. ASSUME NEW c \in CPU, StrideNobody(c) PROVE Room'
  BY <1>2, <1>3, ZenonT(30) DEF StrideNobody, Idle, fields, Phases
<1>4. ASSUME NEW c \in CPU, Leave(c, "SLEEPING") \/ Leave(c, "ZOMBIE") \/ Leave(c, "RUNNABLE")
      PROVE  Room'
  BY <1>2, <1>4, ZenonT(30) DEF Leave, fields, locals, Phases
<1>5. ASSUME UNCHANGED <<policy, pass, spc, min, atmax>> PROVE Room'
  BY <1>5, ZenonT(30) DEF Room, Limit, Pending
<1>6. ASSUME NEW c \in CPU, \/ LotteryTrap(c) \/ ForkRunnable(c) \/ ForkFails(c)
                            \/ (\E n \in Tickets : sys_tickets(c, n))
                            \/ \E s \in Slot : allocproc(c, s)
      PROVE  Room'
  BY <1>5, <1>6, ZenonT(30)
  DEF LotteryTrap, ForkRunnable, ForkFails, sys_tickets, allocproc, fields, locals
<1>7. ASSUME NEW s \in Slot, Becomes(s, "SLEEPING", "RUNNABLE") \/ Becomes(s, "ZOMBIE", "UNUSED")
      PROVE  Room'
  BY <1>5, <1>7, ZenonT(30) DEF Becomes, fields, locals
<1>8. ASSUME NEW c \in CPU, ClearPass(c) PROVE Room'
  <2>1. UNCHANGED <<policy, spc, min, atmax>> /\ \E k : pass' = [pass EXCEPT ![k] = 0]
    BY <1>8, ZenonT(30) DEF ClearPass, locals
  <2>2. \A t \in Slot : pass'[t] \in Nat /\ pass'[t] <= pass[t] BY <2>1
  <2> QED BY <2>1, <2>2, NobodyPending, ZenonT(30)
<1>9. ASSUME NEW c \in CPU, StrideScan(c) PROVE Room' BY <1>9, ScanRoom
<1>10. ASSUME NEW c \in CPU, NEW s \in Slot, StrideRun(c, s) PROVE Room' BY <1>10, RunRoom, ZenonT(30)
<1>11. ASSUME NEW c \in CPU, ForkReset(c) PROVE Room' BY <1>11, ResetRoom
<1>12. ASSUME Halted PROVE Room' BY <1>5, <1>12, ZenonT(30) DEF Halted, vars, fields, locals
<1>13. ASSUME NEW c \in CPU, Choose(c) PROVE Room'
  BY <1>1, <1>3, <1>6, <1>9, <1>10, <1>13, ZenonT(60) DEF Choose
<1>14. ASSUME NEW c \in CPU, Program(c) PROVE Room'
  BY <1>4, <1>6, <1>8, <1>11, <1>14, ZenonT(60) DEF Program
<1> QED BY <1>4, <1>7, <1>12, <1>13, <1>14, ZenonT(60) DEF Next

(* Nobody takes a negative number back.                                    *)
LEMMA NegativeStays == ASSUME Next, negative PROVE negative'
<1>1. ASSUME NEW c \in CPU, Choose(c) PROVE negative'
  BY <1>1, ZenonT(30) DEF Choose, LotteryTotal, LotteryTrap, LotteryNobody, LotteryRun, StrideScan,
     StrideNobody, StrideRun, past
<1>2. ASSUME NEW c \in CPU, Program(c) \/ Leave(c, "RUNNABLE") PROVE negative'
  BY <1>2, ZenonT(30) DEF Program, Leave, sys_tickets, ClearPass, ForkFails, ForkRunnable, ForkReset,
     allocproc, past
<1>3. ASSUME NEW s, NEW u, NEW v, Becomes(s, u, v) PROVE negative'
  BY <1>3, ZenonT(30) DEF Becomes, past
<1>4. ASSUME Halted PROVE negative' BY <1>4, ZenonT(30) DEF Halted, vars, past
<1> QED BY <1>1, <1>2, <1>3, <1>4, ZenonT(30) DEF Next

(* Without a negative number nothing becomes negative.                     *)
LEMMA NextNatural == ASSUME IInv, Next, ~negative, ~negative' PROVE Natural'
<1>0. TypeOK /\ Natural BY Fields, ZenonT(30) DEF IInv
<1>1. ASSUME UNCHANGED fields PROVE Natural' BY <1>0, <1>1, ZenonT(30) DEF fields, Natural
<1>2. \A s \in Slot : tickets[s] # 0 => StrideOf(s) \in Nat
  <2>1. \A s \in Slot : tickets[s] # 0 => StrideOf(s) \in 0 .. TOTAL_MAX_TICKETS
    BY <1>0, StrideBounded, ZenonT(30) DEF Natural
  <2> QED BY <2>1, SchedAssumption
<1>3. ASSUME NEW c \in CPU, \/ LotteryTotal(c) \/ LotteryTrap(c) \/ LotteryNobody(c) \/ StrideNobody(c)
                            \/ \E s \in Slot : LotteryRun(c, s)
      PROVE  Natural'
  BY <1>1, <1>3, ZenonT(30) DEF LotteryTotal, LotteryTrap, LotteryNobody, StrideNobody, LotteryRun
<1>4. ASSUME NEW c \in CPU, StrideScan(c) PROVE Natural'
  BY <1>0, <1>2, <1>4, ZenonT(30) DEF StrideScan, Natural
<1>5. ASSUME NEW c \in CPU, NEW s \in Slot, StrideRun(c, s) PROVE Natural'
  <2>1. \A t \in Slot : pass'[t] \in Nat BY <1>5, RunRoom, ZenonT(30)
  <2> QED BY <1>0, <1>5, <2>1, ZenonT(30) DEF StrideRun, Natural
<1>6. ASSUME NEW c \in CPU, NEW n \in Tickets, sys_tickets(c, n) PROVE Natural'
  <2>1. n \in int /\ ~(n < 0) /\ INT_MAX \in Nat
    BY <1>6, SchedAssumption, ZenonT(30) DEF sys_tickets
  <2>2. n \in Nat BY <2>1 DEF int
  <2> QED BY <1>0, <1>6, <2>2, ZenonT(30) DEF sys_tickets, TypeOK, Natural
<1>7. ASSUME NEW c \in CPU, ClearPass(c) PROVE Natural'
  BY <1>0, <1>7 DEF ClearPass, TypeOK, Natural
<1>8. ASSUME NEW c \in CPU, ForkReset(c) PROVE Natural'
  <2>1. \A s \in Slot : tickets'[s] \in Nat BY <1>0, <1>8 DEF ForkReset, Natural, DEFAULT_TICKETS
  <2>2. \A s \in Slot : stride'[s] \in Nat BY <1>0, <1>2, <1>8 DEF ForkReset, Natural
  <2>3. \A s \in Slot : pass'[s] \in Nat BY <1>0, <1>2, <1>8, ZenonT(30) DEF ForkReset, Natural
  <2> QED BY <2>1, <2>2, <2>3 DEF Natural
<1>9. ASSUME NEW c \in CPU, \/ ForkFails(c) \/ ForkRunnable(c) \/ (\E s \in Slot : allocproc(c, s))
                            \/ \E v : Leave(c, v)
      PROVE  Natural'
  BY <1>1, <1>9, ZenonT(30) DEF ForkFails, ForkRunnable, allocproc, Leave
<1>10. ASSUME Halted \/ \E s, u, v : Becomes(s, u, v) PROVE Natural'
  BY <1>1, <1>10, ZenonT(30) DEF Halted, vars, Becomes
<1> QED
  BY <1>3, <1>4, <1>5, <1>6, <1>7, <1>8, <1>9, <1>10, ZenonT(60) DEF Next, Choose, Program

-----------------------------------------------------------------------------
(* Types.                                                                  *)

(* Every step preserves the types, if it preserves that of totalTickets.   *)
LEMMA NextType ==
  ASSUME IInv, Next, totalTickets' \in [CPU -> int]
  PROVE  TypeOK'
<1> USE NoneIsNothing DEF TypeOK
<1>0. TypeOK BY ZenonT(30) DEF IInv
<1>1. ASSUME NEW c \in CPU, NEW v \in States, SetState(on[c], v) PROVE state' \in [Slot -> States]
  BY <1>0, <1>1, ZenonT(30) DEF SetState, States
<1>2. ASSUME NEW c \in CPU, LotteryTotal(c) PROVE TypeOK'
  BY <1>0, <1>2, ZenonT(30) DEF LotteryTotal, fields, fork, past
<1>3. ASSUME NEW c \in CPU, LotteryNobody(c) PROVE TypeOK'
  BY <1>0, <1>3, ZenonT(30) DEF LotteryNobody, Idle, fields, fork, past
<1>4. ASSUME NEW c \in CPU, NEW s \in Slot, LotteryRun(c, s) PROVE TypeOK'
  BY <1>0, <1>4, ZenonT(30) DEF LotteryRun, Run, SetState, fields, fork, past
<1>5. ASSUME NEW c \in CPU, StrideScan(c) PROVE TypeOK'
  <2>1. stride' \in [Slot -> - TOTAL_MAX_TICKETS .. TOTAL_MAX_TICKETS]
    <3>1. \A s \in Slot : tickets[s] # 0 => StrideOf(s) \in - TOTAL_MAX_TICKETS .. TOTAL_MAX_TICKETS
      BY <1>0, StrideBounded, ZenonT(30)
    <3> QED BY <1>0, <1>5, <3>1, ZenonT(30) DEF StrideScan
  <2>2. min' \in [CPU -> Slot \cup {None}] BY <1>0, <1>5, ZenonT(30) DEF StrideScan, Smallest
  <2>3. atmax' \in [CPU -> BOOLEAN] BY <1>0, <1>5 DEF StrideScan
  <2>4. spc' \in [CPU -> Phases] BY <1>0, <1>5, ZenonT(30) DEF StrideScan, Phases
  <2> QED BY <1>0, <1>5, <2>1, <2>2, <2>3, <2>4, ZenonT(30) DEF StrideScan, Phases, fork, past
<1>6. ASSUME NEW c \in CPU, StrideNobody(c) PROVE TypeOK'
  BY <1>0, <1>6, ZenonT(30) DEF StrideNobody, Idle, fields, fork, past
<1>7. ASSUME NEW c \in CPU, NEW s \in Slot, StrideRun(c, s) PROVE TypeOK'
  <2>1. pass' \in [Slot -> int]
    <3>1. pass \in [Slot -> int] /\ stride \in [Slot -> int] BY <1>0, Ints, ZenonT(30)
    <3>2. PICK f \in [Slot -> int] : pass' = [f EXCEPT ![s] = plus(f[s], stride[s])]
      BY <1>7, <3>1, ZenonT(30) DEF StrideRun, Advance
    <3>3. plus(f[s], stride[s]) \in int BY <3>1, PlusInt, ZenonT(30)
    <3> QED BY <3>2, <3>3, ZenonT(30)
  <2> QED BY <1>0, <1>7, <2>1, ZenonT(30) DEF StrideRun, Run, SetState, fork, past
<1>8. ASSUME NEW c \in CPU, NEW v \in States, Leave(c, v) PROVE TypeOK'
  BY <1>0, <1>1, <1>8, ZenonT(30) DEF Leave, fields, locals, fork, past, States
<1>9. ASSUME NEW c \in CPU, NEW n \in Tickets, sys_tickets(c, n) PROVE TypeOK'
  <2>1. tickets' \in [Slot -> Tickets \cup {0, DEFAULT_TICKETS}]
    BY <1>0, <1>9, ZenonT(30) DEF sys_tickets
  <2>2. calls' \in 0 .. MaxCalls BY <1>0, <1>9, SchedAssumption DEF sys_tickets
  <2>3. negative' \in BOOLEAN BY <1>9, ZenonT(30) DEF sys_tickets
  <2> QED BY <1>0, <1>9, <2>1, <2>2, <2>3, ZenonT(30) DEF sys_tickets, locals, fork
<1>10. ASSUME NEW c \in CPU, NEW s \in Slot, allocproc(c, s) PROVE TypeOK'
  <2>1. calls' \in 0 .. MaxCalls BY <1>0, <1>10, SchedAssumption DEF allocproc
  <2>2. fresh' \subseteq Slot BY <1>0, <1>10, ZenonT(30) DEF allocproc
  <2> QED BY <1>0, <1>10, <2>1, <2>2, ZenonT(30) DEF allocproc, SetState, fields, locals
<1>11. ASSUME NEW c \in CPU, ForkRunnable(c) PROVE TypeOK'
  BY <1>0, <1>11, ZenonT(30) DEF ForkRunnable, SetState, fields, locals, past
<1>12. ASSUME NEW c \in CPU, ForkReset(c) PROVE TypeOK'
  <2>1. \A s \in Slot : tickets[s] # 0 => StrideOf(s) \in - TOTAL_MAX_TICKETS .. TOTAL_MAX_TICKETS
    BY <1>0, StrideBounded
  <2>2. 0 \in - TOTAL_MAX_TICKETS .. TOTAL_MAX_TICKETS BY SchedAssumption
  <2>3. stride' \in [Slot -> - TOTAL_MAX_TICKETS .. TOTAL_MAX_TICKETS]
    BY <1>0, <1>12, <2>1, <2>2 DEF ForkReset
  <2>4. pass' \in [Slot -> int] BY <1>0, <1>12, <2>1, Ints, ZenonT(30) DEF ForkReset
  <2>5. tickets' \in [Slot -> Tickets \cup {0, DEFAULT_TICKETS}] BY <1>0, <1>12, ZenonT(30) DEF ForkReset
  <2>6. forking' \in [Slot -> Slot \cup {None, Reset}] BY <1>0, <1>12, ZenonT(30) DEF ForkReset
  <2> QED BY <1>0, <1>12, <2>3, <2>4, <2>5, <2>6, ZenonT(30) DEF ForkReset, locals, past
<1>13. ASSUME NEW s \in Slot, NEW u, NEW v \in States, Becomes(s, u, v) PROVE TypeOK'
  BY <1>0, <1>13, ZenonT(30) DEF Becomes, SetState, fields, locals, fork, past, States
<1>14. {"RUNNABLE", "SLEEPING", "ZOMBIE", "UNUSED"} \subseteq States BY ZenonT(30) DEF States
<1>15. ASSUME NEW c \in CPU, ClearPass(c) PROVE TypeOK'
  <2>1. pass' \in [Slot -> int] BY <1>0, <1>15, Ints, ZenonT(30) DEF ClearPass
  <2>2. fresh' \subseteq Slot BY <1>0, <1>15, ZenonT(30) DEF ClearPass
  <2> QED BY <1>0, <1>15, <2>1, <2>2, ZenonT(30) DEF ClearPass, locals, past
<1>16. ASSUME NEW c \in CPU, ForkFails(c) PROVE TypeOK'
  <2>1. fresh' \subseteq Slot BY <1>0, <1>16, ZenonT(30) DEF ForkFails
  <2> QED BY <1>0, <1>16, <2>1, ZenonT(30) DEF ForkFails, SetState, fields, locals, past
<1>17. ASSUME NEW c \in CPU, LotteryTrap(c) PROVE TypeOK'
  BY <1>0, <1>17, ZenonT(30) DEF LotteryTrap, fields, locals, fork, past
<1>18. ASSUME Halted PROVE TypeOK'
  BY <1>0, <1>18, ZenonT(30) DEF Halted, vars, fields, locals, fork, past
<1> HIDE DEF TypeOK
<1> QED
  BY <1>2, <1>3, <1>4, <1>5, <1>6, <1>7, <1>8, <1>9, <1>10, <1>11, <1>12, <1>13, <1>14, <1>15,
     <1>16, <1>17, <1>18, ZenonT(60) DEF Next, Choose, Program

-----------------------------------------------------------------------------
(* The tickets of the runnable processes add up to an int.  The library   *)
(* sums by a recursive function on sets: one element, and the rest.        *)
Pick(s) == CHOOSE x \in s : TRUE
SumOf(t, g, s) == IF s = {} THEN 0 ELSE plus(t[Pick(s)], g[s \ {Pick(s)}])
SumFcn(t, S) == CHOOSE g : g = [s \in SUBSET S |-> SumOf(t, g, s)]
UpTo(S, n) == {s \in SUBSET S : Cardinality(s) <= n}

(* What lottery_scheduler() adds up.                                       *)
LEMMA FoldIsSum ==
  ASSUME NEW t, NEW S
  PROVE  FoldFunctionOnSet(plus, 0, t, S) = SumFcn(t, S)[S]
BY ZenonT(30) DEF FoldFunctionOnSet, MapThenFoldSet, SumFcn, SumOf, Pick

(* A set of numbers that is not empty has a least one.                     *)
LEMMA Least ==
  ASSUME NEW T, T \subseteq Nat, T # {}
  PROVE  \E m \in T : \A n \in T : m <= n
<1>. DEFINE R == OpToRel(<, Nat)
<1>1. IsWellFoundedOn(R, Nat) BY NatLessThanWellFounded, Zenon
<1>2. \A x, y \in Nat : <<y, x>> \in R <=> y < x BY ZenonT(30) DEF OpToRel
<1>. HIDE DEF R
<1>3. PICK m \in T : \A n \in T : ~ (<<n, m>> \in R) BY <1>1, WFMin, ZenonT(30)
<1>4. \A n \in T : ~ (n < m) BY <1>2, <1>3, ZenonT(30)
<1> QED BY <1>4

(* The rest of a finite set is a smaller one.                              *)
LEMMA Rest ==
  ASSUME NEW S, IsFiniteSet(S), NEW s \in SUBSET S, s # {}
  PROVE  /\ Pick(s) \in s /\ s \ {Pick(s)} \in SUBSET S
         /\ Cardinality(s) \in Nat /\ Cardinality(s \ {Pick(s)}) \in Nat
         /\ Cardinality(s \ {Pick(s)}) = Cardinality(s) - 1
<1>1. Pick(s) \in s BY DEF Pick
<1>2. IsFiniteSet(s) /\ Cardinality(s) \in Nat BY FS_Subset, FS_CardinalityType
<1>3. IsFiniteSet(s \ {Pick(s)}) /\ Cardinality(s \ {Pick(s)}) = Cardinality(s) - 1
  BY <1>1, <1>2, FS_RemoveElement, ZenonT(30)
<1> QED BY <1>1, <1>2, <1>3, FS_CardinalityType, ZenonT(30)

IntOn(t, S) == \A x \in S : t[x] \in int
HasSums(t, S, n) == \E g \in [UpTo(S, n) -> int] : \A s \in UpTo(S, n) : g[s] = SumOf(t, g, s)

(* The sums over sets of at most n elements: by the least n that has none. *)
LEMMA SumsUpTo ==
  ASSUME NEW S, IsFiniteSet(S), NEW t, IntOn(t, S), NEW n \in Nat
  PROVE  HasSums(t, S, n)
<1>. DEFINE Sums(k) == HasSums(t, S, k)
            Bad == {k \in Nat : ~Sums(k)}
<1>1. Sums(0)
  <2>1. ASSUME NEW s \in UpTo(S, 0) PROVE s = {}
    <3>1. IsFiniteSet(s) /\ Cardinality(s) \in Nat /\ Cardinality(s) <= 0
      BY FS_Subset, FS_CardinalityType, ZenonT(30) DEF UpTo
    <3> QED BY <3>1, FS_EmptySet
  <2>. DEFINE g == [s \in UpTo(S, 0) |-> 0]
  <2>2. g \in [UpTo(S, 0) -> int] /\ \A s \in UpTo(S, 0) : g[s] = SumOf(t, g, s)
    BY <2>1, Ints, ZenonT(30) DEF SumOf
  <2> QED BY <2>2, ZenonT(30) DEF HasSums
<1>2. ASSUME NEW k \in Nat, Sums(k) PROVE Sums(k + 1)
  <2>. PICK g \in [UpTo(S, k) -> int] : \A s \in UpTo(S, k) : g[s] = SumOf(t, g, s)
    BY <1>2, ZenonT(30) DEF HasSums
  <2>. DEFINE h == [s \in UpTo(S, k + 1) |-> SumOf(t, g, s)]
  <2>1. ASSUME NEW s \in UpTo(S, k + 1), s # {}
        PROVE  /\ s \ {Pick(s)} \in UpTo(S, k) /\ s \ {Pick(s)} \in UpTo(S, k + 1)
               /\ t[Pick(s)] \in int
    <3>1. s \in SUBSET S /\ Cardinality(s) <= k + 1 BY DEF UpTo
    <3>2. /\ Pick(s) \in s /\ s \ {Pick(s)} \in SUBSET S
          /\ Cardinality(s) \in Nat /\ Cardinality(s \ {Pick(s)}) \in Nat
          /\ Cardinality(s \ {Pick(s)}) = Cardinality(s) - 1
      BY <2>1, <3>1, Rest, ZenonT(30)
    <3>3. Cardinality(s \ {Pick(s)}) <= k /\ Cardinality(s \ {Pick(s)}) <= k + 1 BY <3>1, <3>2
    <3> QED BY <3>1, <3>2, <3>3, ZenonT(30) DEF UpTo, IntOn
  <2>2. ASSUME NEW s \in UpTo(S, k + 1) PROVE SumOf(t, g, s) \in int
    BY <2>1, Ints, PlusInt, ZenonT(30) DEF SumOf
  <2>3. h \in [UpTo(S, k + 1) -> int] BY <2>2
  <2>4. ASSUME NEW s \in UpTo(S, k + 1) PROVE h[s] = SumOf(t, h, s)
    <3>1. CASE s = {} BY <3>1 DEF SumOf
    <3>2. CASE s # {}
      <4>1. h[s \ {Pick(s)}] = g[s \ {Pick(s)}] BY <2>1, <3>2, ZenonT(30)
      <4> QED BY <3>2, <4>1, ZenonT(30) DEF SumOf
    <3> QED BY <3>1, <3>2
  <2> HIDE DEF h
  <2> QED BY <2>3, <2>4, ZenonT(30) DEF HasSums
<1> SUFFICES Bad = {} BY ZenonT(30)
<1> HIDE DEF Sums
<1>3. SUFFICES ASSUME Bad # {} PROVE FALSE BY ZenonT(30)
<1>4. PICK m \in Bad : \A k \in Bad : m <= k BY <1>3, Least, ZenonT(30)
<1>5. m \in Nat /\ m # 0 /\ ~Sums(m) BY <1>1, ZenonT(30)
<1>6. m - 1 \in Nat /\ m - 1 \notin Bad /\ (m - 1) + 1 = m BY <1>4, <1>5
<1>7. Sums(m - 1) BY <1>6, ZenonT(30)
<1> QED BY <1>2, <1>5, <1>6, <1>7

(* The sum over a finite set is an int.                                    *)
LEMMA SumType ==
  ASSUME NEW S, IsFiniteSet(S), NEW t, IntOn(t, S)
  PROVE  SumFcn(t, S)[S] \in int
<1>. DEFINE f == SumFcn(t, S)
            Bad == {s \in SUBSET S : f[s] \notin int}
            Sizes == {Cardinality(s) : s \in Bad}
<1>1. f = [s \in SUBSET S |-> SumOf(t, f, s)]
  <2>. DEFINE n == Cardinality(S)
  <2>1. n \in Nat BY FS_CardinalityType
  <2>2. UpTo(S, n) = SUBSET S BY FS_Subset DEF UpTo
  <2>. HIDE DEF n
  <2>3. PICK g \in [UpTo(S, n) -> int] : \A s \in UpTo(S, n) : g[s] = SumOf(t, g, s)
    <3>1. HasSums(t, S, n) BY <2>1, SumsUpTo, ZenonT(30)
    <3> QED BY <3>1, ZenonT(30) DEF HasSums
  <2>4. g = [s \in SUBSET S |-> SumOf(t, g, s)] BY <2>2, <2>3, ZenonT(30)
  <2> QED BY <2>4, ZenonT(30) DEF SumFcn
<1>2. \A s \in SUBSET S : f[s] = SumOf(t, f, s) BY <1>1, ZenonT(30)
<1>. HIDE DEF f
<1>3. SUFFICES ASSUME Bad # {} PROVE FALSE BY ZenonT(30) DEF f
<1>4. Sizes \subseteq Nat /\ Sizes # {}
  <2>1. \A s \in Bad : Cardinality(s) \in Nat BY FS_Subset, FS_CardinalityType, ZenonT(30)
  <2> QED BY <1>3, <2>1, ZenonT(30)
<1>5. PICK s \in Bad : \A r \in Bad : Cardinality(s) <= Cardinality(r)
  <2>1. PICK m \in Sizes : \A n \in Sizes : m <= n BY <1>4, Least, ZenonT(30)
  <2>2. PICK s \in Bad : m = Cardinality(s) OBVIOUS
  <2> QED BY <2>1, <2>2, ZenonT(30)
<1>6. s \in SUBSET S /\ f[s] \notin int OBVIOUS
<1>7. s # {}
  <2>1. SumOf(t, f, {}) \in int BY Ints, ZenonT(30) DEF SumOf
  <2> QED BY <1>2, <1>6, <2>1, ZenonT(30)
<1>8. /\ Pick(s) \in s /\ s \ {Pick(s)} \in SUBSET S
      /\ Cardinality(s) \in Nat /\ Cardinality(s \ {Pick(s)}) = Cardinality(s) - 1
  BY <1>6, <1>7, Rest, ZenonT(30)
<1>9. f[s \ {Pick(s)}] \in int BY <1>5, <1>8
<1>10. t[Pick(s)] \in int BY <1>6, <1>8, ZenonT(30) DEF IntOn
<1>11. f[s] = plus(t[Pick(s)], f[s \ {Pick(s)}]) BY <1>2, <1>6, <1>7 DEF SumOf
<1> QED BY <1>6, <1>9, <1>10, <1>11, PlusInt, ZenonT(30)

(* The total of a round is one.                                            *)
LEMMA NextTotal == ASSUME IInv, Next PROVE totalTickets' \in [CPU -> int]
<1>0. totalTickets \in [CPU -> int] BY DEF IInv, TypeOK
<1>1. ASSUME NEW c \in CPU, LotteryTotal(c) PROVE totalTickets' \in [CPU -> int]
  <2>1. IsFiniteSet(Runnable)
    <3>1. IsFiniteSet(Slot) BY FS_Interval, SchedAssumption DEF Slot
    <3> QED BY <3>1, FS_Subset DEF Runnable
  <2>2. IntOn(tickets, Runnable) BY TicketsInt, Zenon DEF IInv, Runnable, IntOn
  <2>3. FoldFunctionOnSet(plus, 0, tickets, Runnable) = SumFcn(tickets, Runnable)[Runnable]
    BY FoldIsSum
  <2>4. SumFcn(tickets, Runnable)[Runnable] \in int BY <2>1, <2>2, SumType
  <2> QED BY <1>0, <1>1, <2>3, <2>4 DEF LotteryTotal
<1>2. ASSUME NEW c \in CPU, LotteryNobody(c) \/ \E s \in Slot : LotteryRun(c, s)
      PROVE  totalTickets' \in [CPU -> int]
  BY <1>0, <1>2, Ints, ZenonT(30) DEF LotteryNobody, LotteryRun
<1>3. ASSUME UNCHANGED totalTickets PROVE totalTickets' \in [CPU -> int] BY <1>0, <1>3
<1>4. ASSUME NEW c \in CPU,
             \/ LotteryTrap(c) \/ StrideScan(c) \/ StrideNobody(c)
             \/ (\E s \in Slot : StrideRun(c, s)) \/ Program(c) \/ Leave(c, "RUNNABLE")
      PROVE  totalTickets' \in [CPU -> int]
  BY <1>3, <1>4, ZenonT(30) DEF LotteryTrap, StrideScan, StrideNobody, StrideRun, Program,
     Leave, sys_tickets, allocproc, ClearPass, ForkFails, ForkRunnable, ForkReset, locals
<1>5. ASSUME NEW s \in Slot, Becomes(s, "SLEEPING", "RUNNABLE") \/ Becomes(s, "ZOMBIE", "UNUSED")
      PROVE  totalTickets' \in [CPU -> int]
  BY <1>3, <1>5, ZenonT(30) DEF Becomes, locals
<1>6. ASSUME Halted PROVE totalTickets' \in [CPU -> int]
  BY <1>3, <1>6, ZenonT(30) DEF Halted, vars, locals
<1> QED BY <1>1, <1>2, <1>4, <1>5, <1>6, ZenonT(60) DEF Next, Choose

-----------------------------------------------------------------------------
(* The inductive invariant holds at first.                                 *)
LEMMA InitIInv == Init => IInv
<1> SUFFICES ASSUME Init PROVE IInv OBVIOUS
<1> USE NoneIsNothing, SchedAssumption DEF Init
<1>1. TypeOK
  <2>1. 1 \in Slot /\ calls \in 0 .. MaxCalls /\ TOTAL_MAX_TICKETS \in Nat BY DEF Slot
  <2>2. stride \in [Slot -> - TOTAL_MAX_TICKETS .. TOTAL_MAX_TICKETS] BY <2>1
  <2>3. pass \in [Slot -> int] /\ totalTickets \in [CPU -> int] BY Ints, ZenonT(30)
  <2> QED BY <2>1, <2>2, <2>3, ZenonT(30) DEF TypeOK
<1>2. Placed BY DEF Placed
<1>3. Forked BY DEF Forked
<1>4. Room
  <2> SUFFICES ASSUME NEW s \in Slot
               PROVE  pass[s] + TOTAL_MAX_TICKETS * Cardinality(Pending(s)) < Limit
    BY DEF Room
  <2>1. pass[s] \in Nat /\ pass[s] < max OBVIOUS
  <2>2. Pending(s) \in SUBSET CPU BY DEF Pending
  <2> QED BY <2>1, <2>2, RoomBelowMax
<1>5. Natural BY DEF Natural
<1> QED BY <1>1, <1>2, <1>3, <1>4, <1>5, ZenonT(30) DEF IInv

(* And every step preserves it.                                            *)
LEMMA Invariant == Spec => []IInv
<1>1. IInv /\ [Next]_vars => IInv'
  <2> SUFFICES ASSUME IInv, [Next]_vars PROVE IInv' BY ZenonT(30)
  <2>1. CASE Next
    <3>1. TypeOK' /\ Placed' /\ Forked' BY <2>1, NextPlaced, NextTotal, NextType, ZenonT(30)
    <3>2. ASSUME ~negative' PROVE Natural' /\ Room'
      BY <2>1, <3>2, NegativeStays, NextNatural, NextRoom, ZenonT(30)
    <3> QED BY <3>1, <3>2, ZenonT(30) DEF IInv
  <2>2. CASE UNCHANGED vars
    <3>1. TypeOK' BY <2>2, ZenonT(30) DEF vars, fields, locals, fork, past, IInv, TypeOK
    <3>2. Placed' /\ Forked' BY <2>2, ZenonT(30) DEF vars, fork, IInv, Placed, Forked
    <3>3. negative \/ (Natural /\ Room) BY ZenonT(30) DEF IInv
    <3>4. negative' \/ (Natural' /\ Room')
      BY <2>2, <3>3, ZenonT(30) DEF vars, fields, locals, past, Natural, Room, Limit, Pending
    <3> QED BY <3>1, <3>2, <3>4, ZenonT(30) DEF IInv
  <2> QED BY <2>1, <2>2
<1> QED BY <1>1, InitIInv, PTL DEF Spec

(* A process is RUNNING on exactly one processor or not at all, although   *)
(* lottery_scheduler() and stride_scheduler() choose in a second critical  *)
(* section after they have looked.                                         *)
THEOREM SchedRunsOnce == Spec => []RunsOnce
<1>1. IInv => RunsOnce
  <2> SUFFICES ASSUME IInv, NEW s \in Slot
               PROVE  Cardinality({c \in CPU : on[c] = s}) = IF state[s] = "RUNNING" THEN 1 ELSE 0
    BY DEF RunsOnce
  <2>1. CASE state[s] = "RUNNING"
    <3>. PICK c \in CPU : on[c] = s BY <2>1 DEF IInv, Placed
    <3>1. {d \in CPU : on[d] = s} = {c} BY NoneIsNothing, ZenonT(30) DEF IInv, Placed
    <3> QED BY <2>1, <3>1, FS_Singleton
  <2>2. CASE state[s] # "RUNNING"
    <3>1. {d \in CPU : on[d] = s} = {} BY <2>2, ZenonT(30) DEF IInv, Placed
    <3> QED BY <2>2, <3>1, FS_EmptySet
  <2> QED BY <2>1, <2>2
<1> QED BY <1>1, Invariant, PTL

(* The numbers of stride_scheduler() stay in their range: a pass is below  *)
(* max plus one TOTAL_MAX_TICKETS per processor, whatever the processors   *)
(* have seen of it before, and however often fork() starts the race over,  *)
(* until somebody asks for a negative number of tickets.                   *)
THEOREM SchedPassesBounded == Spec => []PassesSound
<1>1. IInv => PassesSound
  <2> SUFFICES ASSUME IInv PROVE PassesSound OBVIOUS
  <2>1. ASSUME ~negative, NEW s \in Slot
        PROVE  pass[s] \in 0 .. max + Cardinality(CPU) * TOTAL_MAX_TICKETS - 1
    <3>1. pass[s] + TOTAL_MAX_TICKETS * Cardinality(Pending(s)) < Limit BY <2>1, Fields, ZenonT(30) DEF Room
    <3>2. pass[s] \in Nat /\ Pending(s) \in SUBSET CPU BY <2>1, Fields
    <3>3. Cardinality({}) = 0 /\ TOTAL_MAX_TICKETS \in Nat BY FS_EmptySet, SchedAssumption, ZenonT(30)
    <3>4. pass[s] + TOTAL_MAX_TICKETS * Cardinality({}) < Limit BY <3>1, <3>2, RoomKept
    <3>5. /\ max \in Nat /\ Cardinality(CPU) \in Nat /\ pass[s] < Limit
          /\ pass[s] + TOTAL_MAX_TICKETS * 0 = pass[s]
      BY <3>2, <3>3, <3>4, CPUs, SchedAssumption
    <3>. PICK m \in Nat : m = Cardinality(CPU) * TOTAL_MAX_TICKETS BY <3>3, <3>5
    <3>6. pass[s] < max + m BY <3>5, ZenonT(30) DEF Limit
    <3>7. pass[s] \in 0 .. max + m - 1 BY <3>2, <3>5, <3>6
    <3> QED BY <3>7, ZenonT(30)
  <2> QED BY <2>1, ZenonT(30) DEF IInv, PassesSound, PassBounded
<1> QED BY <1>1, Invariant, PTL

=============================================================================
