------------------------------- MODULE Sched -------------------------------
(***************************************************************************)
(* The lottery and the stride scheduler of proc.c with the fields they     *)
(* share with fork() and sys_tickets(): tickets, stride and pass.  Both    *)
(* schedulers look at the process table in one critical section of         *)
(* ptable.lock and choose in a second one; in between other processors and *)
(* interrupts change the table.  mpmain() starts scheduler() (module Proc) *)
(* and has the calls of these two in comments, as their own comments ask   *)
(* to exchange; policy is the one exchanged for scheduler().  The numbers  *)
(* are ints that wrap around.  execution_count and execution_time are      *)
(* statistics and are left out.                                            *)
(***************************************************************************)
EXTENDS Integers, FiniteSets, FiniteSetsExt, Functions

CONSTANTS CPU, NPROC,
          max,                \* the pass at which stride starts over
          TOTAL_MAX_TICKETS,
          INT_MAX,
          Tickets,            \* arguments of sys_tickets(): any ints
          MaxCalls,           \* bound: calls of fork() and sys_tickets()
          None

int == - INT_MAX - 1 .. INT_MAX

(* The shares of the code leave room for one stride of every processor     *)
(* between max and INT_MAX (proc.c: 4000000, 100000; NCPU is 8).           *)
ASSUME SchedAssumption ==
  /\ IsFiniteSet(CPU) /\ NPROC \in Nat \ {0} /\ MaxCalls \in Nat
  /\ max \in Nat /\ TOTAL_MAX_TICKETS \in Nat /\ TOTAL_MAX_TICKETS < max
  /\ INT_MAX \in Nat /\ max + Cardinality(CPU) * TOTAL_MAX_TICKETS <= INT_MAX
  /\ Tickets \subseteq int /\ None \notin Nat \cup CPU

Slot == 1 .. NPROC
DEFAULT_TICKETS == 1
Reset == 0

VARIABLES policy, state, tickets, stride, pass,
          spc, on,          \* a processor's scheduler, and the process it runs
          totalTickets, min, atmax,     \* its local variables; atmax: minpass >= max
          forking,          \* the child a process is creating, or Reset
          fresh,            \* the children whose pass is still to be cleared
          panicked,
          calls,            \* calls of fork() and sys_tickets() so far
          negative          \* has one of them asked for a negative number?

fields == <<tickets, stride, pass>>
locals == <<totalTickets, min, atmax>>
fork   == <<forking, fresh>>
past   == <<calls, negative>>
vars   == <<policy, state, fields, spc, on, locals, fork, panicked, past>>

TypeOK ==
  /\ policy \in {"lottery", "stride"}
  /\ state \in [Slot -> {"UNUSED", "EMBRYO", "SLEEPING", "RUNNABLE", "RUNNING", "ZOMBIE"}]
  /\ tickets \in [Slot -> Tickets \cup {0, DEFAULT_TICKETS}]
  /\ stride \in [Slot -> - TOTAL_MAX_TICKETS .. TOTAL_MAX_TICKETS] /\ pass \in [Slot -> int]
  /\ spc \in [CPU -> {"look", "choose", "run"}] /\ on \in [CPU -> Slot \cup {None}]
  /\ totalTickets \in [CPU -> int] /\ min \in [CPU -> Slot \cup {None}]
  /\ atmax \in [CPU -> BOOLEAN]
  /\ forking \in [Slot -> Slot \cup {None, Reset}] /\ fresh \subseteq Slot
  /\ panicked \in BOOLEAN /\ calls \in 0 .. MaxCalls /\ negative \in BOOLEAN

(* userinit() has made the first process; the table was zero.              *)
Init ==
  /\ policy \in {"lottery", "stride"}
  /\ state = [s \in Slot |-> IF s = 1 THEN "RUNNABLE" ELSE "UNUSED"]
  /\ tickets = [s \in Slot |-> 0] /\ stride = tickets /\ pass = tickets
  /\ spc = [c \in CPU |-> "look"] /\ on = [c \in CPU |-> None]
  /\ totalTickets = [c \in CPU |-> 0] /\ min = on /\ atmax = [c \in CPU |-> FALSE]
  /\ forking = [s \in Slot |-> None] /\ fresh = {}
  /\ panicked = FALSE /\ calls = 0 /\ negative = FALSE

Runnable == {s \in Slot : state[s] = "RUNNABLE"}
SetState(s, v) == state' = [state EXCEPT ![s] = v]

(* The sum of two ints.                                                    *)
plus(a, b) ==
  LET n == a + b IN
  CASE n > INT_MAX -> n - 2 * (INT_MAX + 1)
    [] n < - INT_MAX - 1 -> n + 2 * (INT_MAX + 1)
    [] OTHER -> n

(* TOTAL_MAX_TICKETS / tickets is 0 for more than TOTAL_MAX_TICKETS, and   *)
(* has the sign of tickets.                                                *)
StrideOf(s) ==
  IF tickets[s] > 0 THEN TOTAL_MAX_TICKETS \div tickets[s]
                    ELSE - (TOTAL_MAX_TICKETS \div (- tickets[s]))

-----------------------------------------------------------------------------
(* lottery_scheduler(): the total, then the draw and the scan.             *)
LotteryTotal(c) ==
  /\ policy = "lottery" /\ spc[c] = "look"
  /\ totalTickets' = [totalTickets EXCEPT ![c] = FoldFunctionOnSet(plus, 0, tickets, Runnable)]
  /\ spc' = [spc EXCEPT ![c] = "choose"]
  /\ UNCHANGED <<policy, state, fields, on, min, atmax, fork, panicked, past>>

(* genrand() % (totalTickets + 1): genrand() is not negative, so it is any *)
(* of these numbers, and a divide error, trap()'s panic, for 0.            *)
Divisor(c) == plus(totalTickets[c], 1)
Draws(c) == 0 .. (IF Divisor(c) > 0 THEN Divisor(c) ELSE - Divisor(c)) - 1

LotteryTrap(c) ==
  /\ policy = "lottery" /\ spc[c] = "choose" /\ Divisor(c) = 0
  /\ panicked' = TRUE
  /\ UNCHANGED <<policy, state, fields, spc, on, locals, fork, past>>

(* The scan passes over runnable processes while their bins end below the  *)
(* winner; ticket_bin is an int.                                           *)
BinEnd(s) == FoldFunctionOnSet(plus, 0, tickets, {q \in Runnable : q <= s})
Wins(s, winner) ==
  /\ s \in Runnable /\ BinEnd(s) >= winner
  /\ \A q \in Runnable : q < s => BinEnd(q) < winner

Run(c, s) ==
  /\ SetState(s, "RUNNING")
  /\ on' = [on EXCEPT ![c] = s] /\ spc' = [spc EXCEPT ![c] = "run"]

Idle(c) == spc' = [spc EXCEPT ![c] = "look"] /\ UNCHANGED <<state, on>>

LotteryRun(c, s) ==
  /\ policy = "lottery" /\ spc[c] = "choose"
  /\ \E winner \in Draws(c) : Wins(s, winner)
  /\ Run(c, s)
  /\ totalTickets' = [totalTickets EXCEPT ![c] = 0]
  /\ UNCHANGED <<policy, fields, min, atmax, fork, panicked, past>>

LotteryNobody(c) ==
  /\ policy = "lottery" /\ spc[c] = "choose"
  /\ \E winner \in Draws(c) : \A s \in Slot : ~Wins(s, winner)
  /\ Idle(c)
  /\ totalTickets' = [totalTickets EXCEPT ![c] = 0]
  /\ UNCHANGED <<policy, fields, min, atmax, fork, panicked, past>>

-----------------------------------------------------------------------------
(* stride_scheduler(): the scan for the smallest pass below max.  Every    *)
(* process that is smaller than all before it gets its stride set; min     *)
(* keeps the value of an earlier round when there is none.                 *)
Below(s) == s \in Runnable /\ pass[s] < max /\ \A q \in Runnable : q < s => pass[q] > pass[s]
Smallest == {s \in Slot : Below(s) /\ \A q \in Slot : q > s => ~Below(q)}

StrideScan(c) ==
  /\ policy = "stride" /\ spc[c] = "look"
  /\ stride' = [s \in Slot |-> IF Below(s) /\ tickets[s] # 0 THEN StrideOf(s) ELSE stride[s]]
  /\ IF Smallest = {} THEN min' = min ELSE \E s \in Smallest : min' = [min EXCEPT ![c] = s]
  /\ atmax' = [atmax EXCEPT ![c] = Smallest = {}]
  /\ spc' = [spc EXCEPT ![c] = "choose"]
  /\ UNCHANGED <<policy, state, tickets, pass, on, totalTickets, fork, panicked, past>>

(* All passes start over when the smallest has reached max.                *)
NeverStartOver(c) == FALSE
StartOver(c) == atmax[c]

MinAnyState(c) == min[c] # None
MinRunnable(c) == min[c] # None /\ state[min[c]] = "RUNNABLE"

NoAdvance(base, s) == base
Advance(base, s) == [base EXCEPT ![s] = plus(@, stride[s])]

StrideRun(c, s) ==
  /\ policy = "stride" /\ spc[c] = "choose" /\ s = min[c] /\ MinRunnable(c)
  /\ pass' = Advance(IF StartOver(c) THEN stride ELSE pass, s)
  /\ Run(c, s)
  /\ atmax' = [atmax EXCEPT ![c] = FALSE]
  /\ UNCHANGED <<policy, tickets, stride, totalTickets, min, fork, panicked, past>>

StrideNobody(c) ==
  /\ policy = "stride" /\ spc[c] = "choose" /\ ~MinRunnable(c)
  /\ Idle(c)
  /\ atmax' = [atmax EXCEPT ![c] = FALSE]
  /\ UNCHANGED <<policy, fields, totalTickets, min, fork, panicked, past>>

-----------------------------------------------------------------------------
(* The process that runs gives the processor up: yield(), sleep(), exit(). *)
Leave(c, v) ==
  /\ spc[c] = "run" /\ SetState(on[c], v)
  /\ v # "RUNNABLE" => forking[on[c]] = None
  /\ on' = [on EXCEPT ![c] = None] /\ spc' = [spc EXCEPT ![c] = "look"]
  /\ UNCHANGED <<policy, fields, locals, fork, panicked, past>>

(* wakeup() by an interrupt or another process; wait() reaps a zombie.     *)
Becomes(s, u, v) ==
  /\ state[s] = u /\ SetState(s, v)
  /\ UNCHANGED <<policy, fields, spc, on, locals, fork, panicked, past>>

(* No number of tickets is refused.                                        *)
sys_tickets(c, n) ==
  /\ spc[c] = "run" /\ forking[on[c]] = None
  /\ calls < MaxCalls /\ calls' = calls + 1
  /\ tickets' = [tickets EXCEPT ![on[c]] = n]
  /\ negative' = (negative \/ n < 0)
  /\ UNCHANGED <<policy, state, stride, pass, spc, on, locals, fork, panicked>>

(* fork(): allocproc() takes the first UNUSED slot and clears its pass,    *)
(* without the lock; it gives the slot back if there is no memory for the  *)
(* kernel stack, as fork() does if there is none for the child.            *)
allocproc(c, s) ==
  /\ spc[c] = "run" /\ forking[on[c]] = None /\ calls < MaxCalls
  /\ state[s] = "UNUSED" /\ \A q \in Slot : q < s => state[q] # "UNUSED"
  /\ SetState(s, "EMBRYO")
  /\ forking' = [forking EXCEPT ![on[c]] = s] /\ fresh' = fresh \cup {s}
  /\ calls' = calls + 1
  /\ UNCHANGED <<policy, fields, spc, on, locals, panicked, negative>>

ClearPass(c) ==
  /\ spc[c] = "run" /\ forking[on[c]] \in fresh
  /\ pass' = [pass EXCEPT ![forking[on[c]]] = 0]
  /\ fresh' = fresh \ {forking[on[c]]}
  /\ UNCHANGED <<policy, state, tickets, stride, spc, on, locals, forking, panicked, past>>

ForkFails(c) ==
  /\ spc[c] = "run" /\ forking[on[c]] \in Slot
  /\ SetState(forking[on[c]], "UNUSED")
  /\ fresh' = fresh \ {forking[on[c]]} /\ forking' = [forking EXCEPT ![on[c]] = None]
  /\ UNCHANGED <<policy, fields, spc, on, locals, panicked, past>>

ForkRunnable(c) ==
  /\ spc[c] = "run" /\ forking[on[c]] \in Slot \ fresh
  /\ SetState(forking[on[c]], "RUNNABLE")
  /\ forking' = [forking EXCEPT ![on[c]] = Reset]
  /\ UNCHANGED <<policy, fields, spc, on, locals, fresh, panicked, past>>

(* The second critical section of fork() starts the race over: processes   *)
(* that are ready to run and have tickets get their stride as pass, all    *)
(* other slots, sleepers included, get one ticket and no stride.           *)
Ready(s) == state[s] \in {"RUNNABLE", "RUNNING"}

ForkReset(c) ==
  /\ spc[c] = "run" /\ forking[on[c]] = Reset
  /\ tickets' = [s \in Slot |-> IF Ready(s) THEN tickets[s] ELSE DEFAULT_TICKETS]
  /\ stride' = [s \in Slot |-> CASE ~Ready(s) -> 0
                                 [] Ready(s) /\ tickets[s] # 0 -> StrideOf(s)
                                 [] OTHER -> stride[s]]
  /\ pass' = [s \in Slot |-> IF Ready(s) /\ tickets[s] # 0 THEN StrideOf(s) ELSE pass[s]]
  /\ forking' = [forking EXCEPT ![on[c]] = None]
  /\ UNCHANGED <<policy, state, spc, on, locals, fresh, panicked, past>>

-----------------------------------------------------------------------------
Choose(c) ==
  \/ LotteryTotal(c) \/ LotteryTrap(c) \/ LotteryNobody(c)
  \/ StrideScan(c) \/ StrideNobody(c)
  \/ \E s \in Slot : LotteryRun(c, s) \/ StrideRun(c, s)

Program(c) ==
  \/ Leave(c, "SLEEPING") \/ Leave(c, "ZOMBIE")
  \/ \E n \in Tickets : sys_tickets(c, n)
  \/ ClearPass(c) \/ ForkFails(c) \/ ForkRunnable(c) \/ ForkReset(c)
  \/ \E s \in Slot : allocproc(c, s)

(* panic() stops every processor for good.                                 *)
Halted == panicked /\ UNCHANGED vars

Next ==
  \/ Halted
  \/ /\ ~panicked
     /\ \/ \E c \in CPU : Choose(c) \/ Program(c) \/ Leave(c, "RUNNABLE")
        \/ \E s \in Slot : Becomes(s, "SLEEPING", "RUNNABLE") \/ Becomes(s, "ZOMBIE", "UNUSED")

Spec == Init /\ [][Next]_vars

(* The schedulers loop, the timer interrupts whoever runs, and every       *)
(* number that can be drawn again and again is drawn.                      *)
FairSpec ==
  /\ Spec
  /\ WF_vars(~panicked /\ \E c \in CPU : Choose(c))
  /\ WF_vars(~panicked /\ \E c \in CPU : Leave(c, "RUNNABLE"))
  /\ \A s \in Slot : SF_vars(~panicked /\ \E c \in CPU : LotteryRun(c, s))

-----------------------------------------------------------------------------
(* Properties.                                                             *)

(* A process runs on one processor at a time although its state was looked *)
(* at in an earlier critical section: both schedulers look again.          *)
RunsOnce ==
  \A s \in Slot : Cardinality({c \in CPU : on[c] = s}) = IF state[s] = "RUNNING" THEN 1 ELSE 0

(* The passes cannot grow without bound, and adding to them never          *)
(* overflows: each processor adds a stride at most once to a process that  *)
(* it saw below max, before it looks again.  But the pass of a process     *)
(* that was given a negative number falls with every run, and wraps.       *)
PassBounded ==
  negative \/ \A s \in Slot : pass[s] \in 0 .. max + Cardinality(CPU) * TOTAL_MAX_TICKETS - 1

(* Under the lottery a process that has tickets and stays runnable some    *)
(* day runs, whatever the stale totals of other rounds were; unless        *)
(* somebody has a negative number of tickets, or so many that the total is *)
(* no int.                                                                 *)
HasTickets(s) == state[s] = "RUNNABLE" /\ tickets[s] > 0
LotteryExcused ==
  \/ panicked
  \/ \E s \in Slot : Ready(s) /\ tickets[s] < 0
  \/ FoldFunctionOnSet(+, 0, tickets, {s \in Slot : Ready(s)}) > INT_MAX
LotteryRuns ==
  \A s \in Slot :
    []<>LotteryExcused \/ ((policy = "lottery" /\ HasTickets(s)) ~> ~HasTickets(s))

(* Under stride the same holds, with the exceptions the code has.  A       *)
(* process without tickets (init and the first process it calls), or with  *)
(* more than TOTAL_MAX_TICKETS, has no stride, and one with a negative     *)
(* number a negative one: it is the smallest for ever.  And when all       *)
(* passes have reached max while the min of the last round is not          *)
(* runnable, nobody is chosen.                                             *)
StrideExcused ==
  \/ \E s \in Slot : Ready(s) /\ tickets[s] \notin 1 .. TOTAL_MAX_TICKETS
  \/ \E c \in CPU : spc[c] = "choose" /\ atmax[c] /\ ~MinRunnable(c)
StrideRuns ==
  \A s \in Slot : []<>StrideExcused \/ ((policy = "stride" /\ HasTickets(s)) ~> ~HasTickets(s))

\* Under both schedulers a process that stays runnable runs, with the
\* exceptions above (lottery_scheduler(), stride_scheduler()).
NobodyStarves ==
    LotteryRuns /\ StrideRuns

\* The numbers of stride_scheduler() stay in their range.
PassesSound ==
    TypeOK /\ PassBounded

=============================================================================
