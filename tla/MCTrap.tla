------------------------------- MODULE MCTrap -------------------------------
(* Spin locks and interrupts on two CPUs: a process that sleeps and reads  *)
(* lines, and one that kills it; and a reader beside a wait() that prints. *)
EXTENDS Trap

MCCalls == <<{"sleep", "read"}, {"kill"}>>
MCPrintCalls == <<{"read"}, {"wait"}>>
=============================================================================
