------------------------------ MODULE MCSched ------------------------------
(* Sched on two processors.  The numbers of tickets are a negative one,    *)
(* two shares, and one above TOTAL_MAX_TICKETS that makes a total          *)
(* overflow.                                                               *)
EXTENDS Sched

MCTickets == {-1, 1, 2, 7}
=============================================================================
