------------------------------- MODULE MCPipe -------------------------------
(* Pipe with model values for the processes.                               *)
EXTENDS Pipe
=============================================================================
