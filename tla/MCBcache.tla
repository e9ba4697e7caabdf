------------------------------ MODULE MCBcache ------------------------------
(* Bcache with model values for the processes.                             *)
EXTENDS Bcache
=============================================================================
