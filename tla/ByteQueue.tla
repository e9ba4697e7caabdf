----------------------------- MODULE ByteQueue -----------------------------
(***************************************************************************)
(* What a pipe promises to the programs that share it: a bounded queue of  *)
(* bytes with two ends.  Bytes come out in the order they went in; the     *)
(* write end takes none once it is closed, and a closed end stays closed.  *)
(***************************************************************************)
EXTENDS Naturals, Sequences

CONSTANTS Byte, Size

VARIABLES queue, readopen, writeopen

vars == <<queue, readopen, writeopen>>

Init == queue = <<>> /\ readopen = TRUE /\ writeopen = TRUE

Put(b) == /\ writeopen /\ Len(queue) < Size
          /\ queue' = Append(queue, b)
          /\ UNCHANGED <<readopen, writeopen>>

Get == /\ readopen /\ queue # <<>>
       /\ queue' = Tail(queue)
       /\ UNCHANGED <<readopen, writeopen>>

CloseRead  == readopen /\ readopen' = FALSE /\ UNCHANGED <<queue, writeopen>>
CloseWrite == writeopen /\ writeopen' = FALSE /\ UNCHANGED <<queue, readopen>>

Next == Get \/ CloseRead \/ CloseWrite \/ \E b \in Byte : Put(b)

Spec == Init /\ [][Next]_vars
=============================================================================
