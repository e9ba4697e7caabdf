------------------------------ MODULE ByteFile ------------------------------
(***************************************************************************)
(* What a file promises: a sequence of bytes, at first the N that mkfs     *)
(* stored, of which a write replaces some from a place inside the file or  *)
(* at its end.                                                             *)
(***************************************************************************)
EXTENDS Naturals, Sequences

CONSTANTS Marks,   \* the bytes that are written
          Mkfs,    \* the byte that mkfs stores
          MaxLen   \* the largest file

VARIABLE bytes

BytesInit == \E n \in 0 .. MaxLen : bytes = [i \in 1 .. n |-> Mkfs]

Overlay(off, mark, n) ==
    [i \in 1 .. (IF off + n > Len(bytes) THEN off + n ELSE Len(bytes)) |->
        IF i \in off + 1 .. off + n THEN mark ELSE bytes[i]]

BytesNext == \E off \in 0 .. Len(bytes), mark \in Marks, n \in 1 .. MaxLen :
                 off + n <= MaxLen /\ bytes' = Overlay(off, mark, n)

BytesSpec == BytesInit /\ [][BytesNext]_bytes
=============================================================================
