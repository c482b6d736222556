----------------------------- MODULE ByteStream -----------------------------
(***************************************************************************)
(* What the receiving side of a secure stream promises its caller: the     *)
(* bytes handed over are the bytes the peer wrote, in order, none lost,    *)
(* none repeated.  Byte number i of the stream is represented by i.        *)
(***************************************************************************)
EXTENDS Naturals, Sequences

VARIABLES
    written,     \* how many bytes the peer has written
    delivered    \* the bytes handed to the caller so far

FirstBytes(n) == [i \in 1 .. n |-> i]

Init == written \in Nat /\ delivered = <<>>

Write == /\ written' \in Nat /\ written' >= written
         /\ UNCHANGED delivered

Read == /\ \E n \in 0 .. written :
             n >= Len(delivered) /\ delivered' = FirstBytes(n)
        /\ UNCHANGED written

Next == Write \/ Read

Spec == Init /\ [][Next]_<<written, delivered>>
=============================================================================
