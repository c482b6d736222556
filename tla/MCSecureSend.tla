---------------------------- MODULE MCSecureSend ----------------------------
(* Messages of no byte, of one, of the most a message may have, and longer. *)
EXTENDS SecureSend

MCLengths == {0, 1, 2, 3}
=============================================================================
