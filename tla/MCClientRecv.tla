---------------------------- MODULE MCClientRecv ----------------------------
(* Records of 1, 2, 4 and 6 bytes in a buffer of 5: empty, short, leaving   *)
(* room for a part of the next only, and longer than the buffer.  The       *)
(* callers' buffers are shorter than a record's text.                       *)
EXTENDS ClientRecv

MCSizes == {0, 1, 3, 5}
MCLens == {1, 2}
=============================================================================
