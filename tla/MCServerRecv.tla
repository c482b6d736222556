---------------------------- MODULE MCServerRecv ----------------------------
(* Records of 1, 2 and 4 bytes.  A caller may give too little room for the  *)
(* longest, and the handshake may end at two places in the buffer.          *)
EXTENDS ServerRecv

MCSizes == {0, 1, 3}
MCShortLens == {1, 3}
MCLongLens == {3}
MCHandshakeEnds == {0, 2}
MCNoHandshakeRest == {0}
=============================================================================
