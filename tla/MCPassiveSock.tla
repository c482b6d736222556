--------------------------- MODULE MCPassiveSock ----------------------------
(* Calls for one byte or two, and a timeout of one second on a clock that   *)
(* outlives it twice.                                                       *)
EXTENDS PassiveSock
=============================================================================
