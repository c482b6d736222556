--------------------------- MODULE MCStreamSession --------------------------
\* TLC checks StreamSession itself: its constant is a number.
EXTENDS StreamSession
=============================================================================
