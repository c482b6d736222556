------------------------- MODULE MCClientHandshake --------------------------
\* TLC checks ClientHandshake itself: its constants are numbers.
EXTENDS ClientHandshake
=============================================================================
