------------------------- MODULE MCServerHandshake --------------------------
\* TLC checks ServerHandshake itself: its constants are numbers and model
\* values.
EXTENDS ServerHandshake
=============================================================================
