----------------------------- MODULE MCListener -----------------------------
\* TLC checks Listener itself: its constants are a number and model values.
EXTENDS Listener
=============================================================================
