---------------------------- MODULE MCActiveSock ----------------------------
\* TLC checks ActiveSock itself: every constant is a number given in the .cfg.
EXTENDS ActiveSock
=============================================================================
