-------------------------- MODULE MCUnicastSender --------------------------
EXTENDS UnicastSender
CONSTANTS bc, r1, r2
MCDests == {bc, r1, r2}
=============================================================================
