---------------------------- MODULE MCLinkLayer ----------------------------
EXTENDS LinkLayer
CONSTANTS bc, r1, r2
MCDests == {bc, r1, r2}
=============================================================================
