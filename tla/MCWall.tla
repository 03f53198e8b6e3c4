------------------------------- MODULE MCWall -------------------------------
EXTENDS Wall
=============================================================================
