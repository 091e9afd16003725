---------------------------- MODULE MCStatusRing ----------------------------
EXTENDS StatusRing
=============================================================================
