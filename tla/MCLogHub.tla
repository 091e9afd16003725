------------------------------ MODULE MCLogHub ------------------------------
EXTENDS LogHub
=============================================================================
