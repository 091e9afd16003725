---------------------------- MODULE MCApiCommand ----------------------------
EXTENDS ApiCommand
=============================================================================
