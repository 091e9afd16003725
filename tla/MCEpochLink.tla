---------------------------- MODULE MCEpochLink -----------------------------
EXTENDS EpochLink
=============================================================================
