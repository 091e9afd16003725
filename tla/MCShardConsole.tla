--------------------------- MODULE MCShardConsole ---------------------------
EXTENDS ShardConsole
=============================================================================
