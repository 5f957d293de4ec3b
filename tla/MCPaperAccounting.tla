-------------------------- MODULE MCPaperAccounting --------------------------
EXTENDS PaperAccounting
=============================================================================
