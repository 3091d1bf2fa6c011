----------------------------- MODULE MCProcLife -----------------------------
EXTENDS ProcLife
=============================================================================
