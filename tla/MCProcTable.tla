---- MODULE MCProcTable ----
EXTENDS ProcTable
====
