-------------------------- MODULE MCProcessRegistry --------------------------
\* ProcessRegistry on four pids, two of them of processes that never end.
EXTENDS ProcessRegistry

MCPids == 1..4
MCPermanent == 1..2
=============================================================================
