--------------------------- MODULE MC_Orchestrator ---------------------------
EXTENDS TableRegistry

\* A challenge worker that panics before its recv, and a later worker.
MCMayPanic == {"bitwise", "sccall"}

=============================================================================
