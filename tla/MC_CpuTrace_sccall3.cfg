\* The SCCALL expansion the specification states (3 ext lines), checked
\* against the ext_length gen_cpu_trace derives the group end from.
CONSTANTS
  Instructions <- MCInstructions
  SccallExtLines = 3
  MaxRows = 7
  MaxTx = 1

SPECIFICATION Spec

\* The pipeline stops once the table is generated.
CHECK_DEADLOCK FALSE

INVARIANT DiffInstMarksGroupEnd
