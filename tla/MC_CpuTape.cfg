\* Tape filter constraints of the CPU STARK against the rows the generator
\* writes for the specification's SCCALL expansion (3 ext lines).
CONSTANTS
  Instructions <- MCInstructions
  SccallExtLines = 3
  MaxRows = 7
  MaxTx = 1

SPECIFICATION Spec

\* The pipeline stops once the table is generated.
CHECK_DEADLOCK FALSE

INVARIANT TapeFiltersSatisfiable
