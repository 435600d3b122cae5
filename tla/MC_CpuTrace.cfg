\* CPU table generation over every batch of at most 2 transactions and
\* 6 Step rows; SCCALL expands to the single ext line gen_cpu_trace assumes.
CONSTANTS
  Instructions <- MCInstructions
  SccallExtLines = 1
  MaxRows = 6
  MaxTx = 2

SPECIFICATION Spec

\* The pipeline stops once the table is generated.
CHECK_DEADLOCK FALSE

INVARIANT TypeOK
INVARIANT DiffInstMarksGroupEnd
INVARIANT SameTxMarksTxEnd
INVARIANT PaddedToPowerOfTwo
INVARIANT StorageIdxNonDecreasing
INVARIANT StorageExtLinesOnePerAccess
INVARIANT SccallMarkersNested
