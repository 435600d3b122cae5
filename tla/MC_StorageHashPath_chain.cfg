\* Tree height 8 (4 classes of 2 layers), two accesses, three node values,
\* tables of up to 3 rows: a violating pair of rows fits.
\* layer_bit stays binary, so only the path structure is in question.
CONSTANTS
  ClassLen = 2
  MaxIdx = 2
  MaxRows = 3
  NodeVals = 3
  BitVals = {0, 1}

SPECIFICATION Spec

\* The table stops growing at the row bound.
CHECK_DEADLOCK FALSE

PROPERTY AccessProvesOnePath
