\* SCCALL with the 3 ext lines the constraints assume, register values 0
\* and 1, tape pointers up to 8 (one SCCALL advances tp by 8), two
\* transactions, tables of up to 3 rows: a primary row and its ext line.
CONSTANTS
  SccallExtLines = 3
  Vals = {0, 1}
  MaxTp = 8
  MaxTx = 1
  MaxRows = 3

SPECIFICATION Spec

\* The table stops growing at the row bound.
CHECK_DEADLOCK FALSE

PROPERTY TapeAccessAsCommented
