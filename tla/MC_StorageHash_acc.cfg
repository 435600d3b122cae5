\* Tree height 8 (4 classes of 2 layers), two accesses, addr_acc in 0..3:
\* every constraint factor of the 256-layer table has its analogue here.
CONSTANTS
  ClassLen = 2
  MaxIdx = 2
  MaxAcc = 3
  MaxRows = 10

SPECIFICATION Spec

\* The table stops growing at the row bound.
CHECK_DEADLOCK FALSE

PROPERTY AddressBoundToPath
