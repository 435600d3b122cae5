\* Two addresses, two values and five operations over three clock ticks:
\* enough for a read before any write, a write over a write, reads of
\* both values and interleaved accesses to two addresses.
CONSTANTS
  Addrs = {a1, a2}
  Values = {v1, v2}
  Uninit = Uninit
  MemVistInv = MemVistInv
  NoResult = NoResult
  MaxOps = 5
  MaxClk = 2

SYMMETRY Symm

SPECIFICATION Spec

\* The executor stops calling into memory at the operation bound.
CHECK_DEADLOCK FALSE

INVARIANT TypeOK
INVARIANT HistoryConsistent
PROPERTY AbsMemorySpec
