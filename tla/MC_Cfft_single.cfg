\* F_17 (2-adicity 4): columns of 1 and 2 cells (a one-row table) over {0, 1}, cosets
\* blown up by 1 or 2 (up to the 16-point subgroup), at shift 1 or 3.
\* MIN_CONCURRENT_SIZE is scaled to 4 so both CPU backends run; usize is
\* 16 bits wide, enough for every index and narrow enough for TLC.
CONSTANTS
  Prime = 17
  Generator = 3
  TwoAdicity = 4
  UsizeBits = 16
  MinConcurrentSize = 4
  Lens = {1, 2}
  Values = {0, 1}
  Offsets = {1, 3}
  Blowups = {1, 2}

SPECIFICATION Spec

\* The caller's pipeline ends after the last interpolation.
CHECK_DEADLOCK FALSE

INVARIANT ValidCallsSucceed
