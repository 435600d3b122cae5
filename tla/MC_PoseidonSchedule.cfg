\* The round counts of plonky2's Poseidon over Goldilocks.
CONSTANTS
  HalfFull = 4
  Partial = 22

SPECIFICATION Spec

\* Both computations end after their last round.
CHECK_DEADLOCK FALSE

INVARIANT TypeOK
INVARIANT CapturedRowSatisfiesConstraints
