CONSTANT MayPanic <- MCMayPanic
SPECIFICATION Spec
\* generate_traces ends by returning or panicking; its final states have
\* no successor by design.
CHECK_DEADLOCK FALSE
INVARIANT TypeOK
INVARIANT NoPartialOutput
PROPERTY GenerationEnds
INVARIANT TraceServesItsStark
