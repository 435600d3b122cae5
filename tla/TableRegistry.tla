---------------------------- MODULE TableRegistry ----------------------------
(***************************************************************************)
(* The STARK registry (circuits/src/stark/ola_stark.rs) composed with the  *)
(* trace orchestrator: the prover pairs the i-th returned trace with the   *)
(* i-th stark of OlaStark (nums_permutation_zs, permutation_batch_sizes)   *)
(* and a cross-table lookup names its tables by Table as usize, an index   *)
(* into the array generate_traces returns.  A CTL is abstracted to the     *)
(* tables it binds: the looking tables and the looked table.               *)
(***************************************************************************)
EXTENDS Orchestrator

\* enum Table: the discriminant of each table.
TableIndex == [cpu |-> 0, memory |-> 1, bitwise |-> 2, cmp |-> 3, rc |-> 4,
               bitwise_fixed |-> 5, rc_fixed |-> 6, program |-> 7]

NUM_TABLES == 5

\* The starks of OlaStark, in the order of its per-table arrays.
StarkOrder == <<"cpu", "memory", "bitwise", "cmp", "rc">>

Ctl(looking, looked) == [looking |-> looking, looked |-> looked]

CtlCpuMemory == Ctl({"cpu"}, "memory")
CtlMemoryRc == Ctl({"memory"}, "rc")
CtlBitwiseCpu == Ctl({"cpu"}, "bitwise")
CtlCmpCpu == Ctl({"cpu"}, "cmp")
CtlCmpRangecheck == Ctl({"rc"}, "cmp")
CtlRangecheckCpu == Ctl({"cpu"}, "rc")

\* all_cross_table_lookups.
AllCtls == {CtlCpuMemory, CtlMemoryRc, CtlBitwiseCpu, CtlCmpCpu,
            CtlCmpRangecheck, CtlRangecheckCpu}

CtlTables(c) == c.looking \cup {c.looked}

\* OlaStark::default(): one stark per table, in the order of its fields,
\* and the cross-table lookups of all_cross_table_lookups (the CUDA
\* initialisation under feature "cuda" changes no field).
OlaStarkDefault == [starks |-> StarkOrder, cross_table_lookups |-> AllCtls]

-----------------------------------------------------------------------------
\* Every table a cross-table lookup names is, at its Table index, both the
\* trace generate_traces returned and the stark the prover evaluates it
\* with: no lookup reads another table's columns.
TraceServesItsStark ==
  main = "returned" =>
    \A c \in OlaStarkDefault.cross_table_lookups : \A t \in CtlTables(c) :
      /\ TableIndex[t] < NUM_TABLES
      /\ out[TableIndex[t] + 1] = t
      /\ OlaStarkDefault.starks[TableIndex[t] + 1] = t

=============================================================================
