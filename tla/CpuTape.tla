------------------------------ MODULE CpuTape ------------------------------
(***************************************************************************)
(* The tape-lookup filter constraints of the CPU STARK                    *)
(* (circuits/src/cpu/tape.rs, eval_packed_generic) evaluated on the rows  *)
(* gen_cpu_trace produces.  The two filter columns                        *)
(* COL_FILTER_TAPE_LOOKING (f) and COL_FILTER_SCCALL_TAPE_LOOKING (g) are *)
(* copied from the Step, whose producer is not among the sources, so a    *)
(* row is accepted when SOME values of f and g make every row-local       *)
(* constraint zero.  All factors are small integers, so a product is zero *)
(* in the Goldilocks field exactly when it is zero over the integers.     *)
(***************************************************************************)
EXTENDS CpuTrace

\* Selector columns of a row as field values.
S(r, col) == IF r.sel = col THEN 1 ELSE 0

\* The COL_FILTER_TAPE_LOOKING constraints on one row (lv).
TapeFilterOk(r, f) ==
  LET tl == S(r, "S_TLOAD")   ts == S(r, "S_TSTORE")   sc == S(r, "S_CALL_SC")
      e  == r.is_ext           c  == r.ext_cnt
  IN /\ f * (1 - f) = 0
     /\ f * (1 - tl - ts - sc) = 0
     /\ f * (1 - e) = 0
     /\ (tl + ts) * e * (1 - f) = 0
     /\ sc * (1 - c) * (c - 2) * (1 - f) = 0
     /\ sc * (c - 3) * f = 0

\* The COL_FILTER_SCCALL_TAPE_LOOKING constraints on one row (lv).
SccallTapeFilterOk(r, g) ==
  LET sc == S(r, "S_CALL_SC")   e == r.is_ext   c == r.ext_cnt
  IN /\ g * (1 - g) = 0
     /\ (1 - sc) * g = 0
     /\ sc * (1 - e) * g = 0
     /\ sc * e * (c - 2) * (c - 3) * g = 0
     /\ sc * e * (1 - c) * (1 - g) = 0

\* Completeness of the tape filters: every row of every table the
\* generator can produce admits filter values the CPU STARK accepts, so
\* an honest execution containing TLOAD, TSTORE or SCCALL can be proven.
TapeFiltersSatisfiable ==
  Done => \A i \in 1..N :
            /\ \E f \in {0, 1} : TapeFilterOk(trace[i], f)
            /\ \E g \in {0, 1} : SccallTapeFilterOk(trace[i], g)

=============================================================================
