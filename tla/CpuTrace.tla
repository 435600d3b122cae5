------------------------------ MODULE CpuTrace ------------------------------
(***************************************************************************)
(* The CPU table generator gen_cpu_trace (circuits/src/generation/cpu.rs) *)
(* applied to the Step rows of a batch produced by the execution engine   *)
(* (module ExecEngine).  The generator walks the transactions in order,   *)
(* writes one table row per Step (primary rows and ext lines alike),      *)
(* derives the opcode selector and the filter columns of each row from    *)
(* that Step alone, and pads the table to a power-of-two length.          *)
(*                                                                         *)
(* A row keeps the columns the derived flags are about: COL_TX_IDX,       *)
(* COL_ENV_IDX (zero or not), COL_EXT_CNT, COL_IS_EXT_LINE, COL_OPCODE,   *)
(* the opcode selector column, COL_IS_ENTRY_SC,                           *)
(* COL_IS_NEXT_LINE_DIFF_INST, COL_IS_NEXT_LINE_SAME_TX,                  *)
(* IS_SCCALL_EXT_LINE, COL_IS_STORAGE_EXT_LINE, COL_FILTER_SCCALL_END,    *)
(* COL_FILTER_LOOKING_PROG_IMM, COL_IDX_STORAGE and COL_IS_PADDING.       *)
(* Registers, addresses, pc, clk and the raw instruction word are copied  *)
(* unchanged from the Step and are left out.                              *)
(***************************************************************************)
EXTENDS ExecEngine

VARIABLE trace  \* the generated CPU table: a sequence of rows

vars == <<batch, cur, depth, sidx, phase, trace>>

(***************************************************************************)
(* The opcode -> selector column map built at the top of gen_cpu_trace.   *)
(* An opcode absent from the map sets no selector (the None => () arm).   *)
(***************************************************************************)
OpcodeToSelector(op) ==
  CASE op \in {"ADD", "MUL", "EQ", "ASSERT", "NEQ"} -> "S_SIMPLE_ARITHMATIC_OP"
    [] op \in {"AND", "OR", "XOR"}                  -> "S_BITWISE"
    [] op = "MOV"     -> "S_MOV"     [] op = "JMP"    -> "S_JMP"
    [] op = "CJMP"    -> "S_CJMP"    [] op = "CALL"   -> "S_CALL"
    [] op = "RET"     -> "S_RET"     [] op = "MLOAD"  -> "S_MLOAD"
    [] op = "MSTORE"  -> "S_MSTORE"  [] op = "END"    -> "S_END"
    [] op = "RC"      -> "S_RC"      [] op = "NOT"    -> "S_NOT"
    [] op = "GTE"     -> "S_GTE"     [] op = "POSEIDON" -> "S_PSDN"
    [] op = "SLOAD"   -> "S_SLOAD"   [] op = "SSTORE" -> "S_SSTORE"
    [] op = "TLOAD"   -> "S_TLOAD"   [] op = "TSTORE" -> "S_TSTORE"
    [] op = "SCCALL"  -> "S_CALL_SC"
    [] OTHER          -> "none"

(***************************************************************************)
(* ext_length of a Step as gen_cpu_trace computes it.  op0 and op1 are    *)
(* u64 values; with op0 in {0, 1} the expression does not wrap.           *)
(***************************************************************************)
ExtLength_mutTloadSimplified(s) ==
  CASE s.op \in {"SLOAD", "SSTORE", "SCCALL"} \/ (s.op = "END" /\ s.env # 0) -> 1
    [] s.op = "TLOAD"  -> s.op1 + (1 - s.op0)
    [] s.op = "TSTORE" -> s.op1
    [] OTHER           -> 0

ExtLength(s) ==
  CASE s.op \in {"SLOAD", "SSTORE", "SCCALL"} \/ (s.op = "END" /\ s.env # 0) -> 1
    [] s.op = "TLOAD"  -> s.op0 * s.op1 + (1 - s.op0)
    [] s.op = "TSTORE" -> s.op1
    [] OTHER           -> 0

Bit(b) == IF b THEN 1 ELSE 0

\* Mutants of single derived columns, each a plausible slip in cpu.rs.
SameTx_mutNoEnvCheck(s) == Bit(~(s.op = "END"))
SameTx(s) == Bit(~(s.env = 0 /\ s.op = "END"))

SccallExt(s) == Bit(s.op = "SCCALL" /\ s.ext_cnt = 1)

StorageExt_mutNoExtCheck(s) == Bit(s.op \in {"SLOAD", "SSTORE"})
StorageExt(s) == Bit(s.op \in {"SLOAD", "SSTORE"} /\ s.is_ext = 1)

SccallEnd_mutNoExtCheck(s) == Bit(s.op = "END")
SccallEnd(s) == Bit(s.op = "END" /\ s.is_ext = 1)

ProgImm_mutSum(s) ==
  IF s.is_ext = 1 THEN 0
  ELSE Bit(s.op \in {"MLOAD", "MSTORE"}) + s.imm

ProgImm(s) ==
  IF s.is_ext = 1 THEN 0
  ELSE Bit(s.op \in {"MLOAD", "MSTORE"} \/ s.imm = 1)

\* One iteration of the row loop of gen_cpu_trace: Step s of transaction t.
CpuRow(s, t) ==
  [tx |-> t, env |-> s.env, ext_cnt |-> s.ext_cnt, is_ext |-> s.is_ext,
   op |-> s.op, sel |-> OpcodeToSelector(s.op),
   entry_sc |-> Bit(s.env = 0),
   diff |-> Bit(ExtLength(s) = s.ext_cnt),
   same_tx |-> SameTx(s),
   sccall_ext |-> SccallExt(s),
   storage_ext |-> StorageExt(s),
   sccall_end |-> SccallEnd(s),
   prog_imm |-> ProgImm(s),
   sidx |-> s.sidx,
   padding |-> 0]

\* The rows of the whole batch, transactions in order, tx_idx from 0.
RealRows(b) ==
  FlattenSeq([t \in 1..Len(b) |-> [j \in 1..Len(b[t]) |-> CpuRow(b[t][j], t - 1)]])

(***************************************************************************)
(* Table length: usize::is_power_of_two is false for 0, and               *)
(* 0.next_power_of_two() is 1, so an empty batch still gets one row.      *)
(***************************************************************************)
IsPowerOfTwo(n) == \E k \in 0..n : 2^k = n
NextPowerOfTwo(n) == CHOOSE p \in {2^k : k \in 0..n} : p >= n /\ (p = 1 \/ p \div 2 < n)

ExtTraceLen_mutOffByOne(n) == CHOOSE p \in {2^k : k \in 0..(n+1)} : p > n /\ (p = 1 \/ p \div 2 <= n)
ExtTraceLen(n) == IF ~IsPowerOfTwo(n) THEN NextPowerOfTwo(n) ELSE n

(***************************************************************************)
(* A padding row: the columns the "fill in padding" block writes, every   *)
(* other column left at zero.  tx_idx and idx_storage repeat the last    *)
(* real row (0 for an empty batch).                                       *)
(***************************************************************************)
PadRow_mutResetIdx(real) ==
  [tx |-> IF real = <<>> THEN 0 ELSE Last(real).tx,
   env |-> 0, ext_cnt |-> 0, is_ext |-> 0, op |-> "END", sel |-> "S_END",
   entry_sc |-> 1, diff |-> 1, same_tx |-> 0, sccall_ext |-> 0,
   storage_ext |-> 0, sccall_end |-> 0, prog_imm |-> 0,
   sidx |-> 0, padding |-> 1]

PadRow(real) ==
  [tx |-> IF real = <<>> THEN 0 ELSE Last(real).tx,
   env |-> 0, ext_cnt |-> 0, is_ext |-> 0, op |-> "END", sel |-> "S_END",
   entry_sc |-> 1, diff |-> 1, same_tx |-> 0, sccall_ext |-> 0,
   storage_ext |-> 0, sccall_end |-> 0, prog_imm |-> 0,
   sidx |-> IF real = <<>> THEN 0 ELSE Last(real).sidx, padding |-> 1]

GenCpuTrace(b) ==
  LET real == RealRows(b)
      n    == Len(real)
  IN real \o [k \in 1..(ExtTraceLen(n) - n) |-> PadRow(real)]

\* The row loop of generate_cpu_trace writes the columns gen_cpu_trace's
\* does, except COL_TX_IDX, which it never writes: it stays 0.
TxCpuRow(s) == CpuRow(s, 0)

\* generate_cpu_trace's own "fill in padding" block, the same writes as
\* gen_cpu_trace's; the repeated tx_idx is the 0 of every real row.
TxPadRow(real) == PadRow(real)

\* generate_cpu_trace: the length rounded up to a power of two, the row
\* loop over the Steps of one transaction, then the padding.
GenTxCpuTrace(steps) ==
  LET real == [j \in 1..Len(steps) |-> TxCpuRow(steps[j])]
      n    == Len(real)
  IN real \o [k \in 1..(ExtTraceLen(n) - n) |-> TxPadRow(real)]

-----------------------------------------------------------------------------
Init ==
  /\ ExecInit
  /\ trace = <<>>

\* gen_cpu_trace, the whole call: rows, then padding.
GenerateCpuTrace ==
  /\ phase = "gen"
  /\ trace' = GenCpuTrace(batch)
  /\ phase' = "done"
  /\ UNCHANGED execVars

\* generate_cpu_trace, called by generate_traces on the Steps of a
\* single program run.
GenerateTxCpuTrace ==
  /\ phase = "gen"
  /\ Len(batch) <= 1
  /\ trace' = GenTxCpuTrace(FlattenSeq(batch))
  /\ phase' = "done"
  /\ UNCHANGED execVars

Next ==
  \/ \E ins \in Instructions : Exec(ins) /\ UNCHANGED trace
  \/ FinishBatch /\ UNCHANGED trace
  \/ GenerateCpuTrace
  \/ GenerateTxCpuTrace

Spec == Init /\ [][Next]_vars

-----------------------------------------------------------------------------
(***************************************************************************)
(* Properties, checked on the finished table (phase = "done").            *)
(***************************************************************************)
Done == phase = "done"
N == Len(trace)
RealCount == Len(SelectSeq(trace, LAMBDA r : r.padding = 0))

Row == [tx : 0..MaxTx, env : 0..MaxRows, ext_cnt : 0..MaxRows,
        is_ext : {0, 1}, op : STRING, sel : STRING,
        entry_sc : {0, 1}, diff : {0, 1}, same_tx : {0, 1},
        sccall_ext : {0, 1}, storage_ext : {0, 1}, sccall_end : {0, 1},
        prog_imm : {0, 1}, sidx : 0..MaxRows, padding : {0, 1}]

TypeOK ==
  /\ phase \in {"exec", "gen", "done"}
  /\ depth \in 0..MaxRows /\ sidx \in 0..MaxRows
  /\ trace \in Seq(Row)

\* COL_IS_NEXT_LINE_DIFF_INST is 1 on a row exactly when the next row does
\* not continue the same instruction (it is not an ext line) or there is
\* no next row: the ext_length closed form of gen_cpu_trace must agree with
\* the number of ext lines the engine emits for every opcode.
DiffInstMarksGroupEnd ==
  Done => \A i \in 1..N :
            trace[i].diff = 1 <=> (i = N \/ trace[i + 1].is_ext = 0)

\* COL_IS_NEXT_LINE_SAME_TX is 1 on a row exactly when the next row is a
\* real row of the same transaction: only a top-level END closes a
\* transaction, a nested END does not, and padding never continues one.
SameTxMarksTxEnd ==
  Done => \A i \in 1..N :
            trace[i].same_tx = 1 <=>
              (i < N /\ trace[i + 1].padding = 0 /\ trace[i + 1].tx = trace[i].tx)

\* The table is the shortest power-of-two table holding every Step row,
\* real rows first, then padding rows only.
PaddedToPowerOfTwo ==
  Done => /\ IsPowerOfTwo(N)
          /\ RealCount = Len(FlattenSeq(batch))
          /\ N \div 2 < RealCount \/ N = 1
          /\ \A i \in 1..N : trace[i].padding = 1 <=> i > RealCount

\* COL_IDX_STORAGE never decreases down the table, padding included: the
\* padding rows must not reset the running storage access counter the
\* storage CTL correlates with.
StorageIdxNonDecreasing ==
  Done => \A i \in 1..(N - 1) : trace[i].sidx <= trace[i + 1].sidx

\* Each storage access contributes exactly one row with
\* COL_IS_STORAGE_EXT_LINE set, so the storage ext lines carry the access
\* ids 1, 2, ... each exactly once (one hash-chain lookup per access).
StorageExtLinesOnePerAccess ==
  Done => LET ext == {i \in 1..N : trace[i].storage_ext = 1}
          IN /\ {trace[i].sidx : i \in ext} = 1..sidx
             /\ \A i, j \in ext : trace[i].sidx = trace[j].sidx => i = j

\* The call markers IS_SCCALL_EXT_LINE (the call) and
\* COL_FILTER_SCCALL_END (the callee's END) are well nested inside every
\* transaction: no prefix has more returns than calls and each
\* transaction ends with every call returned.
SccallMarkersNested ==
  LET Opened(t, i) == Cardinality({j \in 1..i : trace[j].tx = t /\ trace[j].padding = 0
                                               /\ trace[j].sccall_ext = 1})
      Closed(t, i) == Cardinality({j \in 1..i : trace[j].tx = t /\ trace[j].padding = 0
                                               /\ trace[j].sccall_end = 1})
  IN Done => \A t \in 0..MaxTx : \A i \in 0..N :
               /\ Closed(t, i) <= Opened(t, i)
               /\ Opened(t, N) = Closed(t, N)

=============================================================================
