----------------------------- MODULE ExecEngine -----------------------------
(***************************************************************************)
(* The execution engine as the trace generator sees it: it interprets a   *)
(* batch of transactions and emits, per instruction, one primary Step row *)
(* followed by the instruction's continuation ("ext") rows.  The engine's *)
(* source is not part of the checked-in sources, so this module follows   *)
(* the expansion rules of the specification (section 4.1 and the Step     *)
(* invariant of section 3):                                               *)
(*   SLOAD, SSTORE, END of a nested environment : 1 ext line              *)
(*   SCCALL                                     : SccallExtLines          *)
(*   TLOAD                                      : op0*op1 + (1 - op0)     *)
(*   TSTORE                                     : op1                     *)
(*   every other opcode                         : 0                       *)
(* The primary row has ext_cnt = 0 and is_ext_line = 0; its ext lines     *)
(* have is_ext_line = 1 and ext_cnt = 1, 2, ...                           *)
(*                                                                         *)
(* Data is abstracted to what the CPU trace generator reads: the opcode,  *)
(* whether the environment is nested (env is the call depth; the          *)
(* generator only tests env_idx for zero), the two operand values the     *)
(* TLOAD/TSTORE rule reads, the immediate flag and storage_access_idx.    *)
(***************************************************************************)
EXTENDS Naturals, Sequences, SequencesExt

CONSTANTS
  Instructions,    \* the instructions the engine may execute (records)
  SccallExtLines,  \* number of ext lines the engine emits for SCCALL
  MaxRows,         \* bound: total Step rows in one batch
  MaxTx            \* bound: transactions in one batch

ASSUME /\ SccallExtLines \in Nat
       /\ MaxRows \in Nat /\ MaxTx \in Nat
       /\ \A ins \in Instructions :
            /\ ins.op0 \in {0, 1}    \* TloadFlagInvalid rejects any other flag
            /\ ins.op1 \in Nat /\ ins.imm \in {0, 1}

VARIABLES
  batch,  \* finished transactions: a sequence of Step sequences
  cur,    \* Step rows of the transaction being executed
  depth,  \* call depth of the running environment (0 = top level)
  sidx,   \* storage_access_idx of the last storage access in the batch
  phase   \* "exec" while executing, then the trace generator's phases

execVars == <<batch, cur, depth, sidx>>

StorageOps == {"SLOAD", "SSTORE"}

\* Number of ext lines the engine emits for an instruction at a depth.
ExecExtLines(ins, d) ==
  CASE ins.op \in StorageOps          -> 1
    [] ins.op = "SCCALL"              -> SccallExtLines
    [] ins.op = "END" /\ d > 0        -> 1
    [] ins.op = "TLOAD"               -> ins.op0 * ins.op1 + (1 - ins.op0)
    [] ins.op = "TSTORE"              -> ins.op1
    [] OTHER                          -> 0

\* The Step rows of one instruction: the primary row and its ext lines.
StepGroup(ins, d, idx) ==
  [k \in 1..(ExecExtLines(ins, d) + 1) |->
     [op |-> ins.op, env |-> d, ext_cnt |-> k - 1,
      is_ext |-> IF k = 1 THEN 0 ELSE 1,
      op0 |-> ins.op0, op1 |-> ins.op1, imm |-> ins.imm, sidx |-> idx]]

RowCount == Len(FlattenSeq(batch)) + Len(cur)

\* Rows still needed to close every open environment: a nested END and
\* its ext line per level, then the top-level END.
CloseCost(d) == 2 * d + 1

ExecInit ==
  /\ batch = <<>>
  /\ cur = <<>>
  /\ depth = 0
  /\ sidx = 0
  /\ phase = "exec"

\* Execute one instruction.  The row bound keeps room to close every
\* environment, so every execution the model starts can finish its
\* transaction.
Exec(ins) ==
  LET endsTx == ins.op = "END" /\ depth = 0
      d2     == CASE ins.op = "SCCALL"           -> depth + 1
                  [] ins.op = "END" /\ depth > 0 -> depth - 1
                  [] OTHER                       -> depth
      idx2   == IF ins.op \in StorageOps THEN sidx + 1 ELSE sidx
      grp    == StepGroup(ins, depth, idx2)
  IN /\ phase = "exec"
     /\ Len(batch) < MaxTx
     /\ RowCount + Len(grp) + (IF endsTx THEN 0 ELSE CloseCost(d2)) <= MaxRows
     /\ depth' = d2
     /\ sidx' = idx2
     /\ IF endsTx
          THEN /\ batch' = Append(batch, cur \o grp)
               /\ cur' = <<>>
          ELSE /\ cur' = cur \o grp
               /\ UNCHANGED batch
     /\ UNCHANGED phase

\* The batch is handed to trace generation between transactions.
FinishBatch ==
  /\ phase = "exec"
  /\ cur = <<>>
  /\ phase' = "gen"
  /\ UNCHANGED execVars

=============================================================================
