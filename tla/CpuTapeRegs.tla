----------------------------- MODULE CpuTapeRegs -----------------------------
(***************************************************************************)
(* The register and tape-pointer constraints of the CPU STARK for tape    *)
(* I/O (circuits/src/cpu/tape.rs, eval_packed_generic, the constraints    *)
(* before the filter constraints that CpuTape models).  They relate two   *)
(* adjacent rows (lv, nv) through the columns op0, op1, dst, aux0 and tp. *)
(*                                                                         *)
(* As in StorageHash, a prover appends any row the constraints accept     *)
(* after the last one; a property states what the verifier needs the      *)
(* constraints to guarantee.  Rows come in instruction groups as the       *)
(* CPU generator lays them out: a primary row followed by the             *)
(* instruction's ext lines (ExtLines; SCCALL's count is SccallExtLines).  *)
(* Register values and tp are small integers, so a product is zero in the *)
(* field exactly when it is zero over the integers.                        *)
(***************************************************************************)
EXTENDS Integers

CONSTANTS
  SccallExtLines,  \* ext lines of SCCALL (the constraints assume 3)
  Vals,            \* register values op0, op1, dst, aux0
  MaxTp,           \* bound: tape pointer values 0..MaxTp
  MaxTx,           \* bound: transactions 0..MaxTx
  MaxRows          \* bound: table length

Ops == {"tload", "tstore", "sccall", "other"}

\* Ext lines a primary row of op may be followed by (generation/cpu.rs
\* ext_length): TLOAD op0*op1 + (1 - op0) and TSTORE op1 over the 0/1
\* register selectors, so 0 or 1 either way.
ExtLines(op) ==
  CASE op \in {"tload", "tstore"} -> {0, 1}
    [] op = "sccall"              -> {SccallExtLines}
    [] OTHER                      -> {0}

Rows == [op : Ops, ext : {0, 1}, tx : 0..MaxTx, tp : 0..MaxTp,
         op0 : Vals, op1 : Vals, dst : Vals, aux0 : Vals]

VARIABLES
  row,    \* the last row of the table so far (lv of the next step)
  left,   \* ext lines still due in the current instruction group
  nrows   \* the number of rows

vars == <<row, left, nrows>>

\* Selector columns COL_S_TLOAD, COL_S_TSTORE, COL_S_CALL_SC.
Sel(r, op) == IF r.op = op THEN 1 ELSE 0

\* is_in_same_tx of the row pair.
SameTx(l, n) == IF l.tx = n.tx THEN 1 ELSE 0

\* The transition constraints of tape.rs on the pair (l, n) = (lv, nv).
TapeRegsOk(l, n) ==
  LET ltl == Sel(l, "tload")  lts == Sel(l, "tstore")  lsc == Sel(l, "sccall")
      ntl == Sel(n, "tload")  nts == Sel(n, "tstore")  nsc == Sel(n, "sccall")
      dtp == n.tp - l.tp
  IN \* op0 and op1 do not change in TLOAD/TSTORE ext lines
     /\ (nts + ntl) * n.ext * (n.op0 - l.op0) = 0
     /\ (nts + ntl) * n.ext * (n.op1 - l.op1) = 0
     \* aux0 is the address in ext lines and increases by one
     /\ (lts + ltl) * l.ext * n.ext * (n.aux0 - l.aux0 - 1) = 0
     \* "for tstore, main op0 equals first ext line's aux0"
     /\ lts * (1 - l.ext) * (n.op0 - l.aux0) = 0
     \* "for tload, main dst equals first ext line's aux0"
     /\ ltl * (1 - l.ext) * (n.dst - l.aux0) = 0
     \* tp changes only at TSTORE and SCCALL rows
     /\ SameTx(l, n) * (1 - nts - nsc) * dtp = 0
     /\ lts * (1 - l.ext) * dtp = 0
     /\ lts * nts * l.ext * (dtp - 1) = 0
     /\ (1 - lsc) * nsc * dtp = 0
     /\ lsc * (1 - l.ext) * dtp = 0
     /\ lsc * l.ext * n.ext * (dtp - 4) = 0

Init ==
  /\ row \in Rows /\ row.ext = 0
  /\ left \in ExtLines(row.op)
  /\ nrows = 1

\* The prover starts the next instruction with its primary row.
AppendPrimary(r) ==
  /\ nrows < MaxRows
  /\ left = 0
  /\ r.ext = 0 /\ r.tx \in {row.tx, row.tx + 1}
  /\ TapeRegsOk(row, r)
  /\ row' = r
  /\ left' \in ExtLines(r.op)
  /\ nrows' = nrows + 1

\* The prover appends the next ext line of the current instruction.
AppendExt(r) ==
  /\ nrows < MaxRows
  /\ left > 0
  /\ r.ext = 1 /\ r.op = row.op /\ r.tx = row.tx
  /\ TapeRegsOk(row, r)
  /\ row' = r
  /\ left' = left - 1
  /\ nrows' = nrows + 1

Next == \E r \in Rows : AppendPrimary(r) \/ AppendExt(r)

Spec == Init /\ [][Next]_vars

-----------------------------------------------------------------------------
TypeOK ==
  /\ row \in Rows
  /\ left \in 0..SccallExtLines
  /\ nrows \in 1..MaxRows

\* The tape is accessed where the instructions say, as the comments of
\* tape.rs state: the first ext line's aux0 (the address the tape lookup
\* reads) equals the main row's op0 for TSTORE and the main row's dst for
\* TLOAD; and inside a transaction "tp only changes when tstore and sccall
\* 2nd, 3rd ext line", by one per TSTORE ext line and by four per later
\* SCCALL ext line.
TapeAccessAsCommented ==
  [][/\ row'.ext = 1 /\ row.ext = 0 /\ row.op \in {"tload", "tstore"} =>
          row'.aux0 = IF row.op = "tstore" THEN row.op0 ELSE row.dst
     /\ row'.tx = row.tx /\ row'.tp # row.tp =>
          \/ row'.op = "tstore" /\ row'.ext = 1 /\ row'.tp = row.tp + 1
          \/ row'.op = "sccall" /\ row'.ext = 1 /\ row.ext = 1
               /\ row'.tp = row.tp + 4]_vars

=============================================================================
