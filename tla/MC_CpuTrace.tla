---------------------------- MODULE MC_CpuTrace ----------------------------
(***************************************************************************)
(* Model-checking instance of CpuTrace.  The instruction catalogue holds  *)
(* one representative of every ext-line class the generator distinguishes *)
(* (0, fixed 1, SCCALL, nested END, TLOAD with each flag, TSTORE 0 and 1) *)
(* and the instructions whose immediate sets the program lookup filter.   *)
(***************************************************************************)
EXTENDS CpuTape

Ins(op, op0, op1, imm) == [op |-> op, op0 |-> op0, op1 |-> op1, imm |-> imm]

MCInstructions ==
  { Ins("ADD", 0, 0, 0), Ins("MSTORE", 0, 0, 1), Ins("SSTORE", 0, 0, 0),
    Ins("TLOAD", 0, 2, 0), Ins("TLOAD", 1, 0, 0), Ins("TLOAD", 1, 2, 0),
    Ins("TSTORE", 0, 1, 0), Ins("SCCALL", 0, 0, 0), Ins("END", 0, 0, 0) }

=============================================================================
