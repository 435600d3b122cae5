-------------------------- MODULE PoseidonSchedule --------------------------
(***************************************************************************)
(* The Poseidon permutation as two components see it.                     *)
(*  - The executor (executor/src/poseidon.rs,                             *)
(*    calculate_poseidon_and_generate_intermediate_trace_row) runs the    *)
(*    permutation and captures intermediate states into a PoseidonCell:   *)
(*    the state after the constant layer of full rounds 1..3 of the first *)
(*    half, the S-box input of every partial round, the state after the   *)
(*    constant layer of every full round of the second half, the output. *)
(*  - The storage-hash STARK (builtins/storage/storage_hash.rs,           *)
(*    eval_packed_generic) re-runs the permutation from the row's input   *)
(*    columns, constrains its own state against each captured column and *)
(*    continues from the column, as the column layout full_sbox_0,        *)
(*    full_sbox_1 and partial_sbox dictates.                              *)
(* A field state is abstracted to the sequence of layers applied to the   *)
(* input: two states are equal exactly when the same layers were applied  *)
(* to the same input, which is what the constraints compare.              *)
(***************************************************************************)
EXTENDS Naturals, Sequences

CONSTANTS
  HalfFull,   \* poseidon::HALF_N_FULL_ROUNDS (4)
  Partial     \* poseidon::N_PARTIAL_ROUNDS (22)

ASSUME HalfFull \in Nat \ {0} /\ Partial \in Nat \ {0}

PoseidonTypes == {"Normal", "Variant"}

VARIABLES
  ptype,  \* the PoseidonType of the permutation
  xpc,    \* executor: <<phase, round>>
  xstate, \* executor: the permutation state
  xctr,   \* executor: round_ctr
  cell,   \* the captured PoseidonCell: column -> state
  vpc,    \* constraint evaluator: <<phase, round>>
  vstate, \* evaluator: its state
  vctr,   \* evaluator: round_ctr
  failed  \* the constraints that evaluated to non-zero

vars == <<ptype, xpc, xstate, xctr, cell, vpc, vstate, vctr, failed>>

\* full_input[0]: zero for PoseidonType::Normal, one for Variant.
TypeFlag(t) == IF t = "Variant" THEN 1 ELSE 0

\* Layer applications, as tokens appended to the state.
Apply(st, layer) == Append(st, layer)

\* The first-half rounds whose post-constant state the cell keeps
\* (match r { 1 | 2 | 3 => ... }).
CapturesFull0_mutFromZero(r) == r \in 0..2
CapturesFull0(r) == r \in 1..3

\* Mutant: round_ctr advances by N_PARTIAL_ROUNDS inside every partial round.
PartialRoundCtr_mutEachRound(ctr, r) == ctr + Partial

\* round_ctr after partial round r: advanced by N_PARTIAL_ROUNDS once,
\* after the loop and the final partial round.
PartialRoundCtr(ctr, r) == IF r = Partial - 1 THEN ctr + Partial ELSE ctr

ColFull0(r) == <<"full0", r>>
ColPartial(r) == <<"partial", r>>
ColFull1(r) == <<"full1", r>>
ColInput == <<"input", 0>>
ColOutput == <<"output", 0>>
CapCheck == <<"cap", 0>>

Init ==
  /\ ptype \in PoseidonTypes
  /\ xpc = <<"full0", 0>>
  /\ xstate = << <<"input", TypeFlag(ptype)>> >>
  /\ xctr = 0
  /\ cell = [c \in {ColInput} |-> << <<"input", TypeFlag(ptype)>> >>]
  /\ vpc = <<"wait", 0>>
  /\ vstate = <<>>
  /\ vctr = 0
  /\ failed = {}

Capture(col, st) == cell' = [c \in DOMAIN cell \cup {col} |->
                               IF c = col THEN st ELSE cell[c]]

evalVars == <<vpc, vstate, vctr, failed>>

-----------------------------------------------------------------------------
(* The executor's loops, one action per iteration.                        *)

\* First set of full rounds.
XFull0 ==
  LET r == xpc[2]
      c == Apply(xstate, <<"const", xctr>>)
  IN /\ xpc[1] = "full0"
     /\ IF CapturesFull0(r) THEN Capture(ColFull0(r), c) ELSE UNCHANGED cell
     /\ xstate' = Apply(Apply(c, <<"sbox">>), <<"mds">>)
     /\ xctr' = xctr + 1
     /\ xpc' = IF r + 1 < HalfFull THEN <<"full0", r + 1>> ELSE <<"pinit", 0>>
     /\ UNCHANGED <<ptype, evalVars>>

\* partial_first_constant_layer, then mds_partial_layer_init.
XPartialInit ==
  /\ xpc[1] = "pinit"
  /\ xstate' = Apply(Apply(xstate, <<"pfirst">>), <<"pinit">>)
  /\ xpc' = <<"partial", 0>>
  /\ UNCHANGED <<ptype, xctr, cell, evalVars>>

\* A partial round: the S-box input state[0] is captured; every round but
\* the last adds its fast partial round constant.
XPartial ==
  LET r == xpc[2]
      k == IF r < Partial - 1 THEN <<<<"pconst", r>>>> ELSE <<>>
  IN /\ xpc[1] = "partial"
     /\ Capture(ColPartial(r), xstate)
     /\ xstate' = Apply(Apply(xstate, <<"sbox0">>) \o k, <<"pmds", r>>)
     /\ xctr' = PartialRoundCtr(xctr, r)
     /\ xpc' = IF r + 1 < Partial THEN <<"partial", r + 1>> ELSE <<"full1", 0>>
     /\ UNCHANGED <<ptype, evalVars>>

\* Second set of full rounds: every round's post-constant state is kept.
XFull1 ==
  LET r == xpc[2]
      c == Apply(xstate, <<"const", xctr>>)
  IN /\ xpc[1] = "full1"
     /\ Capture(ColFull1(r), c)
     /\ xstate' = Apply(Apply(c, <<"sbox">>), <<"mds">>)
     /\ xctr' = xctr + 1
     /\ xpc' = IF r + 1 < HalfFull THEN <<"full1", r + 1>> ELSE <<"out", 0>>
     /\ UNCHANGED <<ptype, evalVars>>

\* cell.output is the final state; the function returns.
XOutput ==
  /\ xpc[1] = "out"
  /\ Capture(ColOutput, xstate)
  /\ xpc' = <<"done", 0>>
  /\ UNCHANGED <<ptype, xstate, xctr, evalVars>>

-----------------------------------------------------------------------------
(* The storage-hash constraint evaluation of a row holding the cell.       *)

\* A column of the row; a column the cell never filled holds zero.
Col(c) == IF c \in DOMAIN cell THEN cell[c] ELSE << <<"zero">> >>

\* constraint(a - b): recorded as failed unless both sides are equal.
Constrain(name, a, b) == IF a = b THEN failed ELSE failed \cup {name}

xVars == <<ptype, xpc, xstate, xctr, cell>>

\* The row's capacity and input columns come from the cell's input; the
\* first-row constraint "cap should be 1,0,0,0" is checked on them.
VStart ==
  /\ xpc[1] = "done" /\ vpc[1] = "wait"
  /\ vstate' = cell[ColInput]
  /\ failed' = IF cell[ColInput][1][2] = 1 THEN failed ELSE failed \cup {CapCheck}
  /\ vpc' = <<"full0", 0>>
  /\ UNCHANGED <<vctr, xVars>>

\* First set of full rounds; round 0's S-box input is not stored
\* (full_sbox_0 asserts round != 0), so it is only recomputed.
VFull0 ==
  LET r == vpc[2]
      c == Apply(vstate, <<"const", vctr>>)
      s == IF r # 0 THEN Col(ColFull0(r)) ELSE c
  IN /\ vpc[1] = "full0"
     /\ failed' = IF r # 0 THEN Constrain(ColFull0(r), c, s) ELSE failed
     /\ vstate' = Apply(Apply(s, <<"sbox">>), <<"mds">>)
     /\ vctr' = vctr + 1
     /\ vpc' = IF r + 1 < HalfFull THEN <<"full0", r + 1>> ELSE <<"pinit", 0>>
     /\ UNCHANGED xVars

VPartialInit ==
  /\ vpc[1] = "pinit"
  /\ vstate' = Apply(Apply(vstate, <<"pfirst">>), <<"pinit">>)
  /\ vpc' = <<"partial", 0>>
  /\ UNCHANGED <<vctr, failed, xVars>>

\* Partial rounds: state[0] is constrained to the partial_sbox column and
\* the round continues from the column.
VPartial ==
  LET r == vpc[2]
      s == Col(ColPartial(r))
      k == IF r < Partial - 1 THEN <<<<"pconst", r>>>> ELSE <<>>
  IN /\ vpc[1] = "partial"
     /\ failed' = Constrain(ColPartial(r), vstate, s)
     /\ vstate' = Apply(Apply(s, <<"sbox0">>) \o k, <<"pmds", r>>)
     /\ vctr' = IF r = Partial - 1 THEN vctr + Partial ELSE vctr
     /\ vpc' = IF r + 1 < Partial THEN <<"partial", r + 1>> ELSE <<"full1", 0>>
     /\ UNCHANGED xVars

\* Second set of full rounds, every round constrained to full_sbox_1.
VFull1 ==
  LET r == vpc[2]
      c == Apply(vstate, <<"const", vctr>>)
      s == Col(ColFull1(r))
  IN /\ vpc[1] = "full1"
     /\ failed' = Constrain(ColFull1(r), c, s)
     /\ vstate' = Apply(Apply(s, <<"sbox">>), <<"mds">>)
     /\ vctr' = vctr + 1
     /\ vpc' = IF r + 1 < HalfFull THEN <<"full1", r + 1>> ELSE <<"out", 0>>
     /\ UNCHANGED xVars

\* The final state is constrained to the output columns.
VOutput ==
  /\ vpc[1] = "out"
  /\ failed' = Constrain(ColOutput, vstate, Col(ColOutput))
  /\ vpc' = <<"done", 0>>
  /\ UNCHANGED <<vstate, vctr, xVars>>

Next ==
  \/ XFull0 \/ XPartialInit \/ XPartial \/ XFull1 \/ XOutput
  \/ VStart \/ VFull0 \/ VPartialInit \/ VPartial \/ VFull1 \/ VOutput

Spec == Init /\ [][Next]_vars

-----------------------------------------------------------------------------
Rounds == 2 * HalfFull + Partial

TypeOK ==
  /\ ptype \in PoseidonTypes
  /\ xctr \in 0..Rounds /\ vctr \in 0..Rounds
  /\ xpc[1] \in {"full0", "pinit", "partial", "full1", "out", "done"}
  /\ vpc[1] \in {"wait", "full0", "pinit", "partial", "full1", "out", "done"}

\* Completeness of the storage-hash Poseidon constraints: a row filled
\* from the executor's PoseidonCell of a Variant permutation satisfies
\* every constraint the evaluator emits, i.e. the executor captures each
\* round state at exactly the round and point where eval_packed_generic
\* reads it back, and both use the same round constants.
CapturedRowSatisfiesConstraints ==
  vpc[1] = "done" /\ ptype = "Variant" => failed = {}

=============================================================================
