----------------------------- MODULE StorageHash -----------------------------
(***************************************************************************)
(* The control constraints of the storage-hash STARK                      *)
(* (builtins/storage/storage_hash.rs, eval_packed_generic): the access    *)
(* index, the Merkle layer, the four layer-class flags and the address    *)
(* accumulator.  The Poseidon part of a row is checked by                 *)
(* PoseidonSchedule; here a row keeps only the control columns.           *)
(*                                                                         *)
(* The model is the prover's side of the argument: a table grows one row  *)
(* at a time, and ANY row the constraints accept after the previous one   *)
(* may be appended.  What the properties say of every such table is what *)
(* the constraints guarantee to a verifier.  All factors are small        *)
(* integers, so a product is zero in the Goldilocks field exactly when it *)
(* is zero over the integers.                                             *)
(***************************************************************************)
EXTENDS Naturals

CONSTANTS
  ClassLen,  \* layers per address class (64 in the code: 64/128/192/256)
  MaxIdx,    \* bound: storage accesses in a table
  MaxAcc,    \* bound: largest addr_acc value a row may carry
  MaxRows    \* bound: table length

Classes == 1..4
Layers == 4 * ClassLen          \* the tree height, 256 in the code

\* A row's control columns.  layer_bit is kept binary (the constraints do
\* not force it, see the hazards); addr_acc ranges over a small window.
Rows == [idx : 0..MaxIdx, layer : 0..Layers, flag : [Classes -> {0, 1}],
         acc : 0..MaxAcc, bit : {0, 1}]

NoRow == [idx |-> 0, layer |-> 0, flag |-> [k \in Classes |-> 0],
          acc |-> 0, bit |-> 0]

VARIABLES
  row,    \* the last row of the table so far
  nrows   \* the number of rows

vars == <<row, nrows>>

\* Product of the four is_layer flags of a row.
FlagProduct(r) == r.flag[1] * r.flag[2] * r.flag[3] * r.flag[4]

\* Row-local constraints: is_layerK may only be set on layer K*64 of a
\* real row (the flags are binary by the Rows domain).
RowOk(r) ==
  \A k \in Classes : r.idx * r.flag[k] * (r.layer - k * ClassLen) = 0

\* constraint_first_row: the table starts with access 1 at layer 1.
FirstRowOk(r) == r.idx = 1 /\ r.layer = 1

\* The transition constraints between a row (l) and the next (n).
IdxStep(l, n) ==
  l.idx * (n.idx - l.idx) * (n.idx - l.idx - 1) = 0

LayerStep(l, n) ==
  /\ n.idx * (n.layer - l.layer - 1) * (n.idx - l.idx - 1) = 0
  /\ l.idx * (n.layer - l.layer - 1) * (l.layer - Layers) = 0

AddrAccStep(l, n) ==
  FlagProduct(l) * (n.acc - 2 * l.acc - l.bit) = 0

TransitionOk(l, n) == IdxStep(l, n) /\ LayerStep(l, n) /\ AddrAccStep(l, n)

Init ==
  /\ row = NoRow
  /\ nrows = 0

\* The prover appends a row the constraints accept.
AppendRow(r) ==
  /\ nrows < MaxRows
  /\ RowOk(r)
  /\ IF nrows = 0 THEN FirstRowOk(r) ELSE TransitionOk(row, r)
  /\ row' = r
  /\ nrows' = nrows + 1

Next == \E r \in Rows : AppendRow(r)

Spec == Init /\ [][Next]_vars

-----------------------------------------------------------------------------
TypeOK == row \in Rows /\ nrows \in 0..MaxRows

\* A continuation row of the same access (both real, same idx).
SameAccess(l, n) == l.idx # 0 /\ n.idx = l.idx

\* The address a Merkle path checks is the one its bits spell: every real
\* row at a class boundary (layer K*64) raises is_layerK, so that the
\* accumulated address is checked there, and between consecutive layers
\* of one access inside a class the accumulator takes the path bit
\* (spec: addr_acc' = 2*addr_acc + layer_bit).
AddressBoundToPath ==
  /\ [](row.idx # 0 => \A k \in Classes :
                          row.layer = k * ClassLen => row.flag[k] = 1)
  /\ [][nrows > 0 /\ SameAccess(row, row')
         /\ (\A k \in Classes : row.flag[k] = 0)
         => row'.acc = 2 * row.acc + row.bit]_vars

=============================================================================
