--------------------------- MODULE StorageHashPath ---------------------------
(***************************************************************************)
(* The Merkle-path columns of the storage-hash STARK                      *)
(* (builtins/storage/storage_hash.rs, eval_packed_generic): path, sibling, *)
(* delta, layer_bit and the row's output hash, with the index and layer   *)
(* constraints of StorageHash.  As there, a prover appends any row the    *)
(* constraints accept after the previous one.                              *)
(*                                                                         *)
(* One limb stands for the four limbs of a digest.  The Poseidon          *)
(* constraints of a row (checked against the executor in                  *)
(* PoseidonSchedule) make the output column the hash of the state         *)
(* (cap, path + delta, sibling - delta); Hash is a stand-in for it on a    *)
(* small set of node values.  Field values are small integers: every      *)
(* constraint below is zero over the field exactly when it is zero over   *)
(* the integers for these values.                                         *)
(***************************************************************************)
EXTENDS Integers

CONSTANTS
  ClassLen,  \* layers per address class (64 in the code)
  MaxIdx,    \* bound: storage accesses in a table
  MaxRows,   \* bound: table length
  NodeVals,  \* number of node values (digests) 0..NodeVals-1
  BitVals    \* layer_bit values a row may carry: a field element

Nodes == 0..(NodeVals - 1)

\* Poseidon(cap, left, right) as seen by the output columns.
Hash(left, right) == (2 * left + right + 1) % NodeVals

VARIABLES
  row,    \* the last row of the table so far
  nrows   \* the number of rows

vars == <<row, nrows>>

\* The index and layer constraints, shared with StorageHash.
SH == INSTANCE StorageHash WITH MaxAcc <- 0

Rows == [idx : 0..MaxIdx, layer : 0..SH!Layers, is256 : {0, 1},
         bit : BitVals, path : Nodes, sib : Nodes, delta : -2..2, hash : Nodes]

NoRow == [idx |-> 0, layer |-> 0, is256 |-> 0, bit |-> 0, path |-> 0,
          sib |-> 0, delta |-> 0, hash |-> 0]

\* The Poseidon input limbs the row's state is initialised with:
\* state[4..8] = path + delta, state[8..12] = sibling - delta.
Left(r) == r.path + r.delta
Right(r) == r.sib - r.delta

\* Row-local constraints: delta = layer_bit * (sibling - path); the output
\* columns hold the permutation of the initial state; is_layer256 is
\* binary and implies layer 256.
RowOk(r) ==
  /\ r.bit * (r.sib - r.path) - r.delta = 0
  /\ r.hash = Hash(Left(r), Right(r))
  /\ r.idx * r.is256 * (r.layer - SH!Layers) = 0

\* Path continuity: lv_idx * lv_is_layer256 * (lv_paths[i] - nv_hash[i]).
ContinuityOk(l, n) == l.idx * l.is256 * (l.path - n.hash) = 0

TransitionOk(l, n) ==
  SH!IdxStep(l, n) /\ SH!LayerStep(l, n) /\ ContinuityOk(l, n)

Init ==
  /\ row = NoRow
  /\ nrows = 0

\* The prover appends a row the constraints accept.
AppendRow(r) ==
  /\ nrows < MaxRows
  /\ RowOk(r)
  /\ IF nrows = 0 THEN SH!FirstRowOk(r) ELSE TransitionOk(row, r)
  /\ row' = r
  /\ nrows' = nrows + 1

Next == \E r \in Rows : AppendRow(r)

Spec == Init /\ [][Next]_vars

-----------------------------------------------------------------------------
TypeOK == row \in Rows /\ nrows \in 0..MaxRows

\* A layer hashes the current node with its sibling, in one of the two
\* orders layer_bit selects: the Poseidon input of every real row is
\* (path, sibling) or (sibling, path), never another combination of them.
HashInputIsPathAndSibling ==
  nrows > 0 /\ row.idx # 0 =>
    <<Left(row), Right(row)>> \in {<<row.path, row.sib>>, <<row.sib, row.path>>}

\* Each storage access proves one whole Merkle path: a new access starts
\* at layer 1 (as the first access must), and consecutive layers of an
\* access are linked, one row's node being the other's output hash (in
\* either layout of the table).
AccessProvesOnePath ==
  [][nrows > 0 =>
       /\ row'.idx # 0 /\ row'.idx # row.idx => row'.layer = 1
       /\ SH!SameAccess(row, row') /\ row'.layer = row.layer + 1
            => row'.path = row.hash \/ row.path = row'.hash]_vars

=============================================================================
