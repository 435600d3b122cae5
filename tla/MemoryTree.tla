----------------------------- MODULE MemoryTree -----------------------------
(***************************************************************************)
(* The executor's memory (executor/src/memory.rs, MemoryTree): a BTreeMap *)
(* from address to the vector of MemoryCells recorded at that address,    *)
(* whose last cell is the current value.  The recorded vectors are the    *)
(* memory access log the memory table is generated from.                  *)
(*                                                                         *)
(* A cell keeps clk, is_write and value; op, is_rw, the region flags and  *)
(* filter_looked_for_main are passed through unchanged from the caller    *)
(* and are left out.  The executor's clock, which the caller passes in,   *)
(* is the variable clk.                                                   *)
(***************************************************************************)
EXTENDS Naturals, Sequences, SequencesExt

CONSTANTS
  Addrs, Values,             \* small sets of model values
  Uninit, MemVistInv, NoResult,
  MaxOps,                    \* bound: memory operations
  MaxClk                     \* bound: executor clock

VARIABLES
  trace,  \* the BTreeMap: a function from the addresses present to cells
  clk,    \* the executor clock passed to every access
  call,   \* the last call made: <<"write", a, v>> or <<"read", a>>
  ret,    \* result of the last call: a value, MemVistInv or NoResult
  nops    \* operations so far (bounded)

vars == <<trace, clk, call, ret, nops>>

Cell == [clk : 0..MaxClk, is_write : {0, 1}, value : Values]

Init ==
  /\ trace = [a \in {} |-> <<>>]
  /\ clk = 0
  /\ call = <<"none">>
  /\ ret = NoResult
  /\ nops = 0

\* Mutant: read() uses the first cell of the address trace.
LastValue_mutFirst(h) == h[1].value

\* mem_data.last().value: the current value of an address trace.
LastValue(h) == Last(h).value

\* Mutant: write() only inserts a vector for a new address
\* (.or_insert_with without .and_modify).
WriteTrace_mutInsertOnly(t, a, c) ==
  IF a \in DOMAIN t THEN t ELSE t @@ (a :> <<c>>)

\* trace.entry(addr).and_modify(push).or_insert_with(vec![cell]).
WriteTrace(t, a, c) ==
  IF a \in DOMAIN t THEN [t EXCEPT ![a] = Append(@, c)]
                    ELSE t @@ (a :> <<c>>)

\* write(addr, clk, .., is_write = 1, .., value).
Write(a, v) ==
  /\ nops < MaxOps
  /\ trace' = WriteTrace(trace, a, [clk |-> clk, is_write |-> 1, value |-> v])
  /\ call' = <<"write", a, v>>
  /\ ret' = NoResult
  /\ nops' = nops + 1
  /\ UNCHANGED clk

\* read(addr, clk, .., is_write = 0, ..) of an address with a trace: a
\* cell repeating the last value is pushed and that value returned.
Read(a) ==
  LET v == LastValue(trace[a]) IN
  /\ nops < MaxOps
  /\ a \in DOMAIN trace
  /\ trace' = [trace EXCEPT ![a] = Append(@, [clk |-> clk, is_write |-> 0,
                                               value |-> v])]
  /\ call' = <<"read", a>>
  /\ ret' = v
  /\ nops' = nops + 1
  /\ UNCHANGED clk

\* Mutant: the failing read leaves an empty vector behind
\* (trace.entry(addr).or_default() in place of get_mut).
ReadUninit_mutCreatesEntry(a) ==
  /\ nops < MaxOps
  /\ a \notin DOMAIN trace
  /\ trace' = trace @@ (a :> <<>>)
  /\ call' = <<"read", a>>
  /\ ret' = MemVistInv
  /\ nops' = nops + 1
  /\ UNCHANGED clk

\* read() of an address never written: Err(MemVistInv), nothing recorded.
ReadUninit(a) ==
  /\ nops < MaxOps
  /\ a \notin DOMAIN trace
  /\ call' = <<"read", a>>
  /\ ret' = MemVistInv
  /\ nops' = nops + 1
  /\ UNCHANGED <<trace, clk>>

\* The executor's clock advances between instructions.
Tick ==
  /\ clk < MaxClk
  /\ clk' = clk + 1
  /\ UNCHANGED <<trace, call, ret, nops>>

Next ==
  \/ \E a \in Addrs : \/ \E v \in Values : Write(a, v)
                      \/ Read(a)
                      \/ ReadUninit(a)
  \/ Tick

Spec == Init /\ [][Next]_vars

-----------------------------------------------------------------------------
TypeOK ==
  /\ DOMAIN trace \subseteq Addrs
  /\ \A a \in DOMAIN trace : trace[a] \in Seq(Cell) \ {<<>>}
  /\ clk \in 0..MaxClk
  /\ ret \in Values \cup {MemVistInv, NoResult}
  /\ nops \in 0..MaxOps

\* The access log of every address is one the memory table can prove:
\* it starts with a write, each read cell repeats the value of the cell
\* before it, and clocks never go backwards along it.
HistoryConsistent ==
  \A a \in DOMAIN trace :
    LET h == trace[a] IN
    /\ h[1].is_write = 1
    /\ \A i \in 2..Len(h) :
         /\ h[i].is_write = 0 => h[i].value = h[i - 1].value
         /\ h[i - 1].clk <= h[i].clk

\* Refinement: the address traces, read through "the last cell is the
\* current value", implement the abstract memory of AbsMemory.
Abs == INSTANCE AbsMemory WITH
         mem <- [a \in Addrs |-> IF a \in DOMAIN trace
                                   THEN LastValue(trace[a]) ELSE Uninit]

AbsMemorySpec == Abs!Spec

=============================================================================
