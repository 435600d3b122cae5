------------------------------ MODULE AbsMemory ------------------------------
(***************************************************************************)
(* What the executor's memory promises its callers: a total map from      *)
(* addresses to values, where an address never written is uninitialised; *)
(* a read returns the current value and a read of an uninitialised        *)
(* address fails with MemVistInv instead of returning anything.           *)
(***************************************************************************)
CONSTANTS Addrs, Values, Uninit, MemVistInv, NoResult

VARIABLES
  mem,   \* address -> value, or Uninit
  call,  \* the last call: <<"write", a, v>> or <<"read", a>>
  ret    \* result of the last call

vars == <<mem, call, ret>>

Init ==
  /\ mem = [a \in Addrs |-> Uninit]
  /\ call = <<"none">>
  /\ ret = NoResult

Write(a, v) ==
  /\ mem' = [mem EXCEPT ![a] = v]
  /\ call' = <<"write", a, v>>
  /\ ret' = NoResult

Read(a) ==
  /\ mem[a] # Uninit
  /\ call' = <<"read", a>>
  /\ ret' = mem[a]
  /\ UNCHANGED mem

ReadFails(a) ==
  /\ mem[a] = Uninit
  /\ call' = <<"read", a>>
  /\ ret' = MemVistInv
  /\ UNCHANGED mem

Next == \E a \in Addrs : \/ \E v \in Values : Write(a, v)
                         \/ Read(a)
                         \/ ReadFails(a)

Spec == Init /\ [][Next]_vars

=============================================================================
