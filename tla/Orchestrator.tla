---------------------------- MODULE Orchestrator ----------------------------
(***************************************************************************)
(* generate_traces (circuits/src/generation/mod.rs): the main thread      *)
(* creates one channel and spawns one worker thread per table, in source  *)
(* order; every worker builds its table and sends it (the bitwise and     *)
(* program workers send a compression challenge with it), ignoring a      *)
(* failed send.  The main thread then receives bitwise and installs its   *)
(* challenge, receives program and installs its challenge, and receives   *)
(* the remaining tables in the order of the returned array.  Every        *)
(* recv() is unwrapped: a channel whose sender was dropped without a      *)
(* message (its worker panicked) makes the main thread panic.             *)
(*                                                                         *)
(* A table's rows are abstracted to the table's name; what matters here   *)
(* is which messages exist, who waits on whom, and what is returned.      *)
(***************************************************************************)
EXTENDS Naturals, Sequences, SequencesExt

CONSTANTS
  MayPanic   \* the workers whose generator may panic on its input

\* Spawn order of mod.rs.
SpawnOrder == <<"cpu", "memory", "bitwise", "cmp", "rc", "poseidon",
                "poseidon_chunk", "storage", "tape", "sccall", "program",
                "prog_chunk">>
Tables == ToSet(SpawnOrder)

\* Mutant: the bitwise and memory traces trade places in the array.
ArrayOrder_mutSwap ==
  <<"cpu", "bitwise", "memory", "cmp", "rc", "poseidon", "poseidon_chunk",
    "storage", "tape", "sccall", "program", "prog_chunk">>

\* The order of the returned traces array (the same as the spawn order).
ArrayOrder ==
  <<"cpu", "memory", "bitwise", "cmp", "rc", "poseidon", "poseidon_chunk",
    "storage", "tape", "sccall", "program", "prog_chunk">>

\* Order of the main thread's recv() calls.
RecvOrder == <<"bitwise", "program", "cpu", "memory", "cmp", "rc",
               "poseidon", "poseidon_chunk", "storage", "tape", "sccall",
               "prog_chunk">>

\* Workers that send a challenge alongside their table.
ChallengeTables == {"bitwise", "program"}

ASSUME MayPanic \subseteq Tables

VARIABLES
  worker,     \* worker[t]: "none" | "running" | "sent" | "panicked"
  inbox,      \* tables whose channel holds an unreceived message
  main,       \* "spawn" | "recv" | "returned" | "panicked"
  next,       \* index of the next spawn / recv in its order
  received,   \* tables the main thread has received
  challenges, \* stark tables whose compression challenge is installed
  out         \* the returned table array (a sequence of tables)

vars == <<worker, inbox, main, next, received, challenges, out>>

Init ==
  /\ worker = [t \in Tables |-> "none"]
  /\ inbox = {}
  /\ main = "spawn"
  /\ next = 1
  /\ received = {}
  /\ challenges = {}
  /\ out = <<>>

\* The n-th thread::spawn is the last one of the fan-out.
LastSpawn(n) == n = Len(SpawnOrder)

\* thread::spawn of the next worker (its channel is created just before).
Spawn ==
  LET t == SpawnOrder[next] IN
  /\ main = "spawn"
  /\ worker' = [worker EXCEPT ![t] = "running"]
  /\ IF LastSpawn(next)
       THEN main' = "recv" /\ next' = 1
       ELSE next' = next + 1 /\ UNCHANGED main
  /\ UNCHANGED <<inbox, received, challenges, out>>

\* thread::spawn panics when the OS cannot create the thread; the workers
\* already spawned keep running.
SpawnFails ==
  /\ main = "spawn"
  /\ main' = "panicked"
  /\ UNCHANGED <<worker, inbox, next, received, challenges, out>>

\* A worker's generator returns and its result is sent.  `let _ =` drops
\* the error of a send to a receiver the main thread no longer holds.
WorkerSends(t) ==
  /\ worker[t] = "running"
  /\ worker' = [worker EXCEPT ![t] = "sent"]
  /\ inbox' = IF main \in {"spawn", "recv"} THEN inbox \cup {t} ELSE inbox
  /\ UNCHANGED <<main, next, received, challenges, out>>

\* A generator panics (generators may abort on a malformed log); the
\* thread unwinds and drops its sender without sending.
WorkerPanics(t) ==
  /\ t \in MayPanic
  /\ worker[t] = "running"
  /\ worker' = [worker EXCEPT ![t] = "panicked"]
  /\ UNCHANGED <<inbox, main, next, received, challenges, out>>

\* Mutant: a clone of a sender outlives its panicked worker.
Disconnected_mutSenderKept(t) == worker[t] = "sent"

\* The sender is gone once the worker has finished, sent or not.
Disconnected(t) == worker[t] \in {"sent", "panicked"}

\* Mutant: recv().unwrap_or_default() takes an empty table from a
\* disconnected channel.
RecvReady_mutUnwrapOrDefault(t) == t \in inbox \/ Disconnected(t)

\* recv() returns a message once one is in the channel.
RecvReady(t) == t \in inbox

\* Mutant: the challenge is installed on the stark of every received table.
InstallChallenge_mutAll(t, c) == c \cup {t}

\* set_compress_challenge on the bitwise / program stark after its recv.
InstallChallenge(t, c) == IF t \in ChallengeTables THEN c \cup {t} ELSE c

\* recv() of the next channel in RecvOrder, then the challenge of a
\* bitwise/program result is installed; after the last recv the traces
\* array and public values are returned.
RecvOk ==
  LET t == RecvOrder[next] IN
  /\ main = "recv"
  /\ RecvReady(t)
  /\ inbox' = inbox \ {t}
  /\ received' = received \cup {t}
  /\ challenges' = InstallChallenge(t, challenges)
  /\ IF next = Len(RecvOrder)
       THEN /\ main' = "returned"
            /\ out' = SelectSeq(ArrayOrder, LAMBDA u : u \in received')
            /\ UNCHANGED next
       ELSE /\ next' = next + 1
            /\ UNCHANGED <<main, out>>
  /\ UNCHANGED worker

\* recv() on an empty channel whose sender is dropped returns Err, and
\* unwrap() panics; the main thread's receivers are dropped with it.
RecvErr ==
  LET t == RecvOrder[next] IN
  /\ main = "recv"
  /\ t \notin inbox
  /\ Disconnected(t)
  /\ main' = "panicked"
  /\ inbox' = {}
  /\ UNCHANGED <<worker, next, received, challenges, out>>

Main == Spawn \/ SpawnFails \/ RecvOk \/ RecvErr

Next == Main \/ \E t \in Tables : WorkerSends(t) \/ WorkerPanics(t)

\* OS threads are scheduled fairly: a runnable worker finishes, and the
\* main thread takes its next step once its recv can return.  SpawnFails
\* is an environment failure and gets no fairness.
Fairness ==
  /\ WF_vars(Spawn \/ RecvOk \/ RecvErr)
  /\ \A t \in Tables : WF_vars(WorkerSends(t) \/ WorkerPanics(t))

Spec == Init /\ [][Next]_vars /\ Fairness

-----------------------------------------------------------------------------
TypeOK ==
  /\ worker \in [Tables -> {"none", "running", "sent", "panicked"}]
  /\ inbox \subseteq Tables
  /\ main \in {"spawn", "recv", "returned", "panicked"}
  /\ next \in 1..Len(SpawnOrder)
  /\ received \subseteq Tables
  /\ challenges \subseteq ChallengeTables
  /\ out \in Seq(Tables)

\* generate_traces returns only a complete, consistent table set: every
\* worker has sent its table (none panicked), the returned array holds
\* every table exactly once, and both
\* compression challenges are installed.  A recv that hid a disconnected
\* channel, or a dropped set_compress_challenge, would break it.
NoPartialOutput ==
  main = "returned" =>
    /\ \A t \in Tables : worker[t] = "sent"
    /\ IsInjective(out) /\ ToSet(out) = Tables
    /\ challenges = ChallengeTables

\* The call ends: it returns or panics, whatever the workers do.  A recv
\* that could never see its sender dropped would hang here.
GenerationEnds == <>(main \in {"returned", "panicked"})

=============================================================================
