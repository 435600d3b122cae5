---------------------------- MODULE MC_MemoryTree ----------------------------
EXTENDS MemoryTree, TLC

\* Addresses are only compared for equality, and values only copied.
Symm == Permutations(Addrs) \cup Permutations(Values)

=============================================================================
