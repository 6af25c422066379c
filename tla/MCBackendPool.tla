--------------------------- MODULE MCBackendPool ----------------------------
EXTENDS BackendPool, TLC

\* Addresses and commands are interchangeable.
PoolSymmetry == Permutations(Conns) \cup Permutations(Users)
=============================================================================
