------------------------------ MODULE MCFiles ------------------------------
EXTENDS Files

CONSTANTS p1, p2

MCCounts == {1, 4}

ByteSymmetry == Permutations(Bytes)

\* One descriptor at a time is marked close-on-exec.
Bound ==
  Cardinality({d \in Procs \X FDs : d[2] \in close_on_exec[d[1]]}) <= 1
=============================================================================
