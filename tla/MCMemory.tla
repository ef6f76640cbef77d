------------------------------ MODULE MCMemory ------------------------------
EXTENDS Memory, TLC

\* One page at a time is a pipe's or lost.
Bound == Cardinality(pipes \cup lost) <= 1

PageSymmetry == Permutations(Pages)
=============================================================================
