--------------------------- MODULE MCBufferCache ---------------------------
(* Two processes that hold up to two buffers each of the three. *)
EXTENDS BufferCache, TLC

CONSTANTS p1, p2, x1, x2, x3, x4

Symmetry ==
  UNION {Permutations(S) : S \in {Procs, Writable, Blocks \ Writable}}
=============================================================================
