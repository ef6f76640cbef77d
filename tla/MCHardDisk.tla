----------------------------- MODULE MCHardDisk -----------------------------
EXTENDS HardDisk, TLC

CONSTANTS p1, p2, p3, p4

MCPlaces == {<<0, 1>>, <<1, 0>>, <<1, 2>>}
MCPlace1 == {<<0, 1>>}
ProcSymmetry == Permutations(Procs)
=============================================================================
