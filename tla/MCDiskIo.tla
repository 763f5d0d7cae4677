------------------------------ MODULE MCDiskIo ------------------------------
(***************************************************************************)
(* Values for the constants of DiskIo: disks of a few blocks.              *)
(***************************************************************************)
EXTENDS DiskIo, TLC

OneOrTwo == 1 .. 2
UpTo2 == 0 .. 2
UpTo3 == 0 .. 3
UpTo5 == 0 .. 5

\* Processors and tags are only compared for equality.
Symmetry == Permutations(Processors) \cup Permutations(Tags)
=============================================================================
