------------------------------- MODULE MCDisk -------------------------------
\* Instances of Disk for TLC.
EXTENDS Disk, TLC

Symmetry == Permutations(Proc) \cup Permutations(Block) \cup Permutations(Buf)
=============================================================================
