------------------------------- MODULE MCLog -------------------------------
EXTENDS Log, TLC

\* Processes and blocks are interchangeable in every safety property.
Symmetry == Permutations(Proc) \cup Permutations(Block)
=============================================================================
