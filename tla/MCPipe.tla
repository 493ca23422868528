------------------------------- MODULE MCPipe -------------------------------
\* The instance of Pipe for TLC.
EXTENDS Pipe

\* A message that is longer than the ring.
MCMessages == {<<0, 1, 1>>}

\* All processes are alike.
Symmetry == Permutations(Proc)
=============================================================================
