----------------------------- MODULE MCConsole ------------------------------
\* Instances of Console for TLC.
EXTENDS Console, TLC

CONSTANTS c1, c2

\* A reader on one CPU, a writer on the other, and the kernel prints on the first.
MCCalls == (c1 :> {"read", "printf"}) @@ (c2 :> {"write"})
=============================================================================
