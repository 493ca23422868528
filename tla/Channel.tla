------------------------------ MODULE Channel ------------------------------
(***************************************************************************)
(* What a pipe promises: a bounded first-in first-out channel.  A writer   *)
(* appends the next bytes of what it has to write; a reader takes bytes    *)
(* from the front, and gets exactly those.                                 *)
(***************************************************************************)
EXTENDS Integers, Sequences

CONSTANTS Proc, Buffers, Capacity

VARIABLES
    queue,
    out,        \* what each process has still to write
    got         \* what its read has got

vars == <<queue, out, got>>

Init ==
    /\ queue = <<>>
    /\ out = [p \in Proc |-> <<>>]
    /\ got = [p \in Proc |-> <<>>]

\* A call of write begins.
Begin(p) ==
    /\ out[p] = <<>> /\ got[p] = <<>>
    /\ \E b \in Buffers : out' = [out EXCEPT ![p] = b]
    /\ UNCHANGED <<queue, got>>

Write(p) ==
    /\ \E k \in 1..Len(out[p]) :
          /\ queue' = queue \o SubSeq(out[p], 1, k)
          /\ out' = [out EXCEPT ![p] = SubSeq(@, k + 1, Len(@))]
    /\ Len(queue') <= Capacity
    /\ UNCHANGED got

Read(p) ==
    /\ out[p] = <<>> /\ got[p] = <<>>
    /\ \E k \in 1..Len(queue) :
          /\ got' = [got EXCEPT ![p] = SubSeq(queue, 1, k)]
          /\ queue' = SubSeq(queue, k + 1, Len(queue))
    /\ UNCHANGED out

\* A call ends; a write may give up before everything is written.
End(p) ==
    /\ out' = [out EXCEPT ![p] = <<>>]
    /\ got' = [got EXCEPT ![p] = <<>>]
    /\ UNCHANGED queue

\* Both ends are closed, and what was not read is lost.
Discard == queue' = <<>> /\ UNCHANGED <<out, got>>

Next == Discard \/ \E p \in Proc : Begin(p) \/ Write(p) \/ Read(p) \/ End(p)

Spec == Init /\ [][Next]_vars
=============================================================================
