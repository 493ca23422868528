------------------------------ MODULE Terminal ------------------------------
(***************************************************************************)
(* What the console promises a program that reads it: a line is edited     *)
(* while it is typed, and given to the readers once it is complete.        *)
(***************************************************************************)
EXTENDS Naturals, Sequences

CONSTANTS
    Reader,
    Key,    \* "nl", "D" (end of file), "H" (erase), "U" (kill), or a character
    Size    \* how much the console holds

VARIABLES
    line,   \* the line that is being typed
    ready,  \* complete lines, not read yet
    got     \* what each reader has been given in its present call

vars == <<line, ready, got>>

Edits == {"H", "U"}
Ends == {"nl", "D"}

Init == line = <<>> /\ ready = <<>> /\ got = [p \in Reader |-> <<>>]

Erase == line' = (IF line = <<>> THEN line ELSE SubSeq(line, 1, Len(line) - 1)) /\ UNCHANGED <<ready, got>>

Kill == line' = <<>> /\ UNCHANGED <<ready, got>>

\* The line is complete at its end, or when there is no room for more.
Type(k) ==
    /\ Len(ready) + Len(line) < Size
    /\ IF k \in Ends \/ Len(ready) + Len(line) + 1 = Size
       THEN line' = <<>> /\ ready' = ready \o Append(line, k)
       ELSE line' = Append(line, k) /\ UNCHANGED ready
    /\ UNCHANGED got

Call(p) == got' = [got EXCEPT ![p] = <<>>] /\ UNCHANGED <<line, ready>>

\* A reader is given input from the front of ready, in one call at most to the
\* end of a line.  It is told of an end of file, by the result 0, only in a call
\* that gives it nothing else.
Read(p) ==
    \E n \in 1..Len(ready) : LET s == SubSeq(ready, 1, n) IN
        /\ \A i \in 1..(n - 1) : s[i] \notin Ends
        /\ \A i \in DOMAIN got[p] : got[p][i] \notin Ends
        /\ ready' = SubSeq(ready, n + 1, Len(ready))
        /\ s[n] = "D" => n = 1 /\ got[p] = <<>>
        /\ got' = [got EXCEPT ![p] = @ \o s]
        /\ UNCHANGED line

\* The byte that could not be copied to the reader is lost.
ReadFault(p) ==
    /\ ready # <<>> /\ Head(ready) # "D"
    /\ ready' = Tail(ready) /\ UNCHANGED <<line, got>>

Next ==
    \/ Erase \/ Kill \/ \E k \in Key \ Edits : Type(k)
    \/ \E p \in Reader : Call(p) \/ Read(p) \/ ReadFault(p)

Spec == Init /\ [][Next]_vars
=============================================================================
