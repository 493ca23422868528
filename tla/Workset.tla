------------------------------ MODULE Workset ------------------------------
(***************************************************************************)
(* The workset of a transaction (kernel/tx.c), an array in the order of    *)
(* the addresses of the object headers: the binary search, and the         *)
(* insertion of txshadow.  A header is its address.                        *)
(***************************************************************************)
EXTENDS Integers, Sequences

RECURSIVE BinarySearch(_, _, _, _), SiftDown(_, _)

\* Mutant: the search ends before the last entry is compared.
BinarySearch_short(ws, h, left, right) ==
    LET mid == left + (right - left) \div 2 IN
    IF left >= right THEN 0
    ELSE IF ws[mid] = h THEN mid
    ELSE IF ws[mid] < h THEN BinarySearch(ws, h, mid + 1, right)
    ELSE BinarySearch(ws, h, left, mid - 1)

BinarySearch(ws, h, left, right) ==
    LET mid == left + (right - left) \div 2 IN
    IF left > right THEN 0
    ELSE IF ws[mid] = h THEN mid
    ELSE IF ws[mid] < h THEN BinarySearch(ws, h, mid + 1, right)
    ELSE BinarySearch(ws, h, left, mid - 1)

\* The position of h, or 0.
find_workset_entry(ws, h) == BinarySearch(ws, h, 1, Len(ws))

\* The loop that moves entry i to its place.
SiftDown(ws, i) ==
    IF i > 1 /\ ws[i - 1] > ws[i]
    THEN SiftDown([ws EXCEPT ![i] = ws[i - 1], ![i - 1] = ws[i]], i - 1) ELSE ws

\* What txshadow does to the array: h is found, or added and moved to its
\* place.  (Its tests for a full workset and another writer are in Tx.)
AddEntry(ws, h) ==
    IF find_workset_entry(ws, h) # 0 THEN ws ELSE SiftDown(Append(ws, h), Len(ws) + 1)
============================================================================
