----------------------------- MODULE Sequential -----------------------------
(***************************************************************************)
(* The parts whose calls do not overlap, side by side: a behaviour is one  *)
(* of the shell, of the heap of a program, of mkfs, of the memory of the   *)
(* kernel, or the growth of a text, character by character, that the       *)
(* algorithms are applied to.                                              *)
(***************************************************************************)
EXTENDS Shell, Heap, Mkfs, Workset, Vm

CONSTANTS
    Alphabet,       \* for each topic, the characters of its texts
    TextSize        \* bound: for each topic, the length of its texts

VARIABLES
    topic,          \* which of them: never changes
    text            \* what has been typed

vars == <<topic, text, shellVars, heapVars, mkfsVars, vmVars>>

Init ==
    /\ topic \in DOMAIN Alphabet \cup {"shell", "heap", "mkfs", "vm"}
    /\ text = <<>>
    /\ ShellInit /\ HeapInit /\ MkfsInit /\ VmInit

TypeOK ==
    /\ topic \in DOMAIN Alphabet => text \in Seq(Alphabet[topic]) /\ Len(text) <= TextSize[topic]
    /\ ShellTypeOK /\ HeapTypeOK /\ MkfsTypeOK /\ VmTypeOK

Type(c) == Len(text) < TextSize[topic] /\ text' = Append(text, c)
Erase == Len(text) = TextSize[topic] /\ text' = <<>>

\* mkfs has made its image, or the shell is back at its prompt, with nothing
\* more to run.
Ended ==
    \/ topic = "mkfs" /\ todo = "done"
    \/ topic = "shell" /\ ShellEnded

Next ==
    /\ UNCHANGED topic
    /\ \/ /\ topic \in DOMAIN Alphabet
          /\ Erase \/ \E c \in Alphabet[topic] : Type(c)
          /\ UNCHANGED <<shellVars, heapVars, mkfsVars, vmVars>>
       \/ topic = "shell" /\ ShellNext /\ UNCHANGED <<text, heapVars, mkfsVars, vmVars>>
       \/ topic = "heap" /\ HeapNext /\ UNCHANGED <<text, shellVars, mkfsVars, vmVars>>
       \/ topic = "mkfs" /\ MkfsNext /\ UNCHANGED <<text, shellVars, heapVars, vmVars>>
       \/ topic = "vm" /\ VmNext /\ UNCHANGED <<text, shellVars, heapVars, mkfsVars>>
       \/ Ended /\ UNCHANGED vars

Spec == Init /\ [][Next]_vars

\* parsecmd of the shell accepts exactly the lines of its grammar and panics on
\* the others, and the command it builds has every word and operator of the
\* line, the parentheses aside, once.
ParserMeetsGrammar ==
    topic = "line" =>
        \A parsed \in {parsecmd(text)} :
            IF IsLine(Tokens(text)) THEN parsed.ok /\ Yield(parsed.cmd) = TokenBag(text) ELSE ~parsed.ok

\* The workset, after the headers of the text have been added one by one, is
\* in the order of the addresses, and the binary search finds exactly the
\* headers in it.
WorksetFound ==
    topic = "header" =>
        LET ws == FoldLeft(AddEntry, <<>>, text)
            all == Range(text)
        IN /\ ws = SetToSortSeq(all, <)
           /\ \A h \in Alphabet["header"] :
                LET e == find_workset_entry(ws, h) IN
                IF h \in all THEN e # 0 /\ ws[e] = h ELSE e = 0
=============================================================================
