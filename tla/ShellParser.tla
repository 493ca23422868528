---------------------------- MODULE ShellParser -----------------------------
(***************************************************************************)
(* The parser of the shell (user/sh.c), as operators on a sequence of      *)
(* characters, and the grammar that it is checked against.                 *)
(*                                                                         *)
(* A word is a run of characters other than blanks and symbols; which ones *)
(* does not matter, so "a" stands for all of them.  malloc does not fail.  *)
(***************************************************************************)
EXTENDS Integers, Sequences, FiniteSets, FiniteSetsExt, SequencesExt, Bags

CONSTANT MAXARGS

ASSUME MaxArgsAssumption == MAXARGS \in Nat \ {0}

Blank == {" "}
Symbol == {"<", "|", ">", "&", ";", "(", ")"}
Char == Blank \cup Symbol \cup {"a"}

(***************************************************************************)
(* The parser.  The rest of the line is s; a result is [cmd, s, ok], with  *)
(* ok FALSE after a panic.                                                 *)
(***************************************************************************)

\* How many of the first characters of s are in S.
Span(s, S) == Max({k \in 0..Len(s) : \A i \in 1..k : s[i] \in S})
Drop(s, k) == SubSeq(s, k + 1, Len(s))
SkipBlanks(s) == Drop(s, Span(s, Blank))

\* Mutant: >> is two tokens.
gettoken_single(s) ==
    LET t == SkipBlanks(s) IN
    IF t = <<>> THEN [tok |-> "end", s |-> t]
    ELSE IF t[1] \in Symbol THEN [tok |-> t[1], s |-> SkipBlanks(Drop(t, 1))]
    ELSE [tok |-> "a", s |-> SkipBlanks(Drop(t, Span(t, {"a"})))]

\* [tok, s]: a symbol, "+" for >>, "a" for a word, or "end".
gettoken(s) ==
    LET size(t) == IF t[1] \notin Symbol THEN Span(t, Char \ (Blank \cup Symbol))
                   ELSE IF Span(t, {">"}) >= 2 THEN 2 ELSE 1
        token(t, n) == [tok |-> IF n = 2 /\ t[1] = ">" THEN "+" ELSE t[1], s |-> SkipBlanks(Drop(t, n))]
        first(t) == IF t = <<>> THEN [tok |-> "end", s |-> t] ELSE token(t, size(t))
    IN first(SkipBlanks(s))

peek(s, toks) == LET t == SkipBlanks(s) IN t # <<>> /\ t[1] \in toks

execcmd(argc) == [type |-> "EXEC", argc |-> argc]
redircmd(cmd, tok) == [type |-> "REDIR", cmd |-> cmd, tok |-> tok, fd |-> IF tok = "<" THEN 0 ELSE 1]
pipecmd(left, right) == [type |-> "PIPE", left |-> left, right |-> right]
listcmd(left, right) == [type |-> "LIST", left |-> left, right |-> right]
backcmd(cmd) == [type |-> "BACK", cmd |-> cmd]
NoCmd == execcmd(0)

RECURSIVE parseredirs(_), parseargs(_, _, _), parseline(_), parsepipe(_), parseback(_)

\* The loop of parseredirs: r.cmd is a sequence of redirections.
parseredirs(r) ==
    LET add(op, file) ==
            IF file.tok = "a" THEN parseredirs([r EXCEPT !.cmd = Append(@, op), !.s = file.s])
            ELSE [r EXCEPT !.ok = FALSE]
        redir(t) == add(t.tok, gettoken(t.s))
    IN IF r.ok /\ peek(r.s, {"<", ">"}) THEN redir(gettoken(r.s)) ELSE r

Redirected(cmd, redirs) == FoldLeft(redircmd, cmd, redirs)

\* The loop of parseexec, after argc words.
parseargs(s, argc, redirs) ==
    LET done(r, ok) == [cmd |-> Redirected(execcmd(argc), r.cmd), s |-> r.s, ok |-> ok]
        word(r, t) ==
            IF ~r.ok \/ peek(r.s, {"|", ")", "&", ";"}) \/ t.tok = "end" THEN done(r, r.ok)
            ELSE IF t.tok # "a" \/ argc + 1 >= MAXARGS THEN done(r, FALSE)
            ELSE parseargs(t.s, argc + 1, r.cmd)
        next(r) == word(r, gettoken(r.s))
    IN next(parseredirs([cmd |-> redirs, s |-> s, ok |-> TRUE]))

parseblock(s) ==
    LET redirs(c, r) == [cmd |-> Redirected(c.cmd, r.cmd), s |-> r.s, ok |-> r.ok]
        close(c) ==
            IF c.ok /\ peek(c.s, {")"})
            THEN redirs(c, parseredirs([cmd |-> <<>>, s |-> gettoken(c.s).s, ok |-> TRUE]))
            ELSE [c EXCEPT !.ok = FALSE]
    IN close(parseline(gettoken(s).s))

parseexec(s) == IF peek(s, {"("}) THEN parseblock(s) ELSE parseargs(s, 0, <<>>)

parsepipe(s) ==
    LET join(c, r) == [r EXCEPT !.cmd = pipecmd(c.cmd, r.cmd)]
        rest(c) == IF c.ok /\ peek(c.s, {"|"}) THEN join(c, parsepipe(gettoken(c.s).s)) ELSE c
    IN rest(parseexec(s))

\* The loop of parseline over "&".
parseback(c) ==
    IF c.ok /\ peek(c.s, {"&"})
    THEN parseback([c EXCEPT !.cmd = backcmd(@), !.s = gettoken(c.s).s]) ELSE c

parseline(s) ==
    LET join(c, r) == [r EXCEPT !.cmd = listcmd(c.cmd, r.cmd)]
        rest(c) == IF c.ok /\ peek(c.s, {";"}) THEN join(c, parseline(gettoken(c.s).s)) ELSE c
    IN rest(parseback(parsepipe(s)))

\* Nothing may be left over.
parsecmd(s) ==
    LET end(c) == [c EXCEPT !.ok = @ /\ SkipBlanks(c.s) = <<>>] IN end(parseline(s))

(***************************************************************************)
(* The grammar, on the tokens of a line.                                   *)
(***************************************************************************)

RECURSIVE Tokens(_), IsLine(_), IsPipe(_), Yield(_)

\* The tokens of a line.
Tokens(s) ==
    LET double(t) == Len(t) > 1 /\ t[1] = ">" /\ t[2] = ">"
        size(t) == IF t[1] = "a" THEN Span(t, {"a"}) ELSE IF double(t) THEN 2 ELSE 1
        split(t) ==
            IF t = <<>> THEN <<>>
            ELSE <<IF double(t) THEN "+" ELSE t[1]>> \o Tokens(Drop(t, size(t)))
    IN split(SkipBlanks(s))

\* Words and redirections, in any order, with fewer than MAXARGS words.
IsSimple(t) ==
    LET Op == {i \in DOMAIN t : t[i] \in {"<", ">", "+"}}
        File == {i + 1 : i \in Op}
    IN /\ \A i \in DOMAIN t : t[i] \in {"a", "<", ">", "+"}
       /\ \A i \in File : i <= Len(t) /\ t[i] = "a"
       /\ Len(t) - Cardinality(Op \cup File) < MAXARGS

\* A simple command, or a line in parentheses with redirections.
IsCommand(t) ==
    \/ IsSimple(t)
    \/ \E j \in 2..Len(t) : /\ t[1] = "(" /\ t[j] = ")" /\ IsLine(SubSeq(t, 2, j - 1))
                            /\ IsSimple(Drop(t, j))
                            /\ Cardinality({i \in (j + 1)..Len(t) : t[i] = "a"}) * 2 = Len(t) - j

IsPipe(t) == IsCommand(t) \/ \E j \in DOMAIN t : t[j] = "|" /\ IsCommand(SubSeq(t, 1, j - 1)) /\ IsPipe(Drop(t, j))

\* A pipeline, any number of "&", and another line after ";".
IsLine(t) ==
    \E i \in 0..Len(t), j \in 0..Len(t) :
        /\ i <= j /\ IsPipe(SubSeq(t, 1, i)) /\ \A k \in (i + 1)..j : t[k] = "&"
        /\ j = Len(t) \/ (t[j + 1] = ";" /\ IsLine(Drop(t, j + 1)))

\* The tokens that a command stands for.
Yield(c) ==
    CASE c.type = "EXEC" -> (IF c.argc = 0 THEN EmptyBag ELSE ("a" :> c.argc))
      [] c.type = "REDIR" -> Yield(c.cmd) (+) SetToBag({c.tok}) (+) SetToBag({"a"})
      [] c.type = "PIPE" -> Yield(c.left) (+) Yield(c.right) (+) SetToBag({"|"})
      [] c.type = "LIST" -> Yield(c.left) (+) Yield(c.right) (+) SetToBag({";"})
      [] c.type = "BACK" -> Yield(c.cmd) (+) SetToBag({"&"})

\* How often each token of s occurs, the parentheses left out.
TokenBag(s) ==
    LET toks == SelectSeq(Tokens(s), LAMBDA t : t \notin {"(", ")"})
    IN [t \in Range(toks) |-> Cardinality({i \in DOMAIN toks : toks[i] = t})]
=============================================================================
