-------------------------------- MODULE Pipe --------------------------------
(***************************************************************************)
(* Pipes and open files: kernel/pipe.c, the file table of kernel/file.c,   *)
(* the descriptor calls of kernel/sysfile.c, and what fork, exit and kill  *)
(* do to descriptors and sleepers.                                         *)
(*                                                                         *)
(* Everything done under one acquire of ftable.lock is one step, and so is *)
(* everything done under pi->lock up to its release, except in pipewrite,  *)
(* which looks at killed between the bytes: each turn of its loop is one.  *)
(* A process between two turns or about to sleep holds pi->lock (plock).   *)
(***************************************************************************)
EXTENDS Integers, Sequences, FiniteSets, SequencesExt, FiniteSetsExt

CONSTANTS
    Proc,       \* process slots
    NFILE,      \* size of the file table
    NOFILE,     \* descriptors per process
    Page,       \* pages that can hold a struct pipe
    Byte,
    Messages,   \* what programs write
    ReadSizes,  \* how much they ask for
    PIPESIZE,
    CountRange, \* nread and nwrite wrap around here (2^32)
    None

File == 1..NFILE
Fd == 0..(NOFILE - 1)

ASSUME PipeAssumption ==
    /\ None \notin Proc \cup Page
    /\ NFILE \in Nat /\ NOFILE \in Nat
    /\ Messages \subseteq Seq(Byte) /\ ReadSizes \subseteq Nat
    /\ PIPESIZE \in Nat \ {0}
    /\ CountRange \in Nat /\ CountRange % PIPESIZE = 0 /\ CountRange > PIPESIZE

VARIABLES
    ofile,      \* p->ofile
    killed,     \* p->killed
    at,         \* where p is
    arg,        \* the file of its read or write
    buf, done,  \* the buffer of a write, and i
    got,        \* what a read has copied out
    toclose,    \* the files it has still to close
    ff,         \* the file it has taken off the table, or None
    ref, file,  \* f->ref; the pipe and the writable flag of f, None if FD_NONE
    pipe,       \* the pipe in each page, None while the page is free
    plock,      \* pi->lock
    fault

procs == <<ofile, killed, at, arg, buf, done, got, toclose, ff>>
ftable == <<ref, file>>
vars == <<procs, ftable, pipe, plock, fault>>

Ends == [pi : Page, writable : BOOLEAN]

PipeType == [data : [0..(PIPESIZE - 1) -> Byte],
             nread : 0..(CountRange - 1), nwrite : 0..(CountRange - 1),
             readopen : BOOLEAN, writeopen : BOOLEAN]

TypeOK ==
    /\ ofile \in [Proc -> [Fd -> File \cup {None}]]
    /\ killed \in [Proc -> BOOLEAN]
    /\ at \in [Proc -> {"none", "user", "filealloc", "pipealloc", "read", "write", "ret",
                        "sleep", "nread", "nwrite", "close", "exit"}]
    /\ arg \in [Proc -> File \cup {None}]
    /\ buf \in [Proc -> Seq(Byte)] /\ done \in [Proc -> Nat] /\ got \in [Proc -> Seq(Byte)]
    /\ toclose \in [Proc -> Seq(File)]
    /\ ff \in [Proc -> Ends \cup {None}]
    /\ ref \in [File -> 0..(Cardinality(Proc) * NOFILE)]
    /\ file \in [File -> Ends \cup {None}]
    /\ pipe \in [Page -> PipeType \cup {None}]
    /\ plock \in [Page -> Proc \cup {None}]
    /\ fault \in BOOLEAN

Init ==
    /\ ofile = [p \in Proc |-> [d \in Fd |-> None]]
    /\ killed = [p \in Proc |-> FALSE]
    /\ \E first \in Proc : at = [p \in Proc |-> IF p = first THEN "user" ELSE "none"]
    /\ arg = [p \in Proc |-> None]
    /\ buf = [p \in Proc |-> <<>>] /\ done = [p \in Proc |-> 0] /\ got = [p \in Proc |-> <<>>]
    /\ toclose = [p \in Proc |-> <<>>]
    /\ ff = [p \in Proc |-> None]
    /\ ref = [f \in File |-> 0]
    /\ file = [f \in File |-> None]
    /\ pipe = [pg \in Page |-> None]
    /\ plock = [pg \in Page |-> None]
    /\ fault = FALSE

-----------------------------------------------------------------------------
(* The file table.                                                          *)

Goto(p, point) == at' = [at EXCEPT ![p] = point]

At(p, point) == ~fault /\ at[p] = point

\* A process that was killed makes no more calls; it exits.
User(p) == At(p, "user") /\ ~killed[p]

Fault == fault' = TRUE /\ UNCHANGED <<procs, ftable, pipe, plock>>

FreeFiles == {f \in File : ref[f] = 0}

FreeFds(p) == {d \in Fd : ofile[p][d] = None}

\* pipe(): filealloc for the read end, into arg.
sys_pipe(p) ==
    /\ User(p) /\ FreeFiles # {}
    /\ ref' = [ref EXCEPT ![Min(FreeFiles)] = 1]
    /\ arg' = [arg EXCEPT ![p] = Min(FreeFiles)]
    /\ Goto(p, "filealloc")
    /\ UNCHANGED <<ofile, killed, buf, done, got, toclose, ff, file, pipe, plock, fault>>

\* filealloc for the write end, into toclose; without one the first is closed.
filealloc(p) ==
    /\ At(p, "filealloc")
    /\ IF FreeFiles = {}
       THEN /\ toclose' = [toclose EXCEPT ![p] = <<arg[p]>>]
            /\ arg' = [arg EXCEPT ![p] = None]
            /\ Goto(p, "close")
            /\ UNCHANGED ref
       ELSE /\ ref' = [ref EXCEPT ![Min(FreeFiles)] = 1]
            /\ toclose' = [toclose EXCEPT ![p] = <<arg[p], Min(FreeFiles)>>]
            /\ Goto(p, "pipealloc")
            /\ UNCHANGED arg
    /\ UNCHANGED <<ofile, killed, buf, done, got, ff, file, pipe, plock, fault>>

NewPipe == [data |-> [i \in 0..(PIPESIZE - 1) |-> CHOOSE b \in Byte : TRUE],
            nread |-> 0, nwrite |-> 0, readopen |-> TRUE, writeopen |-> TRUE]

\* The rest of pipe(): a page, two descriptors, copyout of their numbers.  What
\* cannot be finished is closed again.
pipealloc(p) ==
    /\ At(p, "pipealloc")
    /\ LET rf == toclose[p][1]
           wf == toclose[p][2] IN
       \/ \E pg \in Page :
             /\ pipe[pg] = None
             /\ pipe' = [pipe EXCEPT ![pg] = NewPipe]
             /\ file' = [file EXCEPT ![rf] = [pi |-> pg, writable |-> FALSE],
                                     ![wf] = [pi |-> pg, writable |-> TRUE]]
             /\ \/ /\ Cardinality(FreeFds(p)) >= 2
                   /\ LET fd0 == Min(FreeFds(p))
                          fd1 == Min(FreeFds(p) \ {fd0}) IN
                      ofile' = [ofile EXCEPT ![p][fd0] = rf, ![p][fd1] = wf]
                   /\ toclose' = [toclose EXCEPT ![p] = <<>>]
                   /\ Goto(p, "user")
                \/ Goto(p, "close") /\ UNCHANGED <<ofile, toclose>>
       \/ Goto(p, "close") /\ UNCHANGED <<ofile, toclose, file, pipe>>
    /\ arg' = [arg EXCEPT ![p] = None]
    /\ UNCHANGED <<killed, buf, done, got, ff, ref, plock, fault>>

filedup(f) == [ref EXCEPT ![f] = @ + 1]

sys_dup(p, d) ==
    /\ User(p) /\ ofile[p][d] # None /\ FreeFds(p) # {}
    /\ ofile' = [ofile EXCEPT ![p][Min(FreeFds(p))] = ofile[p][d]]
    /\ ref' = filedup(ofile[p][d])
    /\ UNCHANGED <<killed, at, arg, buf, done, got, toclose, ff, file, pipe, plock, fault>>

\* The loop of fork over the descriptors.
DupAll(p) ==
    [f \in File |-> ref[f] + Cardinality({d \in Fd : ofile[p][d] = f})]

kfork(p, q) ==
    /\ User(p) /\ at[q] = "none"
    /\ ofile' = [ofile EXCEPT ![q] = ofile[p]]
    /\ ref' = DupAll(p)
    /\ Goto(q, "user")
    /\ UNCHANGED <<killed, arg, buf, done, got, toclose, ff, file, pipe, plock, fault>>

sys_close(p, d) ==
    /\ User(p) /\ ofile[p][d] # None
    /\ toclose' = [toclose EXCEPT ![p] = <<ofile[p][d]>>]
    /\ ofile' = [ofile EXCEPT ![p][d] = None]
    /\ Goto(p, "close")
    /\ UNCHANGED <<killed, arg, buf, done, got, ff, ftable, pipe, plock, fault>>

\* exit, also of a killed process on its way to user mode.
kexit(p) ==
    /\ At(p, "user")
    /\ toclose' = [toclose EXCEPT ![p] =
                      SelectSeq([i \in 1..NOFILE |-> ofile[p][i - 1]], LAMBDA f : f # None)]
    /\ ofile' = [ofile EXCEPT ![p] = [d \in Fd |-> None]]
    /\ Goto(p, "exit")
    /\ UNCHANGED <<killed, arg, buf, done, got, ff, ftable, pipe, plock, fault>>

Closing(p) == At(p, "close") \/ At(p, "exit")

\* fileclose under ftable.lock: the last reference takes the file off the table.
fileclose(p) ==
    /\ Closing(p) /\ ff[p] = None /\ toclose[p] # <<>>
    /\ LET f == Head(toclose[p]) IN
       IF ref[f] < 1 THEN Fault
       ELSE /\ ref' = [ref EXCEPT ![f] = @ - 1]
            /\ IF ref[f] = 1
               THEN /\ ff' = [ff EXCEPT ![p] = file[f]]
                    /\ file' = [file EXCEPT ![f] = None]
               ELSE UNCHANGED <<ff, file>>
            /\ toclose' = [toclose EXCEPT ![p] = Tail(@)]
            /\ UNCHANGED <<ofile, killed, at, arg, buf, done, got, pipe, plock, fault>>

\* Everything is closed: back to user mode, or gone for good.
close_done(p) ==
    /\ Closing(p) /\ ff[p] = None /\ toclose[p] = <<>>
    /\ Goto(p, IF at[p] = "exit" THEN "none" ELSE "user")
    /\ killed' = [killed EXCEPT ![p] = @ /\ at[p] # "exit"]
    /\ UNCHANGED <<ofile, arg, buf, done, got, toclose, ff, ftable, pipe, plock, fault>>

-----------------------------------------------------------------------------
(* The ring of a pipe, and its sleepers.                                    *)

\* Bytes in the ring, in 32-bit arithmetic.
Count(x) == (x.nwrite - x.nread) % CountRange

\* Mutant: one byte too many fits.
Full_late(x) == x.nwrite = (x.nread + PIPESIZE + 1) % CountRange

\* nwrite == nread + PIPESIZE.
Full(x) == x.nwrite = (x.nread + PIPESIZE) % CountRange

Put(x, ch) == [x EXCEPT !.data[x.nwrite % PIPESIZE] = ch, !.nwrite = (@ + 1) % CountRange]

Queue(x) == [i \in 1..Count(x) |-> x.data[(x.nread + i - 1) % PIPESIZE]]

Take(x, k) == [x EXCEPT !.nread = (@ + k) % CountRange]

PipeOf(p) == file[arg[p]].pi

\* Mutant: the other side is not woken.
Wake_nobody(pi, ch, p, point) == [at EXCEPT ![p] = point]

\* Where everybody is after wakeup(&pi->ch) by p, which goes on at point.
Wake(pi, ch, p, point) ==
    [q \in Proc |-> IF q = p THEN point
                    ELSE IF at[q] = ch /\ PipeOf(q) = pi
                    THEN IF ch = "nread" THEN "read" ELSE "write"
                    ELSE at[q]]

\* Mutant: the page is freed with the first end.
CloseEnd_first(x, w) == None

\* Mutant: the flags are mixed up.
CloseEnd_swapped(x, w) ==
    LET y == IF w THEN [x EXCEPT !.readopen = FALSE] ELSE [x EXCEPT !.writeopen = FALSE]
    IN  IF y.readopen \/ y.writeopen THEN y ELSE None

CloseEnd(x, w) ==
    LET y == IF w THEN [x EXCEPT !.writeopen = FALSE] ELSE [x EXCEPT !.readopen = FALSE]
    IN  IF y.readopen \/ y.writeopen THEN y ELSE None

\* pipeclose under pi->lock, and kfree of the page when it was the last end.
pipeclose(p) ==
    /\ Closing(p) /\ ff[p] # None
    /\ LET pi == ff[p].pi IN
       IF pipe[pi] = None THEN Fault
       ELSE /\ plock[pi] = None
            /\ pipe' = [pipe EXCEPT ![pi] = CloseEnd(@, ff[p].writable)]
            /\ at' = Wake(pi, IF ff[p].writable THEN "nread" ELSE "nwrite", p, at[p])
            /\ ff' = [ff EXCEPT ![p] = None]
            /\ UNCHANGED <<ofile, killed, arg, buf, done, got, toclose, ftable, plock, fault>>

-----------------------------------------------------------------------------
(* read and write.                                                          *)

sys_write(p, d) ==
    /\ User(p) /\ ofile[p][d] # None /\ file[ofile[p][d]].writable
    /\ \E b \in Messages : buf' = [buf EXCEPT ![p] = b]
    /\ arg' = [arg EXCEPT ![p] = ofile[p][d]]
    /\ Goto(p, "write")
    /\ UNCHANGED <<ofile, killed, done, got, toclose, ff, ftable, pipe, plock, fault>>

\* A turn of the loop under pi->lock, or its end.  killed is tested before
\* every byte, and a kill may come between two of them; the return it leads to
\* wakes nobody.
pipewrite(p) ==
    /\ At(p, "write")
    /\ LET pi == PipeOf(p)
           x == pipe[pi]
           more == done[p] < Len(buf[p]) IN
       IF x = None THEN Fault
       ELSE /\ plock[pi] \in {None, p}
            /\ \/ /\ more /\ (~x.readopen \/ killed[p])
                  /\ Goto(p, "ret") /\ plock' = [plock EXCEPT ![pi] = None]
                  /\ UNCHANGED <<done, pipe>>
               \/ /\ more /\ x.readopen /\ ~killed[p] /\ Full(x)
                  /\ at' = Wake(pi, "nread", p, "sleep") /\ plock' = [plock EXCEPT ![pi] = p]
                  /\ UNCHANGED <<done, pipe>>
               \/ /\ more /\ x.readopen /\ ~killed[p] /\ ~Full(x)
                  /\ pipe' = [pipe EXCEPT ![pi] = Put(x, buf[p][done[p] + 1])]
                  /\ done' = [done EXCEPT ![p] = @ + 1]
                  /\ plock' = [plock EXCEPT ![pi] = p]
                  /\ UNCHANGED at
               \* Everything is written, or copyin has failed.
               \/ /\ more => x.readopen /\ ~killed[p] /\ ~Full(x)
                  /\ at' = Wake(pi, "nread", p, "ret") /\ plock' = [plock EXCEPT ![pi] = None]
                  /\ UNCHANGED <<done, pipe>>
            /\ UNCHANGED <<ofile, killed, arg, buf, got, toclose, ff, ftable, fault>>

sys_read(p, d) ==
    /\ User(p) /\ ofile[p][d] # None /\ ~file[ofile[p][d]].writable
    /\ arg' = [arg EXCEPT ![p] = ofile[p][d]]
    /\ Goto(p, "read")
    /\ UNCHANGED <<ofile, killed, buf, done, got, toclose, ff, ftable, pipe, plock, fault>>

\* A read of n bytes, of which any part can be copied out.
piperead(p, n) ==
    /\ At(p, "read")
    /\ LET pi == PipeOf(p)
           x == pipe[pi] IN
       IF x = None THEN Fault
       ELSE /\ plock[pi] = None
            /\ IF Count(x) = 0 /\ x.writeopen
               THEN /\ UNCHANGED <<got, pipe>>
                    /\ IF killed[p] THEN Goto(p, "ret") /\ UNCHANGED plock
                       ELSE Goto(p, "sleep") /\ plock' = [plock EXCEPT ![pi] = p]
               ELSE \E k \in 0..Min({n, Count(x)}) :
                      /\ got' = [got EXCEPT ![p] = SubSeq(Queue(x), 1, k)]
                      /\ pipe' = [pipe EXCEPT ![pi] = Take(x, k)]
                      /\ at' = Wake(pi, "nwrite", p, "ret")
                      /\ UNCHANGED plock
            /\ UNCHANGED <<ofile, killed, arg, buf, done, toclose, ff, ftable, fault>>

\* sleep(&pi->nread or &pi->nwrite, &pi->lock).
sleep(p) ==
    /\ At(p, "sleep")
    /\ plock' = [plock EXCEPT ![PipeOf(p)] = None]
    /\ Goto(p, IF file[arg[p]].writable THEN "nwrite" ELSE "nread")
    /\ UNCHANGED <<ofile, killed, arg, buf, done, got, toclose, ff, ftable, pipe, fault>>

sys_ret(p) ==
    /\ At(p, "ret")
    /\ Goto(p, "user")
    /\ arg' = [arg EXCEPT ![p] = None]
    /\ buf' = [buf EXCEPT ![p] = <<>>]
    /\ done' = [done EXCEPT ![p] = 0] /\ got' = [got EXCEPT ![p] = <<>>]
    /\ UNCHANGED <<ofile, killed, toclose, ff, ftable, pipe, plock, fault>>

\* Somebody kills q inside read or write, the calls that look at killed
\* (elsewhere it comes to an exit after the call): a sleeper looks again.
kkill(q) ==
    /\ ~fault /\ at[q] \in {"read", "write", "sleep", "nread", "nwrite"} /\ ~killed[q]
    /\ killed' = [killed EXCEPT ![q] = TRUE]
    /\ at' = [at EXCEPT ![q] = IF @ = "nread" THEN "read"
                               ELSE IF @ = "nwrite" THEN "write" ELSE @]
    /\ UNCHANGED <<ofile, arg, buf, done, got, toclose, ff, ftable, pipe, plock, fault>>

-----------------------------------------------------------------------------
KernelStep(p) ==
    \/ filealloc(p) \/ pipealloc(p) \/ fileclose(p) \/ pipeclose(p) \/ close_done(p)
    \/ pipewrite(p) \/ (\E n \in ReadSizes : piperead(p, n)) \/ sleep(p) \/ sys_ret(p)

UserStep(p) ==
    \/ sys_pipe(p) \/ kexit(p)
    \/ \E d \in Fd : sys_dup(p, d) \/ sys_close(p, d) \/ sys_write(p, d) \/ sys_read(p, d)
    \/ \E q \in Proc : kfork(p, q)

Next == \E p \in Proc : KernelStep(p) \/ UserStep(p) \/ kkill(p)

Spec == Init /\ [][Next]_vars

-----------------------------------------------------------------------------
(* Correctness.                                                             *)

\* No fileclose of a free file, and nobody touches a pipe after it was freed.
NoFault == ~fault

\* readopen and writeopen say exactly whether the end is still referenced, by
\* the file table or by a close that has not reached the pipe yet.
EndsOpen ==
    \A pg \in Page : pipe[pg] # None =>
        \A w \in BOOLEAN :
            (IF w THEN pipe[pg].writeopen ELSE pipe[pg].readopen)
            <=> LET end == [pi |-> pg, writable |-> w] IN
                (\E f \in File : file[f] = end) \/ (\E p \in Proc : ff[p] = end)

\* r sleeps though there is something for it to do, and nobody is at work on
\* the pipe who would still wake it.
Unwoken(r) ==
    LET x == pipe[PipeOf(r)] IN
    /\ at[r] \in {"nread", "nwrite"} /\ plock[PipeOf(r)] = None
    /\ IF at[r] = "nread" THEN Count(x) > 0 \/ ~x.writeopen ELSE ~Full(x) \/ ~x.readopen

\* Bytes, space and closed ends are always announced to those who sleep for
\* them, with one exception: a writer killed between two bytes returns without
\* a wakeup for the bytes it has put.
NoLostWakeup ==
    [][\A r \in Proc : Unwoken(r)' =>
          \/ Unwoken(r)
          \/ /\ at[r] = "nread"
             /\ \E w \in Proc : at[w] = "write" /\ at'[w] = "ret" /\ killed[w] /\ done[w] > 0]_vars

ThePage == CHOOSE pg \in Page : TRUE

C == INSTANCE Channel WITH
    Capacity <- PIPESIZE, Buffers <- BoundedSeq(Byte, PIPESIZE + 1),
    queue <- IF pipe[ThePage] = None THEN <<>> ELSE Queue(pipe[ThePage]),
    out <- [p \in Proc |-> SubSeq(buf[p], done[p] + 1, Len(buf[p]))]

\* A pipe is a first-in first-out channel of PIPESIZE bytes: a reader gets
\* what writers put in, in that order, once, whatever sleeps, wakes, is killed
\* or wraps around in between.
IsFifo == C!Spec
=============================================================================
