------------------------------- MODULE Shell --------------------------------
(***************************************************************************)
(* The shell (user/sh.c) at work: main reads lines and forks, and runcmd   *)
(* runs in the processes it forks.  A system call is part of the step of   *)
(* the code before it.  fork fails when the process table is full; exec    *)
(* and open may fail; a program reads its input to the end and exits.      *)
(***************************************************************************)
EXTENDS ShellParser

CONSTANTS
    MAXPROC,          \* bound: processes besides the shell itself
    Lines,          \* the lines that are typed
    MAXLINES        \* bound: how many

VARIABLES
    procs,
    typed           \* the number of lines typed

shellVars == <<procs, typed>>

main == 0
Slot == 0..MAXPROC
FD == 0..4
\* What a descriptor refers to; an end of a pipe is <<"r", k>> or <<"w", k>>.
Closed == <<"none">>
Stdio == [f \in FD |-> IF f < 3 THEN <<"console">> ELSE Closed]
NoProc == [pc |-> "unused", cmd |-> NoCmd, fds |-> [f \in FD |-> Closed], parent |-> main, bg |-> FALSE]

ShellInit ==
    /\ typed = 0
    /\ procs = [x \in Slot |-> IF x = main THEN [NoProc EXCEPT !.pc = "prompt", !.fds = Stdio] ELSE NoProc]

ShellTypeOK == typed \in 0..MAXLINES /\
    \A x \in Slot :
        /\ procs[x].pc \in {"unused", "prompt", "wait", "run", "list", "right", "wait1", "wait2", "program", "zombie"}
        /\ DOMAIN procs[x].fds = FD /\ procs[x].parent \in Slot /\ procs[x].bg \in BOOLEAN

FreeSlots == {x \in Slot : procs[x].pc = "unused"}
Zombies(x) == {y \in Slot : procs[y].pc = "zombie" /\ procs[y].parent = x}
Runs(x, type) == procs[x].pc = "run" /\ procs[x].cmd.type = type

\* A child of x in a free slot, that runs cmd.
fork1(x, cmd, fds, bg) ==
    (Min(FreeSlots) :> [pc |-> "run", cmd |-> cmd, fds |-> fds, parent |-> x, bg |-> bg])

\* exit: the children of x are handed to init, which reaps them, and x waits
\* for its parent unless it has itself been handed to init (its parent is x).
Exit(x) ==
    [y \in Slot |->
        LET p == procs[y] IN
        IF y = x THEN (IF p.parent = x THEN NoProc ELSE [NoProc EXCEPT !.pc = "zombie", !.parent = p.parent])
        ELSE IF p.parent = x /\ y # main
             THEN (IF p.pc = "zombie" THEN NoProc ELSE [p EXCEPT !.parent = y])
        ELSE p]

\* A fork that fails: x exits, and nobody waits for the child it may have.
Panic(x) ==
    LET after == Exit(x) IN
    [y \in Slot |-> IF procs[y].parent = x /\ y # main /\ after[y].pc # "unused" /\ y # x
                    THEN [after[y] EXCEPT !.bg = TRUE] ELSE after[y]]

CloseAll(fds, F) == [f \in FD |-> IF f \in F THEN Closed ELSE fds[f]]
\* dup and open take the first free descriptor.
Fd(fds, obj) == [fds EXCEPT ![Min({f \in FD : fds[f] = Closed})] = obj]
Ends(fds, k) == {f \in FD : fds[f] \in {<<"r", k>>, <<"w", k>>}}
Holders(end) == {y \in Slot : \E f \in FD : procs[y].fds[f] = end}
\* A pipe that nobody has open.
NewPipe == Min({k \in 0..(2 * MAXPROC) : Holders(<<"r", k>>) \cup Holders(<<"w", k>>) = {}})

\* A line is read, and the child parses it: it exits when parsecmd panics.  A
\* line that starts with tx runs the same way: its child calls txbegin before
\* runcmd, and runcmd does not come back to the txcommit that follows.  When
\* the fork fails the shell exits, and init starts another one.
getcmd(l) ==
    LET run(c) == IF c.ok THEN c.cmd ELSE NoCmd IN
    /\ procs[main].pc = "prompt" /\ FreeSlots # {}
    /\ typed < MAXLINES /\ typed' = typed + 1
    /\ procs' = fork1(main, run(parsecmd(l)), procs[main].fds, FALSE)
                @@ [procs EXCEPT ![main].pc = "wait"]

\* A cd line is executed by the shell itself.
cd ==
    /\ procs[main].pc = "prompt"
    /\ typed < MAXLINES /\ typed' = typed + 1
    /\ UNCHANGED procs

main_wait ==
    /\ procs[main].pc = "wait"
    /\ \E y \in Zombies(main) : procs' = [procs EXCEPT ![main].pc = "prompt", ![y] = NoProc]

\* exec, unless there is no command or it fails.
run_exec(x) ==
    /\ Runs(x, "EXEC")
    /\ \/ procs[x].cmd.argc > 0 /\ procs' = [procs EXCEPT ![x].pc = "program", ![x].cmd = NoCmd]
       \/ procs' = Exit(x)

run_redir(x) ==
    LET c == procs[x].cmd IN
    /\ Runs(x, "REDIR")
    /\ \/ procs' = [procs EXCEPT ![x].cmd = c.cmd, ![x].fds = Fd(CloseAll(@, {c.fd}), <<"file">>)]
       \/ procs' = Exit(x)

run_list(x) ==
    LET p == procs[x] IN
    /\ Runs(x, "LIST")
    /\ procs' = IF FreeSlots = {} THEN Panic(x)
                ELSE fork1(x, p.cmd.left, p.fds, p.bg)
                     @@ [procs EXCEPT ![x].pc = "list", ![x].cmd = p.cmd.right]

list_wait(x) ==
    /\ procs[x].pc = "list"
    /\ \E y \in Zombies(x) : procs' = [procs EXCEPT ![x].pc = "run", ![y] = NoProc]

run_back(x) ==
    LET after == Exit(x) IN
    /\ Runs(x, "BACK")
    /\ procs' = IF FreeSlots = {} THEN Panic(x)
                ELSE fork1(Min(FreeSlots), procs[x].cmd.cmd, procs[x].fds, TRUE) @@ after

\* The descriptors of a side of pipe k: its end is moved to fd.
PipeFds(fds, k, fd, end) ==
    CloseAll(Fd(CloseAll(fds, {fd}), <<end, k>>), Ends(fds, k))

\* pipe, and the fork of the left command.
run_pipe(x) ==
    LET p == procs[x]  k == NewPipe
        fds == Fd(Fd(p.fds, <<"r", k>>), <<"w", k>>)
    IN /\ Runs(x, "PIPE")
       /\ procs' = IF FreeSlots = {} THEN Panic(x)
                   ELSE fork1(x, p.cmd.left, PipeFds(fds, k, 1, "w"), p.bg)
                        @@ [procs EXCEPT ![x].pc = "right", ![x].fds = fds]

\* Mutant: the shell keeps its ends while it waits.
ParentFds_kept(fds, k) == fds

\* The two closes of the shell itself.
ParentFds(fds, k) == CloseAll(fds, Ends(fds, k))

\* The fork of the right command; p[0] is the first descriptor above 2.
pipe_right(x) ==
    LET p == procs[x]  k == p.fds[3][2] IN
    /\ p.pc = "right"
    /\ procs' = IF FreeSlots = {} THEN Panic(x)
                ELSE fork1(x, p.cmd.right, PipeFds(p.fds, k, 0, "r"), p.bg)
                     @@ [procs EXCEPT ![x].pc = "wait1", ![x].cmd = NoCmd, ![x].fds = ParentFds(@, k)]

\* Mutant: one wait for two children.
pipe_wait_once(x) ==
    /\ procs[x].pc = "wait1"
    /\ Zombies(x) # {} /\ procs' = Exit(x)

\* The two waits, and the exit.
pipe_wait(x) ==
    \E y \in Zombies(x) :
        \/ /\ procs[x].pc = "wait1"
           /\ procs' = [procs EXCEPT ![x].pc = "wait2", ![y] = NoProc]
        \/ /\ procs[x].pc = "wait2"
           /\ procs' = [Exit(x) EXCEPT ![y] = NoProc]

\* The processes that x waits for: the writers of its input, or its children.
WaitsFor(x) ==
    LET in == procs[x].fds[0] IN
    CASE procs[x].pc = "program" -> IF in[1] = "r" THEN Holders(<<"w", in[2]>>) ELSE {}
      [] procs[x].pc \in {"wait", "list", "wait1", "wait2"} ->
            IF Zombies(x) # {} THEN {} ELSE {y \in Slot \ {x, main} : procs[y].parent = x}
      [] OTHER -> {}

program(x) ==
    /\ procs[x].pc = "program" /\ WaitsFor(x) = {}
    /\ procs' = Exit(x)

ShellNext ==
    \/ cd \/ \E l \in Lines : getcmd(l)
    \/ /\ UNCHANGED typed
       /\ \/ main_wait
          \/ \E x \in Slot :
                \/ run_exec(x) \/ run_redir(x) \/ run_list(x) \/ list_wait(x) \/ run_back(x)
                \/ run_pipe(x) \/ pipe_right(x) \/ pipe_wait(x) \/ program(x)

\* The shell is at its prompt, all lines are typed, and nothing runs any more.
ShellEnded ==
    /\ typed = MAXLINES /\ procs[main].pc = "prompt"
    /\ \A x \in Slot \ {main} : procs[x].pc \in {"unused", "zombie"}

\* No processes of the shell wait for each other in a circle, through wait and
\* through pipes whose write end one of them still holds: the closes in the
\* PIPE case of runcmd leave no end with a process that does not write to it.
PipesDrain ==
    \A S \in SUBSET {x \in Slot : WaitsFor(x) # {}} :
        S # {} => \E x \in S : WaitsFor(x) \cap S = {}

\* A command in the foreground has a parent that is going to wait for it: the
\* prompt, or the next command of a list, comes after all of them.
ForegroundWaited ==
    \A x \in Slot \ {main} :
        procs[x].pc \notin {"unused", "zombie"} /\ ~procs[x].bg =>
            /\ procs[x].parent # x
            /\ procs[procs[x].parent].pc \in {"wait", "list", "right", "wait1", "wait2"}
=============================================================================
