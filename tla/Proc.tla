-------------------------------- MODULE Proc --------------------------------
(***************************************************************************)
(* Processes: kernel/proc.c, the process calls of kernel/sysproc.c and the *)
(* paths of kernel/trap.c that kill, preempt or tick.                      *)
(*                                                                         *)
(* Spin-locks belong to CPUs (lk->cpu), so a lock is the CPU that holds it.*)
(* A process acts only while it is the current process of a CPU, and pc is *)
(* where its kernel thread goes on.  A section that takes one lock, touches*)
(* what that lock protects and drops it is one step; a lock that is held   *)
(* while another one is waited for is held across steps.                   *)
(***************************************************************************)
EXTENDS Integers

CONSTANTS
    NPROC,       \* size of the process table
    NCPU,        \* number of harts
    None,        \* no process, no CPU, no channel
    Calls,       \* the system calls programs make
    MaxPid,      \* bound: pids handed out
    TickRange,   \* ticks wraps around here (2^32 in the code)
    MaxPause     \* longest argument of pause

Slot == 1..NPROC
Cpu == 0..(NCPU - 1)
initproc == 1

ASSUME ProcAssumption ==
    /\ NPROC \in Nat \ {0} /\ NCPU \in Nat \ {0}
    /\ None \notin Slot \cup Cpu
    /\ MaxPid \in Nat \ {0}
    /\ Calls \subseteq {"fork", "exit", "wait", "kill", "pause"}
    /\ MaxPause \in Nat /\ TickRange \in Nat /\ MaxPause < TickRange

VARIABLES
    pstate, pid, parent, killed, chan,  \* struct proc
    plock,     \* p->lock
    lock,      \* wait_lock and tickslock
    cur,       \* c->proc
    pc,        \* where the kernel thread of a process goes on
    lk,        \* the condition lock of the sleep loop it is in
    child,     \* np of a fork in progress
    nextpid,
    ticks,
    pause,     \* ticks0 and n of a pause in progress
    slept,     \* ticks since that pause began, counted up to MaxPause
    panic

table == <<pstate, pid, parent, killed, chan>>
locks == <<plock, lock>>
thread == <<pc, lk, child>>
clock == <<ticks, pause, slept>>
vars == <<table, locks, cur, thread, nextpid, clock, panic>>

LockName == {"wait_lock", "tickslock"}

\* enum procstate, and the points at which the kernel thread of a process can stop.
State == {"UNUSED", "USED", "SLEEPING", "RUNNABLE", "RUNNING", "ZOMBIE"}
Point == {"user", "ret", "fork_parent", "fork_run", "check", "sleep", "sched", "woken",
          "exit", "exit_locked", "zombie"}

TypeOK ==
    /\ pstate \in [Slot -> State]
    /\ pid \in [Slot -> 0..MaxPid]
    /\ parent \in [Slot -> Slot \cup {None}]
    /\ killed \in [Slot -> BOOLEAN]
    /\ chan \in [Slot -> Slot \cup {0, None}]
    /\ plock \in [Slot -> Cpu \cup {None}]
    /\ lock \in [LockName -> Cpu \cup {None}]
    /\ cur \in [Cpu -> Slot \cup {None}]
    /\ pc \in [Slot -> Point]
    /\ lk \in [Slot -> LockName]
    /\ child \in [Slot -> Slot]
    /\ nextpid \in 1..(MaxPid + 1)
    /\ ticks \in 0..(TickRange - 1)
    /\ pause \in [Slot -> (0..(TickRange - 1)) \X (0..MaxPause)]
    /\ slept \in [Slot -> 0..MaxPause]
    /\ panic \in BOOLEAN

\* After userinit: one process, the first one, waits to run.
Init ==
    /\ pstate = [p \in Slot |-> IF p = initproc THEN "RUNNABLE" ELSE "UNUSED"]
    /\ pid = [p \in Slot |-> IF p = initproc THEN 1 ELSE 0]
    /\ parent = [p \in Slot |-> None]
    /\ killed = [p \in Slot |-> FALSE]
    /\ chan = [p \in Slot |-> None]
    /\ plock = [p \in Slot |-> None]
    /\ lock = [l \in LockName |-> None]
    /\ cur = [c \in Cpu |-> None]
    /\ pc = [p \in Slot |-> "user"]
    /\ lk = [p \in Slot |-> "wait_lock"]
    /\ child = [p \in Slot |-> initproc]
    /\ nextpid = 2
    /\ ticks = 0
    /\ pause = [p \in Slot |-> <<0, 0>>]
    /\ slept = [p \in Slot |-> 0]
    /\ panic = FALSE

-----------------------------------------------------------------------------
(* Locks and wakeups.                                                       *)

\* The locks a CPU holds: c->noff counts them.
ProcLocks(c) == {p \in Slot : plock[p] = c}
OtherLocks(c) == {l \in LockName : lock[l] = c}

\* The current process of c is at this point of its code.
At(c, point) ==
    /\ ~panic
    /\ cur[c] # None
    /\ pc[cur[c]] = point

Goto(c, point) == pc' = [pc EXCEPT ![cur[c]] = point]

Panic == panic' = TRUE /\ UNCHANGED <<table, locks, cur, thread, nextpid, clock>>

\* A scan of the table comes to q before the rest of S.
First(q, S) == \A p \in S : q <= p

\* Mutant: wakeup looks at p->state without p->lock.
MayWakeup_racy(c) == TRUE

\* wakeup takes the lock of every process but its own in turn.
MayWakeup(c) == \A p \in Slot : p # cur[c] => plock[p] = None

Woken(ch) ==
    [p \in Slot |-> IF pstate[p] = "SLEEPING" /\ chan[p] = ch THEN "RUNNABLE"
                    ELSE pstate[p]]

-----------------------------------------------------------------------------
(* The scheduler of a CPU and the ways back into it.                        *)

\* The loop over the table comes to a RUNNABLE process.  It goes on in forkret,
\* or behind swtch in sched, where it clears its channel and drops its lock.
scheduler(c, p) ==
    /\ ~panic /\ cur[c] = None
    /\ pstate[p] = "RUNNABLE" /\ plock[p] = None
    /\ pstate' = [pstate EXCEPT ![p] = "RUNNING"]
    /\ chan' = [chan EXCEPT ![p] = None]
    /\ cur' = [cur EXCEPT ![c] = p]
    /\ UNCHANGED <<pid, parent, killed, locks, thread, nextpid, clock, panic>>

\* sched and the rest of the scheduler's round: p's lock goes to the
\* scheduler of this CPU, which drops it.
sched(c, p) ==
    /\ cur' = [cur EXCEPT ![c] = None]
    /\ plock' = [plock EXCEPT ![p] = None]

\* The panics of sched: p->lock must be held, and no other lock.
MaySched(c, p) == ProcLocks(c) = {p} /\ OtherLocks(c) = {}

InPause(p) == lk[p] = "tickslock" /\ pc[p] \in {"check", "sleep", "sched", "woken"}

\* Mutant: usertrap looks at killed only after system calls.
LeavesUser_never(p) == FALSE

LeavesUser(p) == pc[p] = "user" /\ killed[p]

\* CPU 0 counts the tick, and wakes the pausing processes.
clockintr(c) ==
    /\ c = 0 => lock["tickslock"] = None /\ MayWakeup(c)
    /\ ticks' = IF c = 0 THEN (ticks + 1) % TickRange ELSE ticks
    /\ slept' = [q \in Slot |-> IF c = 0 /\ InPause(q)
                                /\ slept[q] < MaxPause
                                THEN slept[q] + 1 ELSE slept[q]]

\* yield, in the table st.
yield(c, st) ==
    /\ plock[cur[c]] = None
    /\ pstate' = [st EXCEPT ![cur[c]] = "RUNNABLE"]
    /\ cur' = [cur EXCEPT ![c] = None]

\* The timer interrupt, possible while the CPU holds no lock; then the
\* current process leaves if it was killed in user mode, or yields.
timer(c) ==
    /\ ~panic /\ ProcLocks(c) = {} /\ OtherLocks(c) = {}
    /\ clockintr(c)
    /\ LET ticked == IF c = 0 THEN Woken(0) ELSE pstate IN
       IF cur[c] = None THEN pstate' = ticked /\ UNCHANGED <<cur, pc>>
       ELSE IF LeavesUser(cur[c])
       THEN plock[cur[c]] = None /\ pstate' = ticked /\ Goto(c, "exit") /\ UNCHANGED cur
       ELSE yield(c, ticked) /\ UNCHANGED pc
    /\ UNCHANGED <<pid, parent, killed, chan, locks, lk, child, nextpid, pause, panic>>

-----------------------------------------------------------------------------
(* sleep(chan, lk), inside the loops of wait and pause.                     *)

\* p->lock is taken before the condition lock is dropped.
sleep(c) ==
    /\ At(c, "sleep")
    /\ LET p == cur[c] IN
       /\ plock[p] = None
       /\ plock' = [plock EXCEPT ![p] = c]
       /\ lock' = [lock EXCEPT ![lk[p]] = None]
       /\ Goto(c, "sched")
    /\ UNCHANGED <<table, cur, lk, child, nextpid, clock, panic>>

sleep_sched(c) ==
    /\ At(c, "sched")
    /\ LET p == cur[c] IN
       IF ~MaySched(c, p) THEN Panic
       ELSE /\ chan' = [chan EXCEPT ![p] = IF lk[p] = "tickslock" THEN 0 ELSE p]
            /\ pstate' = [pstate EXCEPT ![p] = "SLEEPING"]
            /\ sched(c, p)
            /\ Goto(c, "woken")
            /\ UNCHANGED <<pid, parent, killed, lock, lk, child, nextpid, clock, panic>>

\* The end of sleep, and the beginning of a loop that sleeps: take the
\* condition lock and look.
Take(c, l) ==
    /\ lock[l] = None
    /\ lock' = [lock EXCEPT ![l] = c]
    /\ Goto(c, "check")

sleep_woken(c) ==
    /\ At(c, "woken")
    /\ Take(c, lk[cur[c]])
    /\ UNCHANGED <<table, plock, cur, lk, child, nextpid, clock, panic>>

\* A call leaves its loop.
Leave(c, l) ==
    /\ lock' = [lock EXCEPT ![l] = None]
    /\ Goto(c, "ret")

-----------------------------------------------------------------------------
(* Traps from user mode.                                                    *)

\* A system call begins; a killed process exits instead.
Syscall(c, call) == At(c, "user") /\ ~killed[cur[c]] /\ call \in Calls

\* Killed before its system call, or after it on the way back.
usertrap_killed(c, point) ==
    /\ At(c, point)
    /\ plock[cur[c]] = None
    /\ killed[cur[c]]
    /\ Goto(c, "exit")
    /\ UNCHANGED <<table, locks, cur, lk, child, nextpid, clock, panic>>

\* What the last call kept on the kernel stack is gone.
ForgetCall(p) ==
    /\ lk' = [lk EXCEPT ![p] = "wait_lock"]
    /\ pause' = [pause EXCEPT ![p] = <<0, 0>>]
    /\ slept' = [slept EXCEPT ![p] = 0]

prepare_return(c) ==
    /\ At(c, "ret")
    /\ LET p == cur[c] IN
       /\ plock[p] = None
       /\ ~killed[p]
       /\ Goto(c, "user")
       /\ ForgetCall(p)
    /\ UNCHANGED <<table, locks, cur, child, nextpid, ticks, panic>>

setkilled(p) == plock[p] = None /\ killed' = [killed EXCEPT ![p] = TRUE]

\* An unexpected trap: setkilled, and exit.  The first program does not fault.
usertrap_fault(c) ==
    /\ At(c, "user") /\ cur[c] # initproc
    /\ setkilled(cur[c])
    /\ Goto(c, "exit")
    /\ UNCHANGED <<pstate, pid, parent, chan, locks, cur, lk, child, nextpid,
                   clock, panic>>

-----------------------------------------------------------------------------
(* fork.                                                                    *)

allocpid == nextpid <= MaxPid /\ nextpid' = nextpid + 1

\* allocproc and the copying, up to release(np->lock).
kfork(c) ==
    /\ Syscall(c, "fork")
    /\ allocpid
    /\ \E np \in Slot :
          /\ pstate[np] = "UNUSED" /\ plock[np] = None
          /\ pstate' = [pstate EXCEPT ![np] = "USED"]
          /\ pid' = [pid EXCEPT ![np] = nextpid]
          /\ child' = [child EXCEPT ![cur[c]] = np]
          /\ pc' = [pc EXCEPT ![cur[c]] = "fork_parent", ![np] = "user"]
    /\ UNCHANGED <<parent, killed, chan, locks, cur, lk, clock, panic>>

\* allocproc finds no slot, or a page is missing and freeproc undoes it all (a
\* pid taken for nothing does not count against the bound).
kfork_fails(c) ==
    /\ Syscall(c, "fork")
    /\ Goto(c, "ret")
    /\ UNCHANGED <<table, locks, cur, lk, child, nextpid, clock, panic>>

fork_parent(c) ==
    /\ At(c, "fork_parent")
    /\ lock["wait_lock"] = None
    /\ parent' = [parent EXCEPT ![child[cur[c]]] = cur[c]]
    /\ Goto(c, "fork_run")
    /\ UNCHANGED <<pstate, pid, killed, chan, locks, cur, lk, child, nextpid,
                   clock, panic>>

fork_run(c) ==
    /\ At(c, "fork_run")
    /\ plock[child[cur[c]]] = None
    /\ pstate' = [pstate EXCEPT ![child[cur[c]]] = "RUNNABLE"]
    /\ child' = [child EXCEPT ![cur[c]] = initproc]
    /\ Goto(c, "ret")
    /\ UNCHANGED <<pid, parent, killed, chan, locks, cur, lk, nextpid, clock, panic>>

-----------------------------------------------------------------------------
(* exit and wait.                                                           *)

\* exit is called; files and the working directory are closed.  The first
\* program never exits.
sys_exit(c) ==
    /\ Syscall(c, "exit") /\ cur[c] # initproc
    /\ Goto(c, "exit")
    /\ UNCHANGED <<table, locks, cur, lk, child, nextpid, clock, panic>>

kexit(c) ==
    /\ At(c, "exit")
    /\ IF cur[c] = initproc THEN Panic
       ELSE /\ lock["wait_lock"] = None
            /\ lock' = [lock EXCEPT !["wait_lock"] = c]
            /\ Goto(c, "exit_locked")
            /\ ForgetCall(cur[c])
            /\ UNCHANGED <<table, plock, cur, child, nextpid, ticks, panic>>

Kids(p) == {q \in Slot : parent[q] = p}

\* Mutant: children are looked for among the processes that can run.
reparent_running(p) ==
    [q \in Slot |-> IF parent[q] = p /\ pstate[q] # "ZOMBIE" THEN initproc
                    ELSE parent[q]]

reparent(p) == [q \in Slot |-> IF parent[q] = p THEN initproc ELSE parent[q]]

\* Mutant: only reparent wakes anybody.
WokenByExit_init(p) == IF Kids(p) # {} THEN Woken(initproc) ELSE pstate

\* reparent wakes init if there was a child, exit wakes the parent.
WokenByExit(p) ==
    [q \in Slot |-> IF Kids(p) # {} /\ Woken(initproc)[q] = "RUNNABLE" THEN "RUNNABLE"
                    ELSE Woken(parent[p])[q]]

\* Under wait_lock: the children are given away, init and the parent woken,
\* p->lock is taken, and wait_lock dropped.
exit_zombie(c) ==
    /\ At(c, "exit_locked")
    /\ LET p == cur[c] IN
       /\ MayWakeup(c) /\ plock[p] = None
       /\ parent' = reparent(p)
       /\ pstate' = [WokenByExit(p) EXCEPT ![p] = "ZOMBIE"]
       /\ plock' = [plock EXCEPT ![p] = c]
    /\ lock' = [lock EXCEPT !["wait_lock"] = None]
    /\ Goto(c, "zombie")
    /\ UNCHANGED <<pid, killed, chan, cur, lk, child, nextpid, clock, panic>>

exit_sched(c) ==
    /\ At(c, "zombie")
    /\ IF ~MaySched(c, cur[c]) THEN Panic
       ELSE /\ sched(c, cur[c])
            /\ UNCHANGED <<table, lock, thread, nextpid, clock, panic>>

\* freeproc clears the slot; its kernel stack may be used by another process.
freeproc(q) ==
    /\ pstate' = [pstate EXCEPT ![q] = "UNUSED"]
    /\ pid' = [pid EXCEPT ![q] = 0]
    /\ parent' = [parent EXCEPT ![q] = None]
    /\ killed' = [killed EXCEPT ![q] = FALSE]
    /\ chan' = [chan EXCEPT ![q] = None]

sys_wait(c) ==
    /\ Syscall(c, "wait")
    /\ Take(c, "wait_lock")
    /\ UNCHANGED <<table, plock, cur, lk, child, nextpid, clock, panic>>

\* Mutant: wait does not take the lock of a child before it looks at it.
MayInspect_racy(q) == TRUE

MayInspect(q) == plock[q] = None

\* One scan of the table under wait_lock: the first zombie child is freed,
\* unless its status cannot be copied out (init does not ask for it).
kwait(c) ==
    /\ At(c, "check") /\ lk[cur[c]] = "wait_lock"
    /\ LET p == cur[c]
           zombies == {q \in Kids(p) : pstate[q] = "ZOMBIE"} IN
       /\ \A q \in Kids(p) : MayInspect(q)
       /\ \/ /\ zombies # {}
             /\ \/ \E q \in zombies : First(q, zombies) /\ freeproc(q)
                \/ p # initproc /\ UNCHANGED table
             /\ Leave(c, "wait_lock")
          \/ /\ zombies = {} /\ UNCHANGED table
             /\ IF Kids(p) = {} \/ killed[p] THEN Leave(c, "wait_lock")
                ELSE Goto(c, "sleep") /\ UNCHANGED lock
    /\ UNCHANGED <<plock, cur, lk, child, nextpid, clock, panic>>

-----------------------------------------------------------------------------
(* kill, pause.                                                             *)

\* kill of any pid but init's; pid 0 names the first unused slot.
kkill(c) ==
    /\ Syscall(c, "kill")
    /\ \E n \in (0..MaxPid) \ {1} :
          LET found == {q \in Slot : pid[q] = n} IN
          IF found = {} THEN UNCHANGED <<pstate, killed>>
          ELSE \E q \in found :
               /\ First(q, found) /\ plock[q] = None
               /\ killed' = [killed EXCEPT ![q] = TRUE]
               /\ pstate' = [pstate EXCEPT ![q] =
                                IF @ = "SLEEPING" THEN "RUNNABLE" ELSE @]
    /\ Goto(c, "ret")
    /\ UNCHANGED <<pid, parent, chan, locks, cur, lk, child, nextpid, clock, panic>>

sys_pause(c) ==
    /\ Syscall(c, "pause") /\ cur[c] # initproc
    /\ Take(c, "tickslock")
    /\ lk' = [lk EXCEPT ![cur[c]] = "tickslock"]
    /\ \E n \in 0..MaxPause : pause' = [pause EXCEPT ![cur[c]] = <<ticks, n>>]
    /\ UNCHANGED <<table, plock, cur, child, nextpid, ticks, slept, panic>>

\* Mutant: the deadline ticks0 + n is computed once, and compared.
PauseOverDeadline(p) == ticks >= (pause[p][1] + pause[p][2]) % TickRange

\* ticks - ticks0 < n, in unsigned arithmetic.
PauseOver(p) == (ticks - pause[p][1]) % TickRange >= pause[p][2]

pause_check(c) ==
    /\ At(c, "check") /\ lk[cur[c]] = "tickslock"
    /\ plock[cur[c]] = None
    /\ IF PauseOver(cur[c]) \/ killed[cur[c]] THEN Leave(c, "tickslock")
       ELSE Goto(c, "sleep") /\ UNCHANGED lock
    /\ UNCHANGED <<table, plock, cur, lk, child, nextpid, clock, panic>>

-----------------------------------------------------------------------------
\* What a kernel thread does once it is in the kernel.
KernelStep(c) ==
    \/ sleep(c) \/ sleep_sched(c) \/ sleep_woken(c)
    \/ usertrap_killed(c, "ret") \/ prepare_return(c)
    \/ fork_parent(c) \/ fork_run(c)
    \/ kexit(c) \/ exit_zombie(c) \/ exit_sched(c)
    \/ kwait(c) \/ pause_check(c)

UserStep(c) ==
    \/ usertrap_killed(c, "user") \/ usertrap_fault(c) \/ kfork(c) \/ kfork_fails(c) \/ sys_exit(c)
    \/ sys_wait(c) \/ kkill(c) \/ sys_pause(c)

Next ==
    \E c \in Cpu :
        \/ \E p \in Slot : scheduler(c, p)
        \/ timer(c) \/ KernelStep(c) \/ UserStep(c)

Spec == Init /\ [][Next]_vars

\* The scheduler looks at every slot in every round; a pending timer interrupt
\* is taken when the CPU drops its last lock; a process that is given the CPU
\* again and again gets on in the kernel; the first program goes on waiting
\* for children.
Fairness ==
    /\ \A c \in Cpu : SF_vars(timer(c))
    /\ \A p \in Slot :
          /\ SF_vars(\E c \in Cpu : scheduler(c, p))
          /\ SF_vars(\E c \in Cpu : cur[c] = p /\ KernelStep(c))
    /\ SF_vars(\E c \in Cpu : cur[c] = initproc /\ sys_wait(c))

FairSpec == Spec /\ Fairness

-----------------------------------------------------------------------------
(* Correctness.                                                             *)

\* No two CPUs run the same process, and a process runs on a CPU only while it
\* is RUNNING or on its way out of the CPU with its lock held: nobody frees
\* a kernel stack, or hands it to a new process, while a CPU is still on it.
StackInUse ==
    \A c \in Cpu : cur[c] # None =>
        /\ pstate[cur[c]] = "RUNNING" \/ plock[cur[c]] = c
        /\ pstate[cur[c]] # "UNUSED"
        /\ \A d \in Cpu \ {c} : cur[d] # cur[c]

\* A process that is in the table and has been given a parent has one that
\* can still wait for it: exit leaves no child with a dead parent.
ParentAlive ==
    \A p \in Slot : parent[p] # None =>
        pstate[parent[p]] \notin {"UNUSED", "ZOMBIE"}

\* Nobody sleeps in wait beside a child that has exited: no wakeup is lost
\* between the scan of the table and the sleep.
NoLostChild ==
    lock["wait_lock"] = None =>
        \A p \in Slot : pstate[p] = "SLEEPING" /\ chan[p] = p =>
            \A q \in Kids(p) : pstate[q] # "ZOMBIE"

\* pause(n) of a process nobody killed returns after n ticks and not before,
\* also when ticks wraps around.
PauseLongEnough ==
    \A p \in Slot : pc[p] = "ret" /\ lk[p] = "tickslock" /\ ~killed[p] =>
        slept[p] >= pause[p][2]

\* An orphan that exits is collected by init.
OrphanReaped ==
    \A p \in Slot : (pstate[p] = "ZOMBIE" /\ parent[p] = initproc)
        ~> pstate[p] = "UNUSED"

\* A killed process in user mode exits at its next trap, the timer's if it
\* makes no call.
KilledExits ==
    \A p \in Slot :
        (killed[p] /\ pc[p] = "user" /\ pstate[p] \in {"RUNNABLE", "RUNNING"})
        ~> pstate[p] \in {"ZOMBIE", "UNUSED"}
=============================================================================
