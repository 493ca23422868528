----------------------------- MODULE ProcProofs -----------------------------
(***************************************************************************)
(* Proofs about processes, for any number of slots, CPUs and pids, and any *)
(* size of the tick counter that satisfies ProcAssumption.                 *)
(***************************************************************************)
EXTENDS Proc, TLAPS

-----------------------------------------------------------------------------
(* The inductive invariant.                                                 *)

\* Where the kernel thread of a process can be, by its state: only a process
\* on a CPU is at a point where it holds a lock.
StateInv ==
    \A p \in Slot :
        /\ pstate[p] = "UNUSED" => pc[p] \in {"user", "zombie"}
        /\ pstate[p] = "USED" => pc[p] = "user"
        /\ pstate[p] = "SLEEPING" => pc[p] = "woken"
        /\ pstate[p] = "RUNNABLE" =>
              pc[p] \in {"user", "ret", "fork_parent", "fork_run", "woken", "exit"}
        /\ pstate[p] = "RUNNING" => pc[p] # "zombie"
        /\ pstate[p] = "ZOMBIE" => pc[p] = "zombie"

\* What a CPU runs, nobody else runs; a zombie on its way out has its lock.
CpuInv ==
    \A c \in Cpu : cur[c] # None =>
        /\ \/ pstate[cur[c]] = "RUNNING"
           \/ pstate[cur[c]] = "ZOMBIE" /\ plock[cur[c]] = c
        /\ \A d \in Cpu : cur[d] = cur[c] => d = c

\* The points at which a CPU holds the lock of its process, and wait_lock or
\* tickslock.
HoldsProc(c) == cur[c] # None /\ pc[cur[c]] \in {"sched", "zombie"}
Holds(c, l) ==
    /\ cur[c] # None
    /\ \/ pc[cur[c]] \in {"check", "sleep"} /\ lk[cur[c]] = l
       \/ pc[cur[c]] = "exit_locked" /\ l = "wait_lock"

LockInv ==
    /\ \A p \in Slot, c \in Cpu : plock[p] = c <=> cur[c] = p /\ HoldsProc(c)
    /\ \A l \in LockName, c \in Cpu : lock[l] = c <=> Holds(c, l)

\* A fork in progress has a child of its own, that nobody else can touch yet.
Forking(p) == pc[p] \in {"fork_parent", "fork_run"}
ForkInv ==
    \A p \in Slot : Forking(p) =>
        /\ pstate[child[p]] = "USED"
        /\ \A q \in Slot : Forking(q) /\ child[q] = child[p] => q = p

\* The first process lives forever.
InitInv ==
    /\ pstate[initproc] \in {"RUNNABLE", "RUNNING", "SLEEPING"}
    /\ pid[initproc] = 1 /\ ~killed[initproc]
    /\ pc[initproc] \notin {"exit", "exit_locked", "zombie"}
    /\ ~panic

NoZombieKid(p) == \A q \in Slot : parent[q] = p => pstate[q] # "ZOMBIE"

\* From its last look at the table until it is woken, a process in wait has no
\* child that has exited.
WaitInv ==
    /\ \A p \in Slot : pstate[p] = "SLEEPING" /\ chan[p] = p => NoZombieKid(p)
    /\ \A c \in Cpu :
          cur[c] # None /\ pc[cur[c]] \in {"sleep", "sched"} /\ lk[cur[c]] = "wait_lock"
          => NoZombieKid(cur[c])

\* As many ticks have been counted as the subtraction of sys_pause shows, or
\* more: it is too small once ticks has come round.
Counted(p) ==
    slept[p] = MaxPause \/ slept[p] >= (ticks - pause[p][1]) % TickRange

PauseOK(p) ==
    /\ pc[p] \in {"user", "fork_parent", "fork_run", "exit_locked", "zombie"} =>
          lk[p] = "wait_lock" /\ slept[p] = 0
    /\ InPause(p) => Counted(p)
    /\ pc[p] = "ret" /\ lk[p] = "tickslock" /\ ~killed[p] => slept[p] >= pause[p][2]

PauseInv == \A p \in Slot : PauseOK(p)

IInv ==
    /\ TypeOK /\ StateInv /\ CpuInv /\ LockInv /\ ForkInv /\ InitInv
    /\ ParentAlive /\ WaitInv /\ PauseInv

\* A step of one CPU.
CpuStep(c) ==
    \/ \E p \in Slot : scheduler(c, p)
    \/ timer(c) \/ KernelStep(c) \/ UserStep(c)

-----------------------------------------------------------------------------
(* Types.                                                                   *)

\* What the proofs need to know of slots and CPUs.
LEMMA Constants ==
    /\ initproc \in Slot /\ None \notin Slot /\ None \notin Cpu
    /\ 0 \in Cpu /\ 0 \notin Slot
BY ProcAssumption DEF initproc, Slot, Cpu

\* The states and points that the actions name.
LEMMA Names ==
    /\ {"UNUSED", "USED", "SLEEPING", "RUNNABLE", "RUNNING", "ZOMBIE"} \subseteq State
    /\ {"user", "ret", "fork_parent", "fork_run", "check", "sleep", "sched", "woken",
        "exit", "exit_locked", "zombie"} \subseteq Point
    /\ "wait_lock" \in LockName /\ "tickslock" \in LockName
BY DEF State, Point, LockName

\* A thread goes on at some point of its code.
LEMMA GotoType ==
    ASSUME TypeOK!9, NEW c \in Cpu, NEW pt \in Point, Goto(c, pt)
    PROVE  TypeOK!9'
BY Zenon DEF Goto

\* Taking and leaving a loop that sleeps keep the types.
LEMMA LoopType ==
    ASSUME TypeOK!7, TypeOK!9, NEW c \in Cpu, NEW l \in LockName, Take(c, l) \/ Leave(c, l)
    PROVE  (TypeOK!7 /\ TypeOK!9)'
<1>1. lock' = [lock EXCEPT ![l] = c] \/ lock' = [lock EXCEPT ![l] = None]
  BY DEF Take, Leave
<1>2. TypeOK!7'
  BY <1>1
<1>3. Goto(c, "check") \/ Goto(c, "ret")
  BY DEF Take, Leave
<1>4. TypeOK!9'
  BY <1>3, Names, GotoType
<1> QED
  BY <1>2, <1>4

\* What is left of a call keeps its types when it is forgotten.
LEMMA ForgetType ==
    ASSUME TypeOK!10, TypeOK!14, TypeOK!15, NEW p \in Slot, ForgetCall(p)
    PROVE  (TypeOK!10 /\ TypeOK!14 /\ TypeOK!15)'
<1>1. <<0, 0>> \in (0..(TickRange - 1)) \X (0..MaxPause) /\ 0 \in 0..MaxPause
  BY ProcAssumption
<1>2. TypeOK!10'
  BY Names DEF ForgetCall
<1>3. TypeOK!14'
  BY <1>1 DEF ForgetCall
<1>4. TypeOK!15'
  BY <1>1 DEF ForgetCall
<1> QED
  BY <1>2, <1>3, <1>4

\* freeproc keeps the types of the table.
LEMMA FreeType ==
    ASSUME TypeOK, NEW q, freeproc(q)
    PROVE  (TypeOK!1 /\ TypeOK!2 /\ TypeOK!3 /\ TypeOK!4 /\ TypeOK!5)'
<1>1. TypeOK!1'
  BY Names, Zenon DEF freeproc, TypeOK
<1>2. TypeOK!2'
  <2>1. 0 \in 0..MaxPid
    BY ProcAssumption
  <2> QED
    BY <2>1, Zenon DEF freeproc, TypeOK
<1>3. TypeOK!3'
  BY Zenon DEF freeproc, TypeOK
<1>4. TypeOK!4'
  BY Zenon DEF freeproc, TypeOK
<1>5. TypeOK!5'
  BY Zenon DEF freeproc, TypeOK
<1> QED
  BY <1>1, <1>2, <1>3, <1>4, <1>5

\* Every step keeps the types.
LEMMA TypeStep ==
    ASSUME TypeOK, NEW c \in Cpu, CpuStep(c)
    PROVE  TypeOK'
<1> USE Constants, Names DEF table, locks, thread, clock
<1>0. /\ TypeOK!1 /\ TypeOK!2 /\ TypeOK!3 /\ TypeOK!4 /\ TypeOK!5 /\ TypeOK!6 /\ TypeOK!7
      /\ TypeOK!8 /\ TypeOK!9 /\ TypeOK!10 /\ TypeOK!11 /\ TypeOK!12 /\ TypeOK!13
      /\ TypeOK!14 /\ TypeOK!15 /\ TypeOK!16
  BY DEF TypeOK
<1>p. cur[c] # None => cur[c] \in Slot /\ lk[cur[c]] \in LockName /\ child[cur[c]] \in Slot
  BY <1>0
<1>1. ASSUME NEW p \in Slot, scheduler(c, p) PROVE TypeOK'
  <2>1. (TypeOK!1 /\ TypeOK!5 /\ TypeOK!8)'
    BY <1>0, <1>1 DEF scheduler
  <2>2. UNCHANGED <<pid, parent, killed, locks, thread, nextpid, clock, panic>>
    BY <1>1 DEF scheduler
  <2> QED
    BY <1>0, <2>1, <2>2 DEF TypeOK
<1>2. CASE timer(c)
  <2>1. ticks' \in 0..(TickRange - 1)
    BY <1>0, <1>2, ProcAssumption DEF timer, clockintr
  <2>2. slept' \in [Slot -> 0..MaxPause]
    <3>1. \A q \in Slot : slept[q] < MaxPause => slept[q] + 1 \in 0..MaxPause
      BY <1>0, ProcAssumption
    <3> QED
      BY <1>0, <1>2, <3>1 DEF timer, clockintr
  <2> DEFINE st == IF c = 0 THEN Woken(0) ELSE pstate
  <2>3. st \in [Slot -> State]
    BY <1>0 DEF Woken
  <2>4. \/ pstate' = st /\ UNCHANGED <<cur, pc>>
        \/ pstate' = st /\ Goto(c, "exit") /\ UNCHANGED cur
        \/ /\ pstate' = [st EXCEPT ![cur[c]] = "RUNNABLE"]
           /\ cur' = [cur EXCEPT ![c] = None] /\ UNCHANGED pc
    BY <1>2 DEF timer, yield
  <2> HIDE DEF st
  <2>5. (TypeOK!1 /\ TypeOK!8)'
    <3>1. TypeOK!1'
      BY <2>3, <2>4
    <3>2. TypeOK!8'
      <4>1. cur' = cur \/ cur' = [cur EXCEPT ![c] = None]
        BY <2>4
      <4> QED
        BY <1>0, <4>1
    <3> QED
      BY <3>1, <3>2
  <2>6. TypeOK!9'
    BY <1>0, <2>4, GotoType
  <2>7. UNCHANGED <<pid, parent, killed, chan, locks, lk, child, nextpid, pause, panic>>
    BY <1>2 DEF timer
  <2> QED
    BY <1>0, <2>1, <2>2, <2>5, <2>6, <2>7 DEF TypeOK
<1>3. CASE sleep(c)
  <2>1. (TypeOK!6 /\ TypeOK!7)'
    BY <1>0, <1>3, Zenon DEF sleep
  <2>2. TypeOK!9'
    BY <1>0, <1>3, GotoType DEF sleep
  <2>3. UNCHANGED <<table, cur, lk, child, nextpid, clock, panic>>
    BY <1>3 DEF sleep
  <2> QED
    BY <1>0, <2>1, <2>2, <2>3 DEF TypeOK
<1>4. CASE sleep_woken(c) \/ sys_wait(c)
  <2>1. (TypeOK!7 /\ TypeOK!9)'
    BY <1>0, <1>p, <1>4, LoopType DEF sleep_woken, sys_wait, At
  <2>2. UNCHANGED <<table, plock, cur, lk, child, nextpid, clock, panic>>
    BY <1>4 DEF sleep_woken, sys_wait
  <2> QED
    BY <1>0, <2>1, <2>2 DEF TypeOK
<1>5. CASE \/ \E pt \in {"ret", "user"} : usertrap_killed(c, pt)
           \/ kfork_fails(c) \/ sys_exit(c)
  <2>1. /\ Goto(c, "exit") \/ Goto(c, "ret")
        /\ UNCHANGED <<table, locks, cur, lk, child, nextpid, clock, panic>>
    BY <1>5 DEF usertrap_killed, kfork_fails, sys_exit
  <2>2. TypeOK!9'
    BY <1>0, <2>1, GotoType
  <2> QED
    BY <1>0, <2>1, <2>2 DEF TypeOK
<1>6. CASE Panic
  <2>1. panic' \in BOOLEAN /\ UNCHANGED <<table, locks, cur, thread, nextpid, clock>>
    BY <1>6 DEF Panic
  <2> QED
    BY <1>0, <2>1 DEF TypeOK
<1>7. CASE sleep_sched(c) /\ ~Panic
  <2>1. /\ cur[c] \in Slot /\ sched(c, cur[c]) /\ Goto(c, "woken")
        /\ \E ch \in Slot \cup {0, None} : chan' = [chan EXCEPT ![cur[c]] = ch]
        /\ pstate' = [pstate EXCEPT ![cur[c]] = "SLEEPING"]
        /\ UNCHANGED <<pid, parent, killed, lock, lk, child, nextpid, clock, panic>>
    BY <1>p, <1>7 DEF sleep_sched, At
  <2>2. (TypeOK!1 /\ TypeOK!5)'
    BY <1>0, <2>1
  <2>3. (TypeOK!6 /\ TypeOK!8)'
    BY <1>0, <2>1 DEF sched
  <2>4. TypeOK!9'
    BY <1>0, <2>1, GotoType
  <2> QED
    BY <1>0, <2>1, <2>2, <2>3, <2>4 DEF TypeOK
<1>8. CASE prepare_return(c)
  <2>1. /\ cur[c] \in Slot /\ Goto(c, "user") /\ ForgetCall(cur[c])
        /\ UNCHANGED <<table, locks, cur, child, nextpid, ticks, panic>>
    BY <1>p, <1>8 DEF prepare_return, At
  <2>2. (TypeOK!9 /\ TypeOK!10 /\ TypeOK!14 /\ TypeOK!15)'
    BY <1>0, <2>1, GotoType, ForgetType
  <2> QED
    BY <1>0, <2>1, <2>2 DEF TypeOK
<1>9. CASE kexit(c) /\ ~Panic
  <2>1. /\ cur[c] \in Slot /\ Goto(c, "exit_locked") /\ ForgetCall(cur[c])
        /\ lock' = [lock EXCEPT !["wait_lock"] = c]
        /\ UNCHANGED <<table, plock, cur, child, nextpid, ticks, panic>>
    BY <1>p, <1>9 DEF kexit, At
  <2>2. (TypeOK!9 /\ TypeOK!10 /\ TypeOK!14 /\ TypeOK!15)'
    BY <1>0, <2>1, GotoType, ForgetType
  <2>3. TypeOK!7'
    BY <1>0, <2>1
  <2> QED
    BY <1>0, <2>1, <2>2, <2>3 DEF TypeOK
<1>10. CASE fork_parent(c)
  <2>1. TypeOK!3'
    BY <1>0, <1>p, <1>10 DEF fork_parent, At
  <2>2. TypeOK!9'
    BY <1>0, <1>10, GotoType DEF fork_parent
  <2>3. UNCHANGED <<pstate, pid, killed, chan, locks, cur, lk, child, nextpid, clock, panic>>
    BY <1>10 DEF fork_parent
  <2> QED
    BY <1>0, <2>1, <2>2, <2>3 DEF TypeOK
<1>11. CASE fork_run(c)
  <2>1. (TypeOK!1 /\ TypeOK!11)'
    BY <1>0, <1>11, Zenon DEF fork_run
  <2>2. TypeOK!9'
    BY <1>0, <1>11, GotoType DEF fork_run
  <2>3. UNCHANGED <<pid, parent, killed, chan, locks, cur, lk, nextpid, clock, panic>>
    BY <1>11 DEF fork_run
  <2> QED
    BY <1>0, <2>1, <2>2, <2>3 DEF TypeOK
<1>12. CASE exit_zombie(c)
  <2>1. TypeOK!1'
    <3>1. WokenByExit(cur[c]) \in [Slot -> State]
      BY <1>0 DEF WokenByExit, Woken
    <3> QED
      BY <1>12, <3>1, Zenon DEF exit_zombie
  <2>2. TypeOK!3'
    BY <1>0, <1>12 DEF exit_zombie, reparent
  <2>3. (TypeOK!6 /\ TypeOK!7)'
    BY <1>0, <1>12, Zenon DEF exit_zombie
  <2>4. TypeOK!9'
    BY <1>0, <1>12, GotoType DEF exit_zombie
  <2>5. UNCHANGED <<pid, killed, chan, cur, lk, child, nextpid, clock, panic>>
    BY <1>12 DEF exit_zombie
  <2> QED
    BY <1>0, <2>1, <2>2, <2>3, <2>4, <2>5 DEF TypeOK
<1>13. CASE exit_sched(c) /\ ~Panic
  <2>1. sched(c, cur[c]) /\ UNCHANGED <<table, lock, thread, nextpid, clock, panic>>
    BY <1>13 DEF exit_sched
  <2>2. (TypeOK!6 /\ TypeOK!8)'
    BY <1>0, <2>1, Zenon DEF sched
  <2> QED
    BY <1>0, <2>1, <2>2 DEF TypeOK
<1>14. CASE kwait(c) \/ pause_check(c)
  <2>1. /\ \/ \E q : freeproc(q)
           \/ UNCHANGED table
        /\ \/ \E l \in LockName : Leave(c, l)
           \/ Goto(c, "sleep") /\ UNCHANGED lock
        /\ UNCHANGED <<plock, cur, lk, child, nextpid, clock, panic>>
    BY <1>14, Zenon DEF kwait, pause_check
  <2>2. (TypeOK!1 /\ TypeOK!2 /\ TypeOK!3 /\ TypeOK!4 /\ TypeOK!5)'
    BY <1>0, <2>1, FreeType
  <2>3. (TypeOK!7 /\ TypeOK!9)'
    BY <1>0, <2>1, LoopType, GotoType
  <2> QED
    BY <1>0, <2>1, <2>2, <2>3 DEF TypeOK
<1>15. CASE usertrap_fault(c)
  <2>1. TypeOK!4'
    BY <1>0, <1>15, Zenon DEF usertrap_fault, setkilled
  <2>2. TypeOK!9'
    BY <1>0, <1>15, GotoType DEF usertrap_fault
  <2>3. UNCHANGED <<pstate, pid, parent, chan, locks, cur, lk, child, nextpid, clock, panic>>
    BY <1>15 DEF usertrap_fault
  <2> QED
    BY <1>0, <2>1, <2>2, <2>3 DEF TypeOK
<1>16. CASE kfork(c)
  <2>1. nextpid' \in 1..(MaxPid + 1) /\ nextpid \in 0..MaxPid
    BY <1>0, <1>16, ProcAssumption DEF kfork, allocpid
  <2>2. PICK np \in Slot :
          /\ pstate' = [pstate EXCEPT ![np] = "USED"]
          /\ pid' = [pid EXCEPT ![np] = nextpid]
          /\ child' = [child EXCEPT ![cur[c]] = np]
          /\ pc' = [pc EXCEPT ![cur[c]] = "fork_parent", ![np] = "user"]
    BY <1>16, Zenon DEF kfork
  <2>3. (TypeOK!1 /\ TypeOK!2)'
    BY <1>0, <2>1, <2>2
  <2>4. (TypeOK!9 /\ TypeOK!11)'
    BY <1>0, <2>2, Zenon
  <2>5. UNCHANGED <<parent, killed, chan, locks, cur, lk, clock, panic>>
    BY <1>16 DEF kfork
  <2> QED
    BY <1>0, <2>1, <2>3, <2>4, <2>5 DEF TypeOK
<1>17. CASE kkill(c)
  <2>1. \/ UNCHANGED <<pstate, killed>>
        \/ \E q \in Slot : /\ killed' = [killed EXCEPT ![q] = TRUE]
                           /\ pstate' = [pstate EXCEPT ![q] =
                                            IF @ = "SLEEPING" THEN "RUNNABLE" ELSE @]
    BY <1>17, Zenon DEF kkill
  <2>2. TypeOK!1'
    BY <1>0, <2>1
  <2>3. TypeOK!4'
    BY <1>0, <2>1, Zenon
  <2>4. TypeOK!9'
    BY <1>0, <1>17, GotoType DEF kkill
  <2>5. UNCHANGED <<pid, parent, chan, locks, cur, lk, child, nextpid, clock, panic>>
    BY <1>17 DEF kkill
  <2> QED
    BY <1>0, <2>2, <2>3, <2>4, <2>5 DEF TypeOK
<1>18. CASE sys_pause(c)
  <2>1. (TypeOK!7 /\ TypeOK!9)'
    BY <1>0, <1>18, LoopType DEF sys_pause
  <2>2. TypeOK!10'
    BY <1>0, <1>18, Zenon DEF sys_pause
  <2>4. TypeOK!14'
    <3>1. PICK n \in 0..MaxPause : pause' = [pause EXCEPT ![cur[c]] = <<ticks, n>>]
      BY <1>18, Zenon DEF sys_pause
    <3>2. <<ticks, n>> \in (0..(TickRange - 1)) \X (0..MaxPause)
      BY <1>0
    <3> QED
      BY <1>0, <3>1, <3>2, Zenon
  <2>3. UNCHANGED <<table, plock, cur, child, nextpid, ticks, slept, panic>>
    BY <1>18 DEF sys_pause
  <2> QED
    BY <1>0, <2>1, <2>2, <2>3, <2>4 DEF TypeOK
<1> QED
  BY <1>1, <1>2, <1>3, <1>4, <1>5, <1>6, <1>7, <1>8, <1>9, <1>10, <1>11, <1>12,
     <1>13, <1>14, <1>15, <1>16, <1>17, <1>18 DEF CpuStep, KernelStep, UserStep

-----------------------------------------------------------------------------
(* States, CPUs and locks.                                                  *)

\* A process that takes a step is RUNNING, unless it is on its way out.
LEMMA Running ==
    ASSUME TypeOK, StateInv, CpuInv, NEW c \in Cpu, cur[c] # None, pc[cur[c]] # "zombie"
    PROVE  cur[c] \in Slot /\ pstate[cur[c]] = "RUNNING"
BY DEF TypeOK, StateInv, CpuInv

\* The timer interrupts a process only where it holds no lock.
LEMMA Interruptible ==
    ASSUME TypeOK, LockInv, NEW c \in Cpu, ProcLocks(c) = {}, OtherLocks(c) = {},
           cur[c] # None
    PROVE  /\ cur[c] \in Slot
           /\ pc[cur[c]] \in {"user", "ret", "fork_parent", "fork_run", "woken", "exit"}
<1>1. /\ \A p \in Slot : plock[p] # c
      /\ \A l \in LockName : lock[l] # c
  BY DEF ProcLocks, OtherLocks
<1>2. cur[c] \in Slot /\ lk[cur[c]] \in LockName /\ "wait_lock" \in LockName
  BY DEF TypeOK, LockName
<1>3. ~HoldsProc(c) /\ \A l \in LockName : ~Holds(c, l)
  BY <1>1, <1>2 DEF LockInv
<1> QED
  BY <1>2, <1>3 DEF HoldsProc, Holds, TypeOK, Point

\* What wakeup does to the table: sleepers become RUNNABLE.
WakesOnly(st) ==
    /\ st = [q \in Slot |-> st[q]]
    /\ \A q \in Slot : \/ st[q] = pstate[q]
                       \/ pstate[q] = "SLEEPING" /\ st[q] = "RUNNABLE"

\* wakeup, and the two wakeups of exit, change only sleepers.
LEMMA WakeupEffect ==
    ASSUME TypeOK
    PROVE  /\ WakesOnly(pstate)
           /\ \A ch : WakesOnly(Woken(ch))
           /\ \A p : WakesOnly(WokenByExit(p))
BY DEF TypeOK, WakesOnly, Woken, WokenByExit

\* The ways a timer interrupt can end, in the table st: the CPU was idle; a
\* killed process leaves user mode to exit; or the process yields.
TimerEnds(c, st) ==
    \/ cur[c] = None /\ pstate' = st /\ UNCHANGED <<cur, pc>>
    \/ /\ cur[c] \in Slot /\ st[cur[c]] = "RUNNING"
       /\ pc[cur[c]] = "user" /\ killed[cur[c]]
       /\ pstate' = st /\ Goto(c, "exit") /\ UNCHANGED cur
    \/ /\ cur[c] \in Slot /\ st[cur[c]] = "RUNNING"
       /\ pc[cur[c]] \in {"user", "ret", "fork_parent", "fork_run", "woken", "exit"}
       /\ pstate' = [st EXCEPT ![cur[c]] = "RUNNABLE"]
       /\ cur' = [cur EXCEPT ![c] = None]
       /\ UNCHANGED pc

\* The timer wakes sleepers, and takes the process it interrupts at a point
\* where that process holds no lock.
LEMMA TimerEffect ==
    ASSUME TypeOK, StateInv, CpuInv, LockInv, NEW c \in Cpu, timer(c)
    PROVE  \E st : WakesOnly(st) /\ TimerEnds(c, st)
<1> DEFINE st == IF c = 0 THEN Woken(0) ELSE pstate
<1>1. WakesOnly(st)
  BY WakeupEffect
<1>2. CASE cur[c] = None
  BY <1>1, <1>2, SMTT(40) DEF timer, TimerEnds
<1>3. CASE cur[c] # None
  <2>1. /\ cur[c] \in Slot /\ pstate[cur[c]] = "RUNNING"
        /\ pc[cur[c]] \in {"user", "ret", "fork_parent", "fork_run", "woken", "exit"}
    BY <1>3, Interruptible, Running DEF timer
  <2>2. st[cur[c]] = "RUNNING"
    BY <1>1, <2>1 DEF WakesOnly
  <2>3. \/ LeavesUser(cur[c]) /\ pstate' = st /\ Goto(c, "exit") /\ UNCHANGED cur
        \/ yield(c, st) /\ UNCHANGED pc
    BY <1>3, SMTT(40) DEF timer
  <2> QED
    BY <1>1, <2>1, <2>2, <2>3, SMTT(40) DEF LeavesUser, yield, TimerEnds
<1> QED
  BY <1>2, <1>3

\* wait frees a child that has exited and whose lock nobody holds, or nothing.
LEMMA WaitEffect ==
    ASSUME TypeOK, StateInv, CpuInv, NEW c \in Cpu, kwait(c)
    PROVE  /\ cur[c] \in Slot /\ pstate[cur[c]] = "RUNNING"
           /\ pc[cur[c]] = "check" /\ lk[cur[c]] = "wait_lock"
           /\ \/ \E q \in Slot : /\ pstate[q] = "ZOMBIE" /\ plock[q] = None
                                 /\ freeproc(q) /\ Leave(c, "wait_lock")
              \/ UNCHANGED table /\ Leave(c, "wait_lock")
              \/ /\ UNCHANGED <<table, lock>> /\ Goto(c, "sleep")
                 /\ \A q \in Slot : parent[q] = cur[c] => pstate[q] # "ZOMBIE"
           /\ UNCHANGED <<plock, cur, lk, child, nextpid, clock, panic>>
<1> DEFINE zombies == {q \in Kids(cur[c]) : pstate[q] = "ZOMBIE"}
<1>1. cur[c] \in Slot /\ pstate[cur[c]] = "RUNNING"
  BY Running DEF kwait, At
<1>2. \A q \in zombies : q \in Slot /\ pstate[q] = "ZOMBIE" /\ plock[q] = None
  BY DEF kwait, Kids, MayInspect
<1>3. zombies = {} => \A q \in Slot : parent[q] = cur[c] => pstate[q] # "ZOMBIE"
  BY Zenon DEF Kids
<1> QED
  BY <1>1, <1>2, <1>3, Zenon DEF kwait, At

\* kill wakes the process it finds, which is not the first one.
LEMMA KillEffect ==
    ASSUME TypeOK, InitInv, NEW c \in Cpu, kkill(c)
    PROVE  /\ WakesOnly(pstate')
           /\ killed'[initproc] = killed[initproc]
           /\ \A q \in Slot : killed[q] => killed'[q]
           /\ UNCHANGED chan /\ Goto(c, "ret")
<1>1. PICK n \in (0..MaxPid) \ {1} :
        LET found == {q \in Slot : pid[q] = n} IN
        IF found = {} THEN UNCHANGED <<pstate, killed>>
        ELSE \E q \in found :
             /\ killed' = [killed EXCEPT ![q] = TRUE]
             /\ pstate' = [pstate EXCEPT ![q] = IF @ = "SLEEPING" THEN "RUNNABLE" ELSE @]
  BY Zenon DEF kkill
<1>2. CASE UNCHANGED <<pstate, killed>>
  BY <1>2, WakeupEffect DEF kkill
<1>3. ASSUME NEW q \in Slot, q # initproc,
             killed' = [killed EXCEPT ![q] = TRUE],
             pstate' = [pstate EXCEPT ![q] = IF @ = "SLEEPING" THEN "RUNNABLE" ELSE @]
      PROVE  /\ WakesOnly(pstate')
             /\ killed'[initproc] = killed[initproc]
             /\ \A r \in Slot : killed[r] => killed'[r]
  <2>1. WakesOnly(pstate')
    BY <1>3, Zenon DEF TypeOK, WakesOnly
  <2>2. /\ killed'[initproc] = killed[initproc]
        /\ \A r \in Slot : killed[r] => killed'[r]
    BY <1>3, Constants, Zenon DEF TypeOK
  <2> QED
    BY <2>1, <2>2
<1>4. \A q \in Slot : pid[q] = n => q # initproc
  BY <1>1, Constants DEF InitInv
<1> QED
  BY <1>1, <1>2, <1>3, <1>4 DEF kkill

\* sched finds what it insists on: p->lock held, and no other lock.
LEMMA MaySchedHolds ==
    ASSUME TypeOK, CpuInv, LockInv, NEW c \in Cpu, cur[c] # None,
           pc[cur[c]] \in {"sched", "zombie"}
    PROVE  cur[c] \in Slot /\ MaySched(c, cur[c])
<1>1. cur[c] \in Slot /\ HoldsProc(c)
  BY DEF TypeOK, HoldsProc
<1>2. \A q \in Slot : plock[q] = c <=> q = cur[c]
  BY <1>1 DEF LockInv
<1>3. \A l \in LockName : lock[l] # c
  BY DEF LockInv, Holds
<1> QED
  BY <1>1, <1>2, <1>3 DEF MaySched, ProcLocks, OtherLocks

\* Every step takes a process where its state lets it be.
LEMMA StateStep ==
    ASSUME IInv, NEW c \in Cpu, CpuStep(c)
    PROVE  StateInv'
<1> USE Constants DEF table, locks, thread, clock
<1>0. TypeOK /\ StateInv /\ CpuInv /\ LockInv
  BY DEF IInv
<1>t. TypeOK!1 /\ TypeOK!8 /\ TypeOK!9 /\ TypeOK!11
  BY <1>0 DEF TypeOK
<1>1. ASSUME NEW p \in Slot, scheduler(c, p) PROVE StateInv'
  BY <1>0, <1>t, <1>1 DEF scheduler, StateInv
<1>2. CASE timer(c)
  <2>1. PICK st : WakesOnly(st) /\ TimerEnds(c, st)
    BY <1>0, <1>2, TimerEffect
  <2>2. CASE UNCHANGED pc /\ pstate' = st
    BY <1>0, <2>1, <2>2 DEF WakesOnly, StateInv
  <2>3. CASE cur[c] \in Slot /\ st[cur[c]] = "RUNNING" /\ pstate' = st /\ Goto(c, "exit")
    BY <1>0, <1>t, <2>1, <2>3 DEF WakesOnly, Goto, StateInv
  <2>4. CASE /\ cur[c] \in Slot
             /\ pc[cur[c]] \in {"user", "ret", "fork_parent", "fork_run", "woken", "exit"}
             /\ pstate' = [st EXCEPT ![cur[c]] = "RUNNABLE"] /\ UNCHANGED pc
    BY <1>0, <2>1, <2>4 DEF WakesOnly, StateInv
  <2> QED
    BY <2>1, <2>2, <2>3, <2>4 DEF TimerEnds
<1>3. CASE sleep(c) \/ sleep_woken(c) \/ (\E pt \in {"ret", "user"} : usertrap_killed(c, pt))
  BY <1>0, <1>t, <1>3, Running
     DEF sleep, sleep_woken, usertrap_killed, At, Take, Goto, StateInv
<1>4. CASE sleep_sched(c)
  BY <1>0, <1>t, <1>4, MaySchedHolds DEF sleep_sched, At, Goto, StateInv
<1>5. CASE prepare_return(c) \/ kexit(c)
  BY <1>0, <1>t, <1>5, Running DEF prepare_return, kexit, At, Panic, Goto, StateInv
<1>6. CASE fork_parent(c)
  BY <1>0, <1>t, <1>6, Running DEF fork_parent, At, Goto, StateInv
<1>7. CASE fork_run(c)
  <2>1. /\ cur[c] \in Slot /\ child[cur[c]] \in Slot /\ pstate[cur[c]] = "RUNNING"
        /\ pstate[child[cur[c]]] = "USED"
    BY <1>0, <1>t, <1>7, Running DEF IInv, ForkInv, Forking, fork_run, At
  <2> QED
    BY <1>0, <1>t, <1>7, <2>1 DEF fork_run, Goto, StateInv
<1>8. CASE exit_zombie(c)
  <2>1. cur[c] \in Slot /\ pstate[cur[c]] = "RUNNING"
    BY <1>0, <1>8, Running DEF exit_zombie, At
  <2>2. WakesOnly(WokenByExit(cur[c]))
    BY <1>0, WakeupEffect
  <2> QED
    BY <1>0, <1>t, <1>8, <2>1, <2>2 DEF exit_zombie, WakesOnly, Goto, StateInv
<1>9. CASE exit_sched(c)
  BY <1>0, <1>9 DEF exit_sched, Panic, StateInv
<1>10. CASE kwait(c)
  <2>1. cur[c] \in Slot /\ pstate[cur[c]] = "RUNNING"
    BY <1>0, <1>10, WaitEffect
  <2>2. ASSUME NEW q \in Slot, pstate[q] = "ZOMBIE", freeproc(q), Leave(c, "wait_lock")
        PROVE  StateInv'
    BY <1>0, <1>t, <2>1, <2>2 DEF freeproc, Leave, Goto, StateInv
  <2>3. ASSUME UNCHANGED table, Leave(c, "wait_lock") \/ Goto(c, "sleep")
        PROVE  StateInv'
    BY <1>0, <1>t, <2>1, <2>3 DEF Leave, Goto, StateInv
  <2> QED
    BY <1>0, <1>10, <2>2, <2>3, WaitEffect
<1>11. CASE pause_check(c)
  BY <1>0, <1>t, <1>11, Running DEF pause_check, At, Leave, Goto, StateInv
<1>12. CASE usertrap_fault(c)
  BY <1>0, <1>t, <1>12, Running, ZenonT(40) DEF usertrap_fault, At, Goto, StateInv
<1>13. CASE kfork(c)
  BY <1>0, <1>t, <1>13, Running DEF kfork, Syscall, At, StateInv
<1>14. CASE kfork_fails(c) \/ sys_exit(c) \/ sys_wait(c)
  BY <1>0, <1>t, <1>14, Running
     DEF kfork_fails, sys_exit, sys_wait, Take, Syscall, At, Goto, StateInv
<1>15. CASE kkill(c)
  <2>1. cur[c] \in Slot /\ pstate[cur[c]] = "RUNNING"
    BY <1>0, <1>15, Running, Zenon DEF kkill, Syscall, At
  <2>2. WakesOnly(pstate') /\ Goto(c, "ret")
    BY <1>0, <1>15, KillEffect DEF IInv
  <2> QED
    BY <1>0, <1>t, <2>1, <2>2 DEF WakesOnly, Goto, StateInv
<1>16. CASE sys_pause(c)
  BY <1>0, <1>t, <1>16, Running DEF sys_pause, Take, Syscall, At, Goto, StateInv
<1> QED
  BY <1>1, <1>2, <1>3, <1>4, <1>5, <1>6, <1>7, <1>8, <1>9, <1>10, <1>11, <1>12,
     <1>13, <1>14, <1>15, <1>16 DEF CpuStep, KernelStep, UserStep

\* No step puts a process on two CPUs, or changes the state of one that runs
\* under its feet: a zombie is freed only after it has left its CPU.
LEMMA CpuInvStep ==
    ASSUME IInv, NEW c \in Cpu, CpuStep(c)
    PROVE  CpuInv'
<1> USE Constants DEF table, locks, thread, clock
<1>0. TypeOK /\ StateInv /\ CpuInv /\ LockInv
  BY DEF IInv
<1>t. TypeOK!1 /\ TypeOK!6 /\ TypeOK!8 /\ TypeOK!11
  BY <1>0 DEF TypeOK
<1>1. ASSUME NEW p \in Slot, scheduler(c, p) PROVE CpuInv'
  BY <1>0, <1>t, <1>1 DEF scheduler, CpuInv
<1>2. CASE timer(c)
  <2>1. UNCHANGED plock
    BY <1>2 DEF timer
  <2> QED
    BY <1>0, <1>t, <1>2, <2>1, TimerEffect DEF WakesOnly, TimerEnds, CpuInv
<1>3. CASE sleep(c)
  BY <1>0, <1>t, <1>3, Running DEF sleep, At, CpuInv
<1>4. CASE sleep_sched(c)
  <2>1. cur[c] \in Slot /\ MaySched(c, cur[c])
    BY <1>0, <1>4, MaySchedHolds DEF sleep_sched, At
  <2>2. /\ cur' = [cur EXCEPT ![c] = None]
        /\ pstate' = [pstate EXCEPT ![cur[c]] = "SLEEPING"]
        /\ plock' = [plock EXCEPT ![cur[c]] = None]
    BY <1>4, <2>1 DEF sleep_sched, sched
  <2> QED
    BY <1>0, <1>t, <2>1, <2>2 DEF CpuInv
<1>5. CASE \/ sleep_woken(c) \/ (\E pt \in {"ret", "user"} : usertrap_killed(c, pt))
           \/ prepare_return(c) \/ kexit(c) \/ fork_parent(c) \/ pause_check(c)
           \/ usertrap_fault(c) \/ kfork_fails(c) \/ sys_exit(c) \/ sys_wait(c) \/ sys_pause(c)
  <2>1. UNCHANGED <<pstate, plock, cur>>
    BY <1>5, Zenon DEF sleep_woken, usertrap_killed, prepare_return, kexit, Panic, fork_parent,
       pause_check, usertrap_fault, kfork_fails, sys_exit, sys_wait, sys_pause
  <2> QED
    BY <1>0, <2>1, Zenon DEF CpuInv
<1>6. CASE fork_run(c)
  <2>1. child[cur[c]] \in Slot /\ pstate[child[cur[c]]] = "USED"
    BY <1>0, <1>t, <1>6 DEF IInv, ForkInv, Forking, fork_run, At
  <2> QED
    BY <1>0, <1>t, <1>6, <2>1 DEF fork_run, CpuInv
<1>7. CASE exit_zombie(c)
  <2>1. cur[c] \in Slot /\ pstate[cur[c]] = "RUNNING"
    BY <1>0, <1>7, Running DEF exit_zombie, At
  <2>2. WakesOnly(WokenByExit(cur[c]))
    BY <1>0, WakeupEffect
  <2> QED
    BY <1>0, <1>t, <1>7, <2>1, <2>2 DEF exit_zombie, WakesOnly, CpuInv
<1>8. CASE exit_sched(c)
  <2>1. cur[c] \in Slot /\ MaySched(c, cur[c])
    BY <1>0, <1>8, MaySchedHolds DEF exit_sched, At
  <2>2. /\ cur' = [cur EXCEPT ![c] = None] /\ UNCHANGED pstate
        /\ plock' = [plock EXCEPT ![cur[c]] = None]
    BY <1>8, <2>1 DEF exit_sched, sched
  <2> QED
    BY <1>0, <1>t, <2>1, <2>2 DEF CpuInv
<1>9. CASE kwait(c)
  <2>1. ASSUME NEW q \in Slot, pstate[q] = "ZOMBIE", plock[q] = None, freeproc(q)
        PROVE  \A d \in Cpu : cur[d] # q
    BY <1>0, <2>1 DEF CpuInv
  <2>2. UNCHANGED <<cur, plock>>
    BY <1>9 DEF kwait
  <2>3. CASE UNCHANGED pstate
    BY <1>0, <2>2, <2>3 DEF CpuInv
  <2>4. ASSUME NEW q \in Slot, pstate[q] = "ZOMBIE", plock[q] = None, freeproc(q)
        PROVE  CpuInv'
    BY <1>0, <1>t, <2>1, <2>2, <2>4 DEF freeproc, CpuInv
  <2> QED
    BY <1>0, <1>9, <2>3, <2>4, WaitEffect
<1>10. CASE kfork(c)
  BY <1>0, <1>t, <1>10 DEF kfork, CpuInv
<1>11. CASE kkill(c)
  <2>1. WakesOnly(pstate') /\ UNCHANGED <<cur, plock>>
    BY <1>0, <1>11, KillEffect, SMTT(40) DEF IInv, kkill
  <2> QED
    BY <1>0, <1>t, <2>1 DEF WakesOnly, CpuInv
<1> QED
  BY <1>1, <1>2, <1>3, <1>4, <1>5, <1>6, <1>7, <1>8, <1>9, <1>10, <1>11
     DEF CpuStep, KernelStep, UserStep

\* It is enough to look at the locks of the CPU that takes the step.
LEMMA LockFrame ==
    ASSUME TypeOK, LockInv, NEW c \in Cpu,
           \A d \in Cpu \ {c} :
              /\ cur'[d] = cur[d]
              /\ cur[d] # None => pc'[cur[d]] = pc[cur[d]] /\ lk'[cur[d]] = lk[cur[d]],
           \A p \in Slot : /\ plock'[p] = c <=> cur'[c] = p /\ HoldsProc(c)'
                           /\ \A d \in Cpu \ {c} : plock'[p] = d <=> plock[p] = d,
           \A l \in LockName : /\ lock'[l] = c <=> Holds(c, l)'
                               /\ \A d \in Cpu \ {c} : lock'[l] = d <=> lock[l] = d
    PROVE  LockInv'
<1>1. ASSUME NEW d \in Cpu \ {c}
      PROVE  /\ HoldsProc(d)' <=> HoldsProc(d)
             /\ \A l \in LockName : Holds(d, l)' <=> Holds(d, l)
  <2>1. cur'[d] = cur[d]
    BY Zenon
  <2>2. CASE cur[d] = None
    BY <2>1, <2>2, Zenon DEF Holds, HoldsProc
  <2>3. CASE cur[d] # None
    <3>1. pc'[cur[d]] = pc[cur[d]] /\ lk'[cur[d]] = lk[cur[d]]
      BY <2>3, Zenon
    <3> QED
      BY <2>1, <3>1, Zenon DEF Holds, HoldsProc
  <2> QED
    BY <2>2, <2>3, Zenon
<1>2. ASSUME NEW p \in Slot, NEW d \in Cpu
      PROVE  plock'[p] = d <=> cur'[d] = p /\ HoldsProc(d)'
  <2>1. CASE d = c
    BY <2>1, Zenon
  <2>2. CASE d # c
    <3>1. /\ cur'[d] = cur[d] /\ (HoldsProc(d)' <=> HoldsProc(d))
          /\ (plock'[p] = d <=> plock[p] = d)
      BY <2>2, <1>1, Zenon
    <3>2. plock[p] = d <=> cur[d] = p /\ HoldsProc(d)
      BY Zenon DEF LockInv
    <3> QED
      BY <3>1, <3>2, Zenon
  <2> QED
    BY <2>1, <2>2, Zenon
<1>3. ASSUME NEW l \in LockName, NEW d \in Cpu
      PROVE  lock'[l] = d <=> Holds(d, l)'
  <2>1. CASE d = c
    BY <2>1, Zenon
  <2>2. CASE d # c
    <3>1. (Holds(d, l)' <=> Holds(d, l)) /\ (lock'[l] = d <=> lock[l] = d)
      <4>1. Holds(d, l)' <=> Holds(d, l)
        BY <2>2, <1>1, Zenon
      <4>2. lock'[l] = d <=> lock[l] = d
        BY <2>2, ZenonT(40)
      <4> QED
        BY <4>1, <4>2, Zenon
    <3>2. lock[l] = d <=> Holds(d, l)
      BY Zenon DEF LockInv
    <3> QED
      BY <3>1, <3>2, Zenon
  <2> QED
    BY <2>1, <2>2, Zenon
<1> QED
  BY <1>2, <1>3, ZenonT(40) DEF LockInv

\* A process goes from one point to another, and holds no lock at either.
LEMMA LockStill ==
    ASSUME TypeOK, CpuInv, LockInv, NEW c \in Cpu, cur[c] \in Slot,
           UNCHANGED <<plock, lock, cur, lk>>,
           NEW pt \in {"user", "ret", "fork_parent", "fork_run", "woken", "exit"},
           pc[cur[c]] \in {"user", "ret", "fork_parent", "fork_run", "woken", "exit"},
           \A p \in Slot :
              pc'[p] = IF p = cur[c] THEN pt
                       ELSE IF pstate[p] = "UNUSED" THEN pc'[p] ELSE pc[p]
    PROVE  LockInv'
<1>1. \A d \in Cpu \ {c} :
        cur[d] # None => cur[d] \in Slot /\ cur[d] # cur[c] /\ pstate[cur[d]] # "UNUSED"
  <2>1. cur \in [Cpu -> Slot \cup {None}]
    BY Zenon DEF TypeOK
  <2>2. \A d \in Cpu \ {c} : cur[d] # None => cur[d] # cur[c] /\ pstate[cur[d]] \in {"RUNNING", "ZOMBIE"}
    BY <2>1 DEF CpuInv
  <2> QED
    BY <2>1, <2>2, ZenonT(40)
<1>2. pc'[cur[c]] = pt /\ ~HoldsProc(c) /\ \A l \in LockName : ~Holds(c, l)
  BY DEF HoldsProc, Holds
<1>3. ~HoldsProc(c)' /\ \A l \in LockName : ~Holds(c, l)'
  BY <1>2 DEF HoldsProc, Holds
<1>4. \A d \in Cpu \ {c} :
        /\ cur'[d] = cur[d]
        /\ cur[d] # None => pc'[cur[d]] = pc[cur[d]] /\ lk'[cur[d]] = lk[cur[d]]
  BY <1>1
<1>5. \A p \in Slot : /\ plock'[p] = c <=> cur'[c] = p /\ HoldsProc(c)'
                     /\ \A d \in Cpu \ {c} : plock'[p] = d <=> plock[p] = d
  BY <1>2, <1>3, Zenon DEF LockInv
<1>6. \A l \in LockName : /\ lock'[l] = c <=> Holds(c, l)'
                         /\ \A d \in Cpu \ {c} : lock'[l] = d <=> lock[l] = d
  BY <1>2, <1>3, Zenon DEF LockInv
<1> QED
  BY <1>4, <1>5, <1>6, LockFrame, Zenon

\* A process that holds no lock takes one.
LEMMA LockTake ==
    ASSUME TypeOK, CpuInv, LockInv, NEW c \in Cpu, cur[c] \in Slot,
           pc[cur[c]] \in {"user", "woken", "exit"},
           NEW l \in LockName, lock[l] = None, lock' = [lock EXCEPT ![l] = c],
           \/ Goto(c, "check")
           \/ Goto(c, "exit_locked") /\ l = "wait_lock",
           lk' = [lk EXCEPT ![cur[c]] = l], UNCHANGED <<plock, cur>>
    PROVE  LockInv'
<1>t. /\ cur \in [Cpu -> Slot \cup {None}] /\ DOMAIN pc = Slot /\ DOMAIN lk = Slot
      /\ DOMAIN lock = LockName
  BY Zenon DEF TypeOK
<1>1. \A d \in Cpu \ {c} : cur[d] # None => cur[d] \in Slot /\ cur[d] # cur[c]
  BY <1>t DEF CpuInv
<1>2. \A d \in Cpu \ {c} :
        /\ cur'[d] = cur[d]
        /\ cur[d] # None => pc'[cur[d]] = pc[cur[d]] /\ lk'[cur[d]] = lk[cur[d]]
  BY <1>t, <1>1 DEF Goto
<1>3. /\ lk'[cur[c]] = l /\ cur'[c] = cur[c]
      /\ \/ pc'[cur[c]] = "check"
         \/ pc'[cur[c]] = "exit_locked" /\ l = "wait_lock"
  BY <1>t DEF Goto
<1>4. /\ ~HoldsProc(c) /\ ~HoldsProc(c)'
      /\ \A m \in LockName : ~Holds(c, m) /\ (Holds(c, m)' <=> m = l)
  <2>1. cur[c] # None
    BY Constants
  <2> QED
    BY <1>3, <2>1 DEF HoldsProc, Holds
<1>5. \A p \in Slot : /\ plock'[p] = c <=> cur'[c] = p /\ HoldsProc(c)'
                      /\ \A d \in Cpu \ {c} : plock'[p] = d <=> plock[p] = d
  BY <1>4, Zenon DEF LockInv
<1>6. \A m \in LockName : /\ lock'[m] = c <=> Holds(c, m)'
                          /\ \A d \in Cpu \ {c} : lock'[m] = d <=> lock[m] = d
  <2>1. \A m \in LockName : lock'[m] = IF m = l THEN c ELSE lock[m]
    BY <1>t, Zenon
  <2>2. \A m \in LockName : lock[m] # c
    BY <1>4, Zenon DEF LockInv
  <2>3. None \notin Cpu
    BY Constants
  <2> QED
    BY <1>4, <2>1, <2>2, <2>3
<1> QED
  BY <1>2, <1>5, <1>6, LockFrame, Zenon

\* A process that holds one of the two locks lets it go for its own p->lock.
LEMMA LockSwap ==
    ASSUME TypeOK, CpuInv, LockInv, NEW c \in Cpu, cur[c] \in Slot,
           NEW l \in LockName, Holds(c, l), pc[cur[c]] \in {"sleep", "exit_locked"},
           lock' = [lock EXCEPT ![l] = None],
           plock[cur[c]] = None, plock' = [plock EXCEPT ![cur[c]] = c],
           Goto(c, "sched") \/ Goto(c, "zombie"), UNCHANGED <<lk, cur>>
    PROVE  LockInv'
<1>t. /\ cur \in [Cpu -> Slot \cup {None}] /\ DOMAIN pc = Slot /\ DOMAIN lk = Slot
      /\ DOMAIN lock = LockName /\ DOMAIN plock = Slot /\ None \notin Cpu /\ cur[c] # None
  BY Constants, Zenon DEF TypeOK
<1>1. \A d \in Cpu \ {c} : cur[d] # None => cur[d] \in Slot /\ cur[d] # cur[c]
  BY <1>t DEF CpuInv
<1>2. \A d \in Cpu \ {c} :
        /\ cur'[d] = cur[d]
        /\ cur[d] # None => pc'[cur[d]] = pc[cur[d]] /\ lk'[cur[d]] = lk[cur[d]]
  BY <1>t, <1>1 DEF Goto
<1>3. cur'[c] = cur[c] /\ pc'[cur[c]] \in {"sched", "zombie"}
  BY <1>t DEF Goto
<1>4. HoldsProc(c)' /\ ~HoldsProc(c) /\ \A m \in LockName : ~Holds(c, m)'
  BY <1>t, <1>3, Zenon DEF HoldsProc, Holds
<1>5. \A m \in LockName : Holds(c, m) <=> m = l
  BY DEF Holds
<1>6. \A p \in Slot : /\ plock'[p] = c <=> cur'[c] = p /\ HoldsProc(c)'
                      /\ \A d \in Cpu \ {c} : plock'[p] = d <=> plock[p] = d
  <2>1. \A p \in Slot : plock'[p] = IF p = cur[c] THEN c ELSE plock[p]
    BY <1>t, Zenon
  <2>2. \A p \in Slot : plock[p] # c
    BY <1>4, Zenon DEF LockInv
  <2> QED
    BY <1>t, <1>3, <1>4, <2>1, <2>2
<1>7. \A m \in LockName : /\ lock'[m] = c <=> Holds(c, m)'
                          /\ \A d \in Cpu \ {c} : lock'[m] = d <=> lock[m] = d
  <2>1. \A m \in LockName : lock'[m] = IF m = l THEN None ELSE lock[m]
    BY <1>t, Zenon
  <2>2. \A m \in LockName : lock[m] = c <=> m = l
    BY <1>5, Zenon DEF LockInv
  <2> QED
    BY <1>t, <1>4, <2>1, <2>2
<1> QED
  BY <1>2, <1>6, <1>7, LockFrame, Zenon

\* A loop that sleeps ends, or goes on to sleep.
LEMMA LockLoop ==
    ASSUME TypeOK, CpuInv, LockInv, NEW c \in Cpu, cur[c] \in Slot, pc[cur[c]] = "check",
           NEW l \in LockName, lk[cur[c]] = l, UNCHANGED <<plock, cur, lk>>,
           Leave(c, l) \/ (UNCHANGED lock /\ Goto(c, "sleep"))
    PROVE  LockInv'
<1>t. /\ cur \in [Cpu -> Slot \cup {None}] /\ DOMAIN pc = Slot /\ DOMAIN lock = LockName
      /\ None \notin Cpu /\ cur[c] # None
  BY Constants, Zenon DEF TypeOK
<1>1. \A d \in Cpu \ {c} : cur[d] # None => cur[d] \in Slot /\ cur[d] # cur[c]
  BY <1>t DEF CpuInv
<1>2. \A d \in Cpu \ {c} :
        /\ cur'[d] = cur[d]
        /\ cur[d] # None => pc'[cur[d]] = pc[cur[d]] /\ lk'[cur[d]] = lk[cur[d]]
  BY <1>t, <1>1 DEF Leave, Goto
<1>3. ~HoldsProc(c) /\ \A m \in LockName : Holds(c, m) <=> m = l
  BY <1>t DEF HoldsProc, Holds
<1>4. \A m \in LockName : lock[m] = c <=> m = l
  BY <1>3, Zenon DEF LockInv
<1>5. ~HoldsProc(c)'
  BY <1>t DEF HoldsProc, Leave, Goto
<1>6. \A p \in Slot : /\ plock'[p] = c <=> cur'[c] = p /\ HoldsProc(c)'
                      /\ \A d \in Cpu \ {c} : plock'[p] = d <=> plock[p] = d
  BY <1>3, <1>5, Zenon DEF LockInv
<1>7. \A m \in LockName : /\ lock'[m] = c <=> Holds(c, m)'
                          /\ \A d \in Cpu \ {c} : lock'[m] = d <=> lock[m] = d
  <2>1. CASE Leave(c, l)
    <3>1. \A m \in LockName : lock'[m] = IF m = l THEN None ELSE lock[m]
      BY <1>t, <2>1, Zenon DEF Leave
    <3>2. \A m \in LockName : ~Holds(c, m)'
      BY <1>t, <2>1 DEF Holds, Leave, Goto
    <3> QED
      BY <1>t, <1>4, <3>1, <3>2
  <2>2. CASE UNCHANGED lock /\ Goto(c, "sleep")
    <3>1. \A m \in LockName : Holds(c, m)' <=> m = l
      BY <1>t, <2>2 DEF Holds, Goto
    <3> QED
      BY <1>4, <2>2, <3>1, Zenon
  <2> QED
    BY <2>1, <2>2, Zenon
<1> QED
  BY <1>2, <1>6, <1>7, LockFrame, Zenon

\* Locks are held just where the code says.
LEMMA LockStep ==
    ASSUME IInv, NEW c \in Cpu, CpuStep(c)
    PROVE  LockInv'
<1> USE Constants DEF table, locks, thread, clock
<1>0. TypeOK /\ StateInv /\ CpuInv /\ LockInv
  BY DEF IInv
<1>t. TypeOK!6 /\ TypeOK!7 /\ TypeOK!8 /\ TypeOK!9 /\ TypeOK!10
  BY <1>0 DEF TypeOK
<1>a. \A d \in Cpu \ {c} : cur[d] # None => cur[d] \in Slot /\ cur[d] # cur[c]
  BY <1>0, <1>t DEF CpuInv
<1>1. ASSUME NEW p \in Slot, scheduler(c, p) PROVE LockInv'
  <2>1. /\ UNCHANGED <<plock, lock, pc, lk>> /\ cur' = [cur EXCEPT ![c] = p]
        /\ cur[c] = None /\ pc[p] \in {"user", "ret", "fork_parent", "fork_run", "woken", "exit"}
    BY <1>0, <1>1 DEF scheduler, StateInv
  <2> QED
    BY <1>0, <1>t, <2>1 DEF LockInv, Holds, HoldsProc
<1>2. CASE timer(c)
  <2>1. PICK st : TimerEnds(c, st)
    BY <1>0, <1>2, TimerEffect
  <2>2. UNCHANGED <<plock, lock, lk>>
    BY <1>2, Zenon DEF timer
  <2>3. CASE cur[c] = None
    BY <1>0, <1>t, <2>1, <2>2, <2>3 DEF TimerEnds, LockInv, Holds, HoldsProc
  <2>4. CASE cur[c] \in Slot /\ pc[cur[c]] = "user" /\ Goto(c, "exit") /\ UNCHANGED cur
    BY <1>0, <1>t, <2>2, <2>4, LockStill DEF Goto
  <2>5. CASE /\ cur[c] \in Slot /\ cur' = [cur EXCEPT ![c] = None] /\ UNCHANGED pc
             /\ pc[cur[c]] \in {"user", "ret", "fork_parent", "fork_run", "woken", "exit"}
    BY <1>0, <1>t, <1>a, <2>2, <2>5, SMTT(40) DEF LockInv, Holds, HoldsProc
  <2> QED
    BY <2>1, <2>3, <2>4, <2>5 DEF TimerEnds
<1>3. CASE sleep(c)
  <2>1. /\ cur[c] # None /\ pc[cur[c]] = "sleep" /\ plock[cur[c]] = None
        /\ plock' = [plock EXCEPT ![cur[c]] = c]
        /\ lock' = [lock EXCEPT ![lk[cur[c]]] = None]
        /\ Goto(c, "sched") /\ UNCHANGED <<lk, cur>>
    BY <1>3, Zenon DEF sleep, At
  <2>2. cur[c] \in Slot /\ lk[cur[c]] \in LockName
    BY <1>t, <2>1
  <2>3. Holds(c, lk[cur[c]])
    BY <2>1 DEF Holds
  <2> QED
    BY <1>0, <2>1, <2>2, <2>3, LockSwap, Zenon
<1>4. CASE sleep_sched(c)
  <2>1. cur[c] \in Slot /\ MaySched(c, cur[c])
    BY <1>0, <1>4, MaySchedHolds DEF sleep_sched, At
  <2>2. /\ cur' = [cur EXCEPT ![c] = None] /\ UNCHANGED <<lock, lk>>
        /\ plock' = [plock EXCEPT ![cur[c]] = None]
        /\ Goto(c, "woken")
    BY <1>4, <2>1, SMTT(40) DEF sleep_sched, sched
  <2>3. /\ pc[cur[c]] = "sched" /\ cur'[c] = None /\ HoldsProc(c)
        /\ \A p \in Slot : plock'[p] = IF p = cur[c] THEN None ELSE plock[p]
        /\ \A d \in Cpu \ {c} :
              /\ cur'[d] = cur[d]
              /\ cur[d] # None => pc'[cur[d]] = pc[cur[d]] /\ lk'[cur[d]] = lk[cur[d]]
    BY <1>t, <1>a, <1>4, <2>1, <2>2 DEF sleep_sched, At, Goto, HoldsProc
  <2>4. /\ ~HoldsProc(c)' /\ \A l \in LockName : ~Holds(c, l)' /\ ~Holds(c, l)
    BY <2>3 DEF Holds, HoldsProc
  <2>5. \A p \in Slot : /\ plock'[p] = c <=> cur'[c] = p /\ HoldsProc(c)'
                        /\ \A d \in Cpu \ {c} : plock'[p] = d <=> plock[p] = d
    <3>1. \A p \in Slot : plock[p] = c <=> p = cur[c]
      BY <1>0, <2>3, Zenon DEF LockInv
    <3> QED
      BY <1>t, <2>3, <2>4, <3>1
  <2>6. \A l \in LockName : /\ lock'[l] = c <=> Holds(c, l)'
                            /\ \A d \in Cpu \ {c} : lock'[l] = d <=> lock[l] = d
    <3>1. \A l \in LockName : lock[l] # c
      BY <1>0, <2>4, Zenon DEF LockInv
    <3> QED
      BY <2>2, <2>4, <3>1, Zenon
  <2> QED
    BY <1>0, <2>3, <2>5, <2>6, LockFrame, Zenon
<1>5. CASE sleep_woken(c)
  <2>1. /\ cur[c] # None /\ pc[cur[c]] = "woken" /\ lock[lk[cur[c]]] = None
        /\ lock' = [lock EXCEPT ![lk[cur[c]]] = c]
        /\ Goto(c, "check") /\ UNCHANGED <<plock, lk, cur>>
    BY <1>5, Zenon DEF sleep_woken, Take, At
  <2>2. cur[c] \in Slot /\ lk[cur[c]] \in LockName /\ lk' = [lk EXCEPT ![cur[c]] = lk[cur[c]]]
    BY <1>t, <2>1
  <2> QED
    BY <1>0, <2>1, <2>2, LockTake, Zenon
<1>6. CASE \E pt \in {"ret", "user"} : usertrap_killed(c, pt)
  BY <1>0, <1>t, <1>a, <1>6, SMTT(40) DEF usertrap_killed, At, Goto, LockInv, Holds, HoldsProc
<1>7. CASE prepare_return(c)
  BY <1>0, <1>t, <1>a, <1>7 DEF prepare_return, ForgetCall, At, Goto, LockInv, Holds, HoldsProc
<1>8. CASE fork_parent(c) \/ fork_run(c) \/ usertrap_fault(c) \/ kfork_fails(c) \/ sys_exit(c) \/ kkill(c)
  <2>1. /\ UNCHANGED <<plock, lock, lk, cur>>
        /\ At(c, "fork_parent") \/ At(c, "fork_run") \/ At(c, "user")
        /\ Goto(c, "fork_run") \/ Goto(c, "ret") \/ Goto(c, "exit")
    BY <1>8, ZenonT(40) DEF fork_parent, fork_run, usertrap_fault, kfork_fails, sys_exit, kkill, Syscall
  <2> QED
    BY <1>0, <1>t, <2>1, LockStill, SMTT(40) DEF At, Goto
<1>9. CASE kexit(c)
  <2>1. /\ cur[c] \in Slot /\ pc[cur[c]] = "exit" /\ lock["wait_lock"] = None
        /\ lock' = [lock EXCEPT !["wait_lock"] = c] /\ Goto(c, "exit_locked")
        /\ lk' = [lk EXCEPT ![cur[c]] = "wait_lock"] /\ UNCHANGED <<plock, cur>>
    BY <1>0, <1>t, <1>9 DEF IInv, InitInv, kexit, ForgetCall, At
  <2> QED
    BY <1>0, <2>1, LockTake, Zenon DEF LockName
<1>10. CASE exit_zombie(c)
  <2>1. /\ cur[c] # None /\ pc[cur[c]] = "exit_locked" /\ plock[cur[c]] = None
        /\ plock' = [plock EXCEPT ![cur[c]] = c]
        /\ lock' = [lock EXCEPT !["wait_lock"] = None]
        /\ Goto(c, "zombie") /\ UNCHANGED <<lk, cur>>
    BY <1>10, Zenon DEF exit_zombie, At
  <2>2. cur[c] \in Slot /\ "wait_lock" \in LockName
    BY <1>t, <2>1 DEF LockName
  <2>3. Holds(c, "wait_lock")
    BY <2>1, Zenon DEF Holds
  <2> QED
    BY <1>0, <2>1, <2>2, <2>3, LockSwap, Zenon
<1>11. CASE exit_sched(c)
  <2>1. cur[c] \in Slot /\ MaySched(c, cur[c])
    BY <1>0, <1>11, MaySchedHolds DEF exit_sched, At
  <2>2. /\ cur' = [cur EXCEPT ![c] = None] /\ UNCHANGED <<lock, lk, pc>>
        /\ plock' = [plock EXCEPT ![cur[c]] = None]
    BY <1>11, <2>1 DEF exit_sched, sched
  <2> QED
    BY <1>0, <1>t, <1>a, <1>11, <2>1, <2>2 DEF exit_sched, At, LockInv, Holds, HoldsProc
<1>12. CASE kwait(c)
  <2>1. /\ cur[c] \in Slot /\ pc[cur[c]] = "check" /\ lk[cur[c]] = "wait_lock"
        /\ Leave(c, "wait_lock") \/ (UNCHANGED lock /\ Goto(c, "sleep"))
        /\ UNCHANGED <<plock, cur, lk>>
    BY <1>0, <1>12, WaitEffect
  <2> QED
    BY <1>0, <2>1, LockLoop DEF LockName
<1>13. CASE pause_check(c)
  <2>1. /\ cur[c] \in Slot /\ pc[cur[c]] = "check" /\ lk[cur[c]] = "tickslock"
        /\ Leave(c, "tickslock") \/ (UNCHANGED lock /\ Goto(c, "sleep"))
        /\ UNCHANGED <<plock, cur, lk>>
    BY <1>0, <1>t, <1>13 DEF pause_check, At
  <2> QED
    BY <1>0, <2>1, LockLoop DEF LockName
<1>14. CASE kfork(c)
  <2>1. /\ cur[c] \in Slot /\ pc[cur[c]] = "user" /\ pstate[cur[c]] = "RUNNING"
        /\ UNCHANGED <<plock, lock, cur, lk>>
    BY <1>0, <1>14, Running DEF kfork, Syscall, At
  <2>2. PICK np \in Slot : /\ pstate[np] = "UNUSED"
                           /\ pc' = [pc EXCEPT ![cur[c]] = "fork_parent", ![np] = "user"]
    BY <1>14, Zenon DEF kfork
  <2> QED
    BY <1>0, <1>t, <2>1, <2>2, LockStill
<1>15. CASE sys_wait(c)
  <2>1. /\ cur[c] \in Slot /\ pc[cur[c]] = "user" /\ lk[cur[c]] = "wait_lock"
        /\ Take(c, "wait_lock") /\ UNCHANGED <<plock, cur, lk>>
    BY <1>0, <1>t, <1>15, Zenon DEF sys_wait, Syscall, At, IInv, PauseInv, PauseOK
  <2>2. lk' = [lk EXCEPT ![cur[c]] = "wait_lock"]
    BY <1>t, <2>1
  <2> QED
    BY <1>0, <2>1, <2>2, LockTake, Zenon DEF Take, LockName
<1>16. CASE sys_pause(c)
  <2>1. /\ cur[c] # None /\ pc[cur[c]] = "user" /\ Take(c, "tickslock")
        /\ lk' = [lk EXCEPT ![cur[c]] = "tickslock"] /\ UNCHANGED <<plock, cur>>
    BY <1>16, Zenon DEF sys_pause, Syscall, At
  <2>2. cur[c] \in Slot /\ "tickslock" \in LockName
    BY <1>t, <2>1 DEF LockName
  <2> QED
    BY <1>0, <2>1, <2>2, LockTake, Zenon DEF Take
<1> QED
  BY <1>1, <1>2, <1>3, <1>4, <1>5, <1>6, <1>7, <1>8, <1>9, <1>10, <1>11, <1>12, <1>13,
     <1>14, <1>15, <1>16 DEF CpuStep, KernelStep, UserStep
-----------------------------------------------------------------------------
(* fork, and the first process.                                             *)

\* A step that begins no fork and runs nobody's child leaves the forks alone.
LEMMA ForkFrame ==
    ASSUME TypeOK, ForkInv,
           \A p \in Slot : Forking(p)' => Forking(p) /\ child'[p] = child[p],
           \A q \in Slot : pstate[q] = "USED" => pstate'[q] = "USED"
    PROVE  ForkInv'
BY DEF TypeOK, ForkInv

\* Each fork has its own child from allocproc until the child can run.
LEMMA ForkStep ==
    ASSUME IInv, NEW c \in Cpu, CpuStep(c)
    PROVE  ForkInv'
<1> USE Constants DEF table, locks, thread, clock
<1>0. TypeOK /\ StateInv /\ CpuInv /\ LockInv /\ ForkInv
  BY DEF IInv
<1>t. TypeOK!1 /\ TypeOK!8 /\ TypeOK!9 /\ TypeOK!11
  BY <1>0 DEF TypeOK
<1>1. ASSUME NEW p \in Slot, scheduler(c, p) PROVE ForkInv'
  BY <1>0, <1>t, <1>1, ForkFrame DEF scheduler, Forking
<1>2. CASE timer(c)
  <2>1. UNCHANGED child
    BY <1>2 DEF timer
  <2>2. PICK st : WakesOnly(st) /\ TimerEnds(c, st)
    BY <1>0, <1>2, TimerEffect
  <2>3. \A p \in Slot : Forking(p)' => Forking(p)
    BY <1>0, <1>t, <2>2 DEF TimerEnds, Goto, Forking
  <2>4. \A q \in Slot : pstate[q] = "USED" => pstate'[q] = "USED"
    BY <1>0, <1>t, <2>2 DEF WakesOnly, TimerEnds
  <2> QED
    BY <1>0, <2>1, <2>3, <2>4, ForkFrame
<1>3. CASE \/ sleep(c) \/ sleep_woken(c) \/ (\E pt \in {"ret", "user"} : usertrap_killed(c, pt))
           \/ prepare_return(c) \/ kexit(c) \/ pause_check(c) \/ usertrap_fault(c)
           \/ kfork_fails(c) \/ sys_exit(c) \/ sys_wait(c) \/ sys_pause(c)
  <2>1. UNCHANGED <<pstate, child>>
    BY <1>3, ZenonT(40) DEF sleep, sleep_woken, usertrap_killed, prepare_return, kexit, Panic,
       pause_check, usertrap_fault, kfork_fails, sys_exit, sys_wait, sys_pause
  <2>2. \/ UNCHANGED pc
        \/ \E pt \in {"user", "ret", "check", "sleep", "sched", "exit", "exit_locked"} : Goto(c, pt)
    BY <1>3, Zenon DEF sleep, sleep_woken, usertrap_killed, prepare_return, kexit, Panic, Take, Leave,
       pause_check, usertrap_fault, kfork_fails, sys_exit, sys_wait, sys_pause
  <2> QED
    BY <1>0, <1>t, <2>1, <2>2, ForkFrame, SMTT(40) DEF Goto, Forking
<1>4. CASE sleep_sched(c)
  <2>1. cur[c] \in Slot /\ pstate[cur[c]] = "RUNNING" /\ MaySched(c, cur[c])
    BY <1>0, <1>4, MaySchedHolds, Running DEF sleep_sched, At
  <2>2. /\ pstate' = [pstate EXCEPT ![cur[c]] = "SLEEPING"] /\ UNCHANGED child
        /\ pc' = [pc EXCEPT ![cur[c]] = "woken"]
    BY <1>4, <2>1 DEF sleep_sched, Goto
  <2> QED
    BY <1>0, <1>t, <2>1, <2>2, ForkFrame DEF Forking
<1>5. CASE exit_sched(c)
  BY <1>0, <1>5, ForkFrame DEF exit_sched, Panic, Forking
<1>6. CASE fork_parent(c)
  BY <1>0, <1>t, <1>6 DEF fork_parent, At, Goto, Forking, ForkInv
<1>7. CASE fork_run(c)
  <2>1. /\ cur[c] \in Slot /\ Forking(cur[c])
        /\ \A p \in Slot : Forking(p)' => /\ p # cur[c] /\ Forking(p)
                                          /\ child'[p] = child[p]
        /\ pstate' = [pstate EXCEPT ![child[cur[c]]] = "RUNNABLE"]
    BY <1>0, <1>t, <1>7, Zenon DEF fork_run, At, Goto, Forking
  <2>2. \A p \in Slot : p # cur[c] /\ Forking(p) => child[p] # child[cur[c]]
    BY <1>0, <2>1 DEF ForkInv
  <2>3. \A p \in Slot : Forking(p)' =>
          Forking(p) /\ child'[p] = child[p] /\ pstate'[child[p]] = "USED"
    BY <1>0, <1>t, <2>1, <2>2 DEF ForkInv
  <2> QED
    BY <1>0, <1>t, <2>3 DEF ForkInv
<1>8. CASE exit_zombie(c)
  <2>1. /\ cur[c] \in Slot /\ pstate[cur[c]] = "RUNNING" /\ UNCHANGED child
        /\ pc' = [pc EXCEPT ![cur[c]] = "zombie"]
        /\ pstate' = [WokenByExit(cur[c]) EXCEPT ![cur[c]] = "ZOMBIE"]
    BY <1>0, <1>8, Running DEF exit_zombie, At, Goto
  <2>2. WakesOnly(WokenByExit(cur[c]))
    BY <1>0, WakeupEffect
  <2>3. \A q \in Slot : pstate[q] = "USED" => pstate'[q] = "USED"
    BY <2>1, <2>2 DEF WakesOnly
  <2> QED
    BY <1>0, <1>t, <2>1, <2>3, ForkFrame DEF Forking
<1>9. CASE kwait(c)
  <2>1. \A q \in Slot : pstate[q] = "USED" => pstate'[q] = "USED"
    BY <1>0, <1>t, <1>9, WaitEffect DEF freeproc
  <2>2. UNCHANGED child /\ (Goto(c, "ret") \/ Goto(c, "sleep"))
    BY <1>0, <1>9, WaitEffect DEF Leave
  <2> QED
    BY <1>0, <1>t, <2>1, <2>2, ForkFrame DEF Goto, Forking
<1>10. CASE kfork(c)
  <2>1. cur[c] \in Slot /\ pstate[cur[c]] = "RUNNING"
    BY <1>0, <1>10, Running DEF kfork, Syscall, At
  <2>2. PICK np \in Slot :
          /\ pstate[np] = "UNUSED"
          /\ pstate' = [pstate EXCEPT ![np] = "USED"]
          /\ child' = [child EXCEPT ![cur[c]] = np]
          /\ pc' = [pc EXCEPT ![cur[c]] = "fork_parent", ![np] = "user"]
    BY <1>10, ZenonT(40) DEF kfork
  <2>3. \A p \in Slot : p # cur[c] /\ Forking(p)' => Forking(p) /\ child'[p] = child[p]
    BY <1>0, <1>t, <2>1, <2>2 DEF Forking
  <2>4. child'[cur[c]] = np /\ \A p \in Slot : Forking(p) => child[p] # np
    BY <1>0, <1>t, <2>1, <2>2 DEF ForkInv
  <2> QED
    BY <1>0, <1>t, <2>1, <2>2, <2>3, <2>4 DEF ForkInv
<1>11. CASE kkill(c)
  <2>1. WakesOnly(pstate') /\ UNCHANGED child /\ Goto(c, "ret")
    BY <1>0, <1>11, KillEffect DEF IInv, kkill
  <2> QED
    BY <1>0, <1>t, <2>1, ForkFrame, ZenonT(40) DEF WakesOnly, Goto, Forking
<1> QED
  BY <1>1, <1>2, <1>3, <1>4, <1>5, <1>6, <1>7, <1>8, <1>9, <1>10, <1>11
     DEF CpuStep, KernelStep, UserStep

\* The first process is never killed and never exits, and sched never finds a
\* lock too many or too few: the kernel does not panic.
LEMMA InitStep ==
    ASSUME IInv, NEW c \in Cpu, CpuStep(c)
    PROVE  InitInv'
<1> USE Constants DEF table, locks, thread, clock
<1>0. TypeOK /\ StateInv /\ CpuInv /\ LockInv /\ ForkInv /\ InitInv
  BY DEF IInv
<1>t. TypeOK!1 /\ TypeOK!2 /\ TypeOK!4 /\ TypeOK!8 /\ TypeOK!9 /\ TypeOK!11
  BY <1>0 DEF TypeOK
<1>1. ASSUME NEW p \in Slot, scheduler(c, p) PROVE InitInv'
  BY <1>0, <1>t, <1>1, SMTT(40) DEF scheduler, InitInv
<1>2. CASE timer(c)
  <2>1. UNCHANGED <<pid, killed, panic>>
    BY <1>2 DEF timer
  <2>2. PICK st : WakesOnly(st) /\ TimerEnds(c, st)
    BY <1>0, <1>2, TimerEffect
  <2> QED
    BY <1>0, <1>t, <2>1, <2>2 DEF WakesOnly, TimerEnds, Goto, InitInv
<1>3. CASE \/ sleep(c) \/ sleep_woken(c) \/ (\E pt \in {"ret", "user"} : usertrap_killed(c, pt))
           \/ prepare_return(c) \/ kexit(c) \/ pause_check(c) \/ fork_parent(c)
           \/ kfork_fails(c) \/ sys_exit(c) \/ sys_wait(c) \/ sys_pause(c)
  <2>1. UNCHANGED <<pstate, pid, killed, panic>>
    BY <1>0, <1>3, ZenonT(40) DEF sleep, sleep_woken, usertrap_killed, prepare_return, kexit, At,
       pause_check, fork_parent, kfork_fails, sys_exit, sys_wait, sys_pause, InitInv
  <2>2. \/ \E pt \in {"user", "ret", "check", "sleep", "sched", "fork_run"} : Goto(c, pt)
        \/ cur[c] # initproc /\ \E pt \in {"exit", "exit_locked"} : Goto(c, pt)
    BY <1>0, <1>3, Zenon DEF sleep, sleep_woken, usertrap_killed, prepare_return, kexit, Take, Leave,
       pause_check, fork_parent, kfork_fails, sys_exit, sys_wait, sys_pause, InitInv, At
  <2> QED
    BY <1>0, <1>t, <2>1, <2>2, SMTT(40) DEF Goto, InitInv
<1>4. CASE sleep_sched(c)
  <2>1. cur[c] \in Slot /\ MaySched(c, cur[c])
    BY <1>0, <1>4, MaySchedHolds DEF sleep_sched, At
  <2> QED
    BY <1>0, <1>t, <1>4, <2>1 DEF sleep_sched, At, Goto, InitInv
<1>5. CASE exit_sched(c)
  <2>1. cur[c] \in Slot /\ MaySched(c, cur[c])
    BY <1>0, <1>5, MaySchedHolds, Zenon DEF exit_sched, At
  <2> QED
    BY <1>0, <1>5, <2>1 DEF exit_sched, InitInv
<1>6. CASE fork_run(c)
  BY <1>0, <1>t, <1>6, ZenonT(40) DEF fork_run, At, Goto, Forking, ForkInv, InitInv
<1>7. CASE exit_zombie(c)
  <2>1. cur[c] \in Slot /\ cur[c] # initproc
    BY <1>0, <1>t, <1>7 DEF exit_zombie, At, InitInv
  <2>2. WakesOnly(WokenByExit(cur[c]))
    BY <1>0, WakeupEffect
  <2> QED
    BY <1>0, <1>t, <1>7, <2>1, <2>2 DEF exit_zombie, WakesOnly, Goto, InitInv
<1>8. CASE kwait(c)
  <2>1. UNCHANGED panic /\ (Goto(c, "ret") \/ Goto(c, "sleep"))
    BY <1>0, <1>8, WaitEffect, Zenon DEF Leave
  <2>2. /\ pstate'[initproc] = pstate[initproc] /\ pid'[initproc] = pid[initproc]
        /\ killed'[initproc] = killed[initproc]
    <3>1. CASE UNCHANGED table
      BY <3>1
    <3>2. ASSUME NEW q \in Slot, pstate[q] = "ZOMBIE", freeproc(q)
          PROVE  /\ pstate'[initproc] = pstate[initproc] /\ pid'[initproc] = pid[initproc]
                 /\ killed'[initproc] = killed[initproc]
      BY <1>0, <1>t, <3>2 DEF freeproc, InitInv
    <3> QED
      BY <1>0, <1>8, <3>1, <3>2, WaitEffect
  <2> QED
    BY <1>0, <1>t, <2>1, <2>2 DEF Goto, InitInv
<1>9. CASE usertrap_fault(c)
  BY <1>0, <1>t, <1>9 DEF usertrap_fault, setkilled, At, Goto, InitInv
<1>10. CASE kfork(c)
  <2>1. PICK np \in Slot :
          /\ pstate[np] = "UNUSED"
          /\ pstate' = [pstate EXCEPT ![np] = "USED"]
          /\ pid' = [pid EXCEPT ![np] = nextpid]
          /\ pc' = [pc EXCEPT ![cur[c]] = "fork_parent", ![np] = "user"]
    BY <1>10, Zenon DEF kfork
  <2>2. UNCHANGED <<killed, panic>> /\ np # initproc
    BY <1>0, <1>10, <2>1 DEF kfork, InitInv
  <2> QED
    BY <1>0, <1>t, <2>1, <2>2 DEF InitInv
<1>11. CASE kkill(c)
  <2>1. /\ WakesOnly(pstate') /\ UNCHANGED <<pid, panic>> /\ Goto(c, "ret")
        /\ killed'[initproc] = killed[initproc]
    BY <1>0, <1>11, KillEffect DEF kkill
  <2> QED
    BY <1>0, <1>t, <2>1, Zenon DEF WakesOnly, Goto, InitInv
<1> QED
  BY <1>1, <1>2, <1>3, <1>4, <1>5, <1>6, <1>7, <1>8, <1>9, <1>10, <1>11
     DEF CpuStep, KernelStep, UserStep
-----------------------------------------------------------------------------
(* Parents and children.                                                    *)

\* A step that gives nobody a new parent and ends nobody keeps parents alive.
LEMMA ParentFrame ==
    ASSUME TypeOK, ParentAlive, UNCHANGED parent,
           \A q \in Slot : pstate[q] \notin {"UNUSED", "ZOMBIE"}
                           => pstate'[q] \notin {"UNUSED", "ZOMBIE"}
    PROVE  ParentAlive'
BY Zenon DEF TypeOK, ParentAlive

\* exit hands its children to a process that lives, and wait frees only a
\* process that has no children any more.
LEMMA ParentStep ==
    ASSUME IInv, NEW c \in Cpu, CpuStep(c)
    PROVE  ParentAlive'
<1> USE Constants DEF table, locks, thread, clock
<1>0. TypeOK /\ StateInv /\ CpuInv /\ LockInv /\ ForkInv /\ InitInv /\ ParentAlive
  BY DEF IInv
<1>t. TypeOK!1 /\ TypeOK!3 /\ TypeOK!8 /\ TypeOK!11
  BY <1>0 DEF TypeOK
<1>1. ASSUME NEW p \in Slot, scheduler(c, p) PROVE ParentAlive'
  BY <1>0, <1>t, <1>1, ParentFrame DEF scheduler
<1>2. CASE timer(c)
  <2>1. PICK st : WakesOnly(st) /\ TimerEnds(c, st)
    BY <1>0, <1>2, TimerEffect
  <2>2. \A q \in Slot : pstate[q] \notin {"UNUSED", "ZOMBIE"}
                        => pstate'[q] \notin {"UNUSED", "ZOMBIE"}
    BY <1>0, <1>t, <2>1 DEF WakesOnly, TimerEnds
  <2> QED
    BY <1>0, <1>2, <2>2, ParentFrame DEF timer
<1>3. CASE \/ sleep(c) \/ sleep_woken(c) \/ (\E pt \in {"ret", "user"} : usertrap_killed(c, pt))
           \/ prepare_return(c) \/ kexit(c) \/ pause_check(c) \/ usertrap_fault(c)
           \/ kfork_fails(c) \/ sys_exit(c) \/ sys_wait(c) \/ sys_pause(c) \/ exit_sched(c)
  <2>1. UNCHANGED <<pstate, parent>>
    BY <1>3, Zenon DEF sleep, sleep_woken, usertrap_killed, prepare_return, kexit, Panic, exit_sched,
       pause_check, usertrap_fault, kfork_fails, sys_exit, sys_wait, sys_pause
  <2> QED
    BY <1>0, <2>1, ParentFrame, SMTT(40)
<1>4. CASE sleep_sched(c)
  <2>1. cur[c] \in Slot /\ MaySched(c, cur[c])
    BY <1>0, <1>4, MaySchedHolds DEF sleep_sched, At
  <2>2. UNCHANGED parent /\ pstate' = [pstate EXCEPT ![cur[c]] = "SLEEPING"]
    BY <1>4, <2>1 DEF sleep_sched
  <2> QED
    BY <1>0, <1>t, <2>1, <2>2, ParentFrame
<1>5. CASE fork_parent(c)
  <2>1. cur[c] \in Slot /\ pstate[cur[c]] = "RUNNING"
    BY <1>0, <1>5, Running DEF fork_parent, At
  <2> QED
    BY <1>0, <1>t, <1>5, <2>1 DEF fork_parent, ParentAlive
<1>6. CASE fork_run(c) \/ kfork(c) \/ kkill(c)
  <2>1. UNCHANGED parent
    BY <1>6 DEF fork_run, kfork, kkill
  <2>2. CASE fork_run(c)
    BY <1>0, <1>t, <2>1, <2>2, ParentFrame, Zenon DEF fork_run
  <2>3. CASE kfork(c)
    BY <1>0, <1>t, <2>1, <2>3, ParentFrame DEF kfork
  <2>4. CASE kkill(c)
    BY <1>0, <2>1, <2>4, ParentFrame, KillEffect DEF WakesOnly
  <2> QED
    BY <1>6, <2>2, <2>3, <2>4, ZenonT(40)
<1>7. CASE exit_zombie(c)
  <2>1. cur[c] \in Slot /\ cur[c] # initproc
    BY <1>0, <1>t, <1>7 DEF exit_zombie, At, InitInv
  <2>2. WakesOnly(WokenByExit(cur[c]))
    BY <1>0, WakeupEffect, Zenon
  <2>3. \A q \in Slot : q # cur[c] /\ pstate[q] \notin {"UNUSED", "ZOMBIE"}
                        => pstate'[q] \notin {"UNUSED", "ZOMBIE"}
    BY <1>7, <2>1, <2>2 DEF exit_zombie, WakesOnly
  <2>4. \A q \in Slot : parent'[q] = IF parent[q] = cur[c] THEN initproc ELSE parent[q]
    BY <1>7, Zenon DEF exit_zombie, reparent
  <2> QED
    BY <1>0, <1>t, <2>1, <2>3, <2>4, Zenon DEF ParentAlive, InitInv
<1>8. CASE kwait(c)
  <2>1. ASSUME NEW q \in Slot, pstate[q] = "ZOMBIE", freeproc(q)
        PROVE  ParentAlive'
    <3>1. \A r \in Slot : parent[r] # q
      BY <1>0, <2>1 DEF ParentAlive
    <3> QED
      BY <1>0, <1>t, <2>1, <3>1 DEF freeproc, ParentAlive
  <2>2. CASE UNCHANGED table
    BY <1>0, <2>2, ParentFrame, ZenonT(40)
  <2> QED
    BY <1>0, <1>8, <2>1, <2>2, WaitEffect
<1> QED
  BY <1>1, <1>2, <1>3, <1>4, <1>5, <1>6, <1>7, <1>8 DEF CpuStep, KernelStep, UserStep

\* A CPU whose process is about to sleep in wait.
Waiting(c) ==
    cur[c] # None /\ pc[cur[c]] \in {"sleep", "sched"} /\ lk[cur[c]] = "wait_lock"

\* A step that puts nobody to sleep and ends nobody loses no child.
LEMMA WaitFrame ==
    ASSUME TypeOK, WaitInv, UNCHANGED parent,
           \A q \in Slot : /\ pstate'[q] = "ZOMBIE" => pstate[q] = "ZOMBIE"
                           /\ pstate'[q] = "SLEEPING" /\ chan'[q] = q
                              => pstate[q] = "SLEEPING" /\ chan[q] = q,
           \A d \in Cpu : Waiting(d)' => Waiting(d) /\ cur'[d] = cur[d]
    PROVE  WaitInv'
<1>1. \A p \in Slot : NoZombieKid(p) => NoZombieKid(p)'
  BY Zenon DEF NoZombieKid
<1>2. ASSUME NEW p \in Slot, pstate'[p] = "SLEEPING", chan'[p] = p
      PROVE  NoZombieKid(p)'
  BY <1>1, <1>2, Zenon DEF WaitInv
<1>3. ASSUME NEW d \in Cpu, Waiting(d)'
      PROVE  NoZombieKid(cur[d])' /\ cur'[d] = cur[d]
  <2>1. Waiting(d) /\ cur'[d] = cur[d]
    BY <1>3, Zenon
  <2>2. cur[d] \in Slot
    BY <2>1 DEF Waiting, TypeOK
  <2>3. NoZombieKid(cur[d])
    BY <2>1, Zenon DEF WaitInv, Waiting
  <2> QED
    BY <1>1, <2>1, <2>2, <2>3, Zenon
<1>4. \A d \in Cpu : Waiting(d)' => \A q \in Slot : parent'[q] = cur'[d] => pstate'[q] # "ZOMBIE"
  BY <1>3 DEF NoZombieKid
<1> QED
  BY <1>2, <1>4, Zenon DEF WaitInv, Waiting, NoZombieKid

\* Only the thread of this CPU moves, and not to where it waits.
LEMMA WaitingFrame ==
    ASSUME TypeOK, CpuInv, NEW c \in Cpu, cur[c] \in Slot, UNCHANGED cur,
           \A p \in Slot : p # cur[c] => lk'[p] = lk[p],
           NEW pt, pt \notin {"sleep", "sched"},
           \A p \in Slot :
              pc'[p] = IF p = cur[c] THEN pt
                       ELSE IF pstate[p] = "UNUSED" THEN pc'[p] ELSE pc[p]
    PROVE  \A d \in Cpu : Waiting(d)' => Waiting(d) /\ cur'[d] = cur[d]
<1> SUFFICES ASSUME NEW d \in Cpu, Waiting(d)' PROVE Waiting(d)
  BY Zenon
<1>1. d # c
  BY Zenon DEF Waiting
<1>2. cur[d] \in Slot /\ cur[d] # cur[c] /\ pstate[cur[d]] # "UNUSED"
  <2>1. cur \in [Cpu -> Slot \cup {None}] /\ cur'[d] = cur[d] /\ cur[d] # None
    BY <1>1, Zenon DEF TypeOK, Waiting
  <2>2. cur[d] # cur[c] /\ pstate[cur[d]] \in {"RUNNING", "ZOMBIE"}
    BY <1>1, <2>1, Zenon DEF CpuInv
  <2> QED
    BY <2>1, <2>2, Zenon
<1>3. pc'[cur[d]] = pc[cur[d]] /\ lk'[cur[d]] = lk[cur[d]]
  BY <1>2, Zenon
<1> QED
  BY <1>2, <1>3, ZenonT(40) DEF Waiting

\* The same for a step that only moves the thread.
LEMMA GotoFrame ==
    ASSUME TypeOK, CpuInv, NEW c \in Cpu, cur[c] \in Slot, UNCHANGED cur,
           \A p \in Slot : p # cur[c] => lk'[p] = lk[p],
           \E pt : pt \notin {"sleep", "sched"} /\ Goto(c, pt)
    PROVE  \A d \in Cpu : Waiting(d)' => Waiting(d) /\ cur'[d] = cur[d]
<1>1. PICK pt : pt \notin {"sleep", "sched"} /\ Goto(c, pt)
  BY Zenon
<1>2. \A p \in Slot : pc'[p] = IF p = cur[c] THEN pt ELSE pc[p]
  BY <1>1, Zenon DEF TypeOK, Goto
<1> QED
  BY <1>1, <1>2, WaitingFrame

\* Between a parent's look at the table and its sleep no child can exit, and
\* a child that exits later wakes it.
LEMMA WaitStep ==
    ASSUME IInv, NEW c \in Cpu, CpuStep(c)
    PROVE  WaitInv'
<1> USE Constants DEF table, locks, thread, clock
<1>0. TypeOK /\ StateInv /\ CpuInv /\ LockInv /\ ForkInv /\ InitInv /\ WaitInv
  BY DEF IInv
<1>t. TypeOK!1 /\ TypeOK!3 /\ TypeOK!5 /\ TypeOK!8 /\ TypeOK!9 /\ TypeOK!10 /\ TypeOK!11
  BY <1>0 DEF TypeOK
<1>1. ASSUME NEW p \in Slot, scheduler(c, p) PROVE WaitInv'
  <2>1. \A d \in Cpu : Waiting(d)' => Waiting(d) /\ cur'[d] = cur[d]
    BY <1>0, <1>t, <1>1, Zenon DEF StateInv, scheduler, Waiting
  <2> QED
    BY <1>0, <1>t, <1>1, <2>1, WaitFrame, Zenon DEF scheduler
<1>2. CASE timer(c)
  <2>1. PICK st : WakesOnly(st) /\ TimerEnds(c, st)
    BY <1>0, <1>2, TimerEffect
  <2>2. UNCHANGED <<parent, chan, lk>>
    BY <1>2, Zenon DEF timer
  <2>3. \A q \in Slot : /\ pstate'[q] = "ZOMBIE" => pstate[q] = "ZOMBIE"
                        /\ pstate'[q] = "SLEEPING" => pstate[q] = "SLEEPING"
    BY <1>0, <1>t, <2>1, ZenonT(40) DEF WakesOnly, TimerEnds
  <2>4. \A d \in Cpu : Waiting(d)' => Waiting(d) /\ cur'[d] = cur[d]
    <3>1. CASE cur[c] \in Slot /\ Goto(c, "exit") /\ UNCHANGED cur
      BY <1>0, <2>2, <3>1, GotoFrame
    <3>2. CASE UNCHANGED pc /\ (UNCHANGED cur \/ cur' = [cur EXCEPT ![c] = None])
      BY <1>0, <1>t, <2>2, <3>2, SMTT(40) DEF Waiting
    <3> QED
      BY <2>1, <3>1, <3>2 DEF TimerEnds
  <2> QED
    BY <1>0, <2>2, <2>3, <2>4, WaitFrame, Zenon
<1>3. CASE \/ sleep_woken(c) \/ (\E pt \in {"ret", "user"} : usertrap_killed(c, pt))
           \/ prepare_return(c) \/ kexit(c) \/ usertrap_fault(c)
           \/ kfork_fails(c) \/ sys_exit(c) \/ sys_wait(c) \/ sys_pause(c)
  <2>1. /\ UNCHANGED <<pstate, parent, chan, cur>> /\ cur[c] \in Slot
        /\ \A p \in Slot : p # cur[c] => lk'[p] = lk[p]
    BY <1>0, <1>t, <1>3, ZenonT(40) DEF InitInv, sleep_woken, usertrap_killed, prepare_return, kexit, At,
       ForgetCall, usertrap_fault, kfork_fails, sys_exit, sys_wait, sys_pause, Syscall
  <2>2. \E pt \in {"user", "ret", "check", "exit", "exit_locked"} : Goto(c, pt)
    BY <1>0, <1>3, ZenonT(40) DEF sleep_woken, usertrap_killed, prepare_return, kexit, Take, InitInv, At,
       usertrap_fault, kfork_fails, sys_exit, sys_wait, sys_pause
  <2>3. \A d \in Cpu : Waiting(d)' => Waiting(d) /\ cur'[d] = cur[d]
    <3>1. \E pt : pt \notin {"sleep", "sched"} /\ Goto(c, pt)
      BY <2>2, Zenon
    <3> QED
      BY <1>0, <2>1, <3>1, GotoFrame, Zenon
  <2> QED
    BY <1>0, <2>1, <2>3, WaitFrame, ZenonT(40)
<1>4. CASE sleep(c)
  <2>1. \A d \in Cpu : Waiting(d)' => Waiting(d) /\ cur'[d] = cur[d]
    BY <1>0, <1>t, <1>4 DEF CpuInv, sleep, At, Goto, Waiting
  <2> QED
    BY <1>0, <1>4, <2>1, WaitFrame, Zenon DEF sleep
<1>5. CASE sleep_sched(c)
  <2>1. cur[c] \in Slot /\ MaySched(c, cur[c])
    BY <1>0, <1>5, MaySchedHolds, Zenon DEF sleep_sched, At
  <2>2. /\ pstate' = [pstate EXCEPT ![cur[c]] = "SLEEPING"] /\ UNCHANGED <<parent, lk>>
        /\ chan' = [chan EXCEPT ![cur[c]] = IF lk[cur[c]] = "tickslock" THEN 0 ELSE cur[c]]
        /\ cur' = [cur EXCEPT ![c] = None]
        /\ pc' = [pc EXCEPT ![cur[c]] = "woken"]
    BY <1>5, <2>1 DEF sleep_sched, sched, Goto
  <2>3. \A p \in Slot : parent'[p] = parent[p]
                        /\ (pstate'[p] = "ZOMBIE" => pstate[p] = "ZOMBIE")
    BY <1>0, <1>t, <2>1, <2>2, Zenon
  <2>4. chan'[cur[c]] = cur[c] => NoZombieKid(cur[c])
    <3>1. chan'[cur[c]] = cur[c] => lk[cur[c]] = "wait_lock"
      BY <1>0, <1>t, <2>1, <2>2, Zenon DEF LockName
    <3> QED
      BY <1>0, <1>5, <3>1 DEF WaitInv, sleep_sched, At
  <2>5. \A p \in Slot : p # cur[c] => chan'[p] = chan[p] /\ pstate'[p] = pstate[p]
    BY <1>0, <1>t, <2>1, <2>2
  <2>6. \A p \in Slot : pstate'[p] = "SLEEPING" /\ chan'[p] = p => NoZombieKid(p)
    BY <1>0, <2>4, <2>5, SMTT(40) DEF WaitInv
  <2>7. \A d \in Cpu : Waiting(d)' => Waiting(d) /\ cur'[d] = cur[d]
    BY <1>0, <1>t, <2>1, <2>2 DEF CpuInv, Waiting
  <2>8. \A d \in Cpu : Waiting(d)' => cur'[d] \in Slot /\ NoZombieKid(cur'[d])
    BY <1>0, <1>t, <2>7 DEF WaitInv, Waiting
  <2>9. \A p \in Slot : NoZombieKid(p) => NoZombieKid(p)'
    BY <2>3 DEF NoZombieKid
  <2> QED
    BY <2>6, <2>8, <2>9, Zenon DEF WaitInv, Waiting, NoZombieKid
<1>6. CASE exit_sched(c)
  <2>1. cur[c] \in Slot /\ MaySched(c, cur[c])
    BY <1>0, <1>6, MaySchedHolds DEF exit_sched, At
  <2>2. UNCHANGED <<pstate, parent, chan, pc, lk>> /\ cur' = [cur EXCEPT ![c] = None]
    BY <1>6, <2>1 DEF exit_sched, sched
  <2>3. \A d \in Cpu : Waiting(d)' => Waiting(d) /\ cur'[d] = cur[d]
    BY <1>0, <1>t, <2>2, Zenon DEF Waiting
  <2> QED
    BY <1>0, <2>2, <2>3, WaitFrame
<1>7. CASE fork_parent(c)
  <2>1. /\ cur[c] \in Slot /\ child[cur[c]] \in Slot /\ pstate[child[cur[c]]] = "USED"
        /\ parent' = [parent EXCEPT ![child[cur[c]]] = cur[c]]
        /\ UNCHANGED <<pstate, chan, cur, lk>> /\ Goto(c, "fork_run")
    BY <1>0, <1>t, <1>7 DEF fork_parent, At, ForkInv, Forking
  <2>2. \A d \in Cpu : Waiting(d)' => Waiting(d) /\ cur'[d] = cur[d]
    BY <1>0, <2>1, GotoFrame
  <2>3. \A p \in Slot : NoZombieKid(p) => NoZombieKid(p)'
    BY <1>0, <1>t, <2>1 DEF NoZombieKid
  <2>4. \A d \in Cpu : Waiting(d)' => cur'[d] \in Slot /\ NoZombieKid(cur'[d])
    BY <1>0, <1>t, <2>2 DEF WaitInv, Waiting
  <2> QED
    BY <1>0, <2>1, <2>3, <2>4, Zenon DEF WaitInv, Waiting, NoZombieKid
<1>8. CASE fork_run(c) \/ kfork(c) \/ kkill(c)
  <2>1. UNCHANGED <<parent, chan, cur, lk>> /\ cur[c] \in Slot
    BY <1>0, <1>t, <1>8 DEF fork_run, kfork, kkill, Syscall, At
  <2>2. \A q \in Slot : /\ pstate'[q] = "ZOMBIE" => pstate[q] = "ZOMBIE"
                        /\ pstate'[q] = "SLEEPING" => pstate[q] = "SLEEPING"
    <3>1. CASE fork_run(c)
      BY <1>0, <1>t, <3>1, Zenon DEF fork_run
    <3>2. CASE kfork(c)
      BY <1>0, <1>t, <3>2 DEF kfork
    <3>3. CASE kkill(c)
      BY <1>0, <3>3, KillEffect, SMTT(40) DEF WakesOnly
    <3> QED
      BY <1>8, <3>1, <3>2, <3>3, Zenon
  <2>3. \A d \in Cpu : Waiting(d)' => Waiting(d) /\ cur'[d] = cur[d]
    <3>1. CASE fork_run(c) \/ kkill(c)
      BY <1>0, <2>1, <3>1, GotoFrame DEF fork_run, kkill
    <3>2. CASE kfork(c)
      <4>1. pstate[cur[c]] = "RUNNING"
        BY <1>0, <1>t, <3>2, Running, Zenon DEF kfork, Syscall, At
      <4>2. PICK np \in Slot : /\ pstate[np] = "UNUSED"
                               /\ pc' = [pc EXCEPT ![cur[c]] = "fork_parent", ![np] = "user"]
        BY <3>2, Zenon DEF kfork
      <4>3. \A p \in Slot :
               pc'[p] = IF p = cur[c] THEN "fork_parent"
                        ELSE IF pstate[p] = "UNUSED" THEN pc'[p] ELSE pc[p]
        BY <1>0, <2>1, <4>1, <4>2 DEF TypeOK
      <4>4. \A p \in Slot : p # cur[c] => lk'[p] = lk[p]
        BY <2>1
      <4> QED
        BY <1>0, <2>1, <4>3, <4>4, WaitingFrame, ZenonT(40)
    <3> QED
      BY <1>8, <3>1, <3>2, Zenon
  <2> QED
    BY <1>0, <2>1, <2>2, <2>3, WaitFrame, Zenon
<1>9. CASE exit_zombie(c)
  <2> DEFINE p == cur[c]
  <2>1. /\ p \in Slot /\ pstate[p] = "RUNNING" /\ p # initproc
        /\ \A q \in Slot : q # p => plock[q] = None
        /\ UNCHANGED <<chan, cur, lk>> /\ Goto(c, "zombie")
    BY <1>0, <1>9, Running DEF exit_zombie, At, MayWakeup, InitInv
  <2>2. \A q \in Slot : parent'[q] = IF parent[q] = p THEN initproc ELSE parent[q]
    BY <1>9 DEF exit_zombie, reparent
  <2>3. WakesOnly(WokenByExit(p))
    BY <1>0, WakeupEffect
  <2>4. pstate' = [WokenByExit(p) EXCEPT ![p] = "ZOMBIE"]
    BY <1>9 DEF exit_zombie
  <2>5. \A q \in Slot : /\ q # p /\ pstate'[q] = "ZOMBIE" => pstate[q] = "ZOMBIE"
                        /\ pstate'[q] = "SLEEPING" =>
                              q # p /\ pstate[q] = "SLEEPING" /\ WokenByExit(p)[q] = "SLEEPING"
    BY <2>1, <2>3, <2>4, Zenon DEF WakesOnly
  \* reparent has woken init, and exit the parent.
  <2>6. ASSUME NEW r \in Slot, pstate'[r] = "SLEEPING", chan[r] = r
        PROVE  /\ parent[p] # r
               /\ r = initproc => \A q \in Slot : parent[q] # p
    BY <1>0, <1>t, <2>1, <2>5, <2>6 DEF WokenByExit, Woken, Kids
  <2>7. ASSUME NEW r \in Slot, pstate'[r] = "SLEEPING", chan[r] = r
        PROVE  NoZombieKid(r)'
    <3>1. NoZombieKid(r) /\ r # p
      BY <1>0, <2>5, <2>7 DEF WaitInv
    <3>2. \A q \in Slot : parent'[q] = r => parent[q] = r /\ q # p
      BY <2>2, <2>6, <2>7
    <3> QED
      BY <2>5, <3>1, <3>2 DEF NoZombieKid
  \* Nobody else is between its look at the table and its sleep.
  <2>8. \A d \in Cpu : ~Waiting(d)'
    <3>1. lock["wait_lock"] = c /\ "wait_lock" \in LockName
      BY <1>0, <1>9 DEF exit_zombie, At, LockInv, Holds, LockName
    <3>2. ~Waiting(c)'
      BY <1>0, <1>t, <2>1 DEF Goto, Waiting
    <3>3. ASSUME NEW d \in Cpu, d # c, Waiting(d) PROVE FALSE
      <4>1. cur[d] \in Slot /\ cur[d] # p
        BY <1>0, <1>t, <3>3 DEF CpuInv, Waiting
      <4>2. plock[cur[d]] # d
        BY <2>1, <4>1
      <4>3. ~HoldsProc(d)
        BY <1>0, <4>1, <4>2 DEF LockInv
      <4>4. ~Holds(d, "wait_lock")
        BY <1>0, <3>1, <3>3, Zenon DEF LockInv
      <4> QED
        BY <3>3, <4>3, <4>4, Zenon DEF HoldsProc, Holds, Waiting
    <3>4. ASSUME NEW d \in Cpu, d # c, Waiting(d)' PROVE Waiting(d)
      BY <1>0, <1>t, <2>1, <3>4 DEF CpuInv, Goto, Waiting
    <3> QED
      BY <3>2, <3>3, <3>4, Zenon
  <2> QED
    BY <2>1, <2>7, <2>8, ZenonT(40) DEF WaitInv, Waiting
<1>10. CASE kwait(c)
  <2>1. /\ cur[c] \in Slot /\ pstate[cur[c]] = "RUNNING" /\ UNCHANGED <<cur, lk>>
        /\ pc[cur[c]] = "check"
    BY <1>0, <1>10, WaitEffect, Zenon
  <2>2. ASSUME NEW q \in Slot, pstate[q] = "ZOMBIE", freeproc(q), Leave(c, "wait_lock")
        PROVE  WaitInv'
    <3>1. \A d \in Cpu : Waiting(d)' => Waiting(d) /\ cur'[d] = cur[d]
      BY <1>0, <2>1, <2>2, GotoFrame, Zenon DEF Leave
    <3>2. \A r \in Slot : /\ pstate'[r] = "ZOMBIE" => r # q /\ pstate[r] = "ZOMBIE"
                          /\ pstate'[r] = "SLEEPING" => pstate[r] = "SLEEPING" /\ chan'[r] = chan[r]
                          /\ r # q => parent'[r] = parent[r]
      BY <1>0, <1>t, <2>2, Zenon DEF freeproc
    <3>3. \A r \in Slot : NoZombieKid(r) => NoZombieKid(r)'
      BY <3>2, Zenon DEF NoZombieKid
    <3>4. \A d \in Cpu : Waiting(d)' => cur'[d] \in Slot /\ NoZombieKid(cur'[d])
      BY <1>0, <1>t, <3>1, SMTT(40) DEF WaitInv, Waiting
    <3> QED
      BY <1>0, <3>2, <3>3, <3>4 DEF WaitInv, Waiting, NoZombieKid
  <2>3. CASE UNCHANGED table /\ Leave(c, "wait_lock")
    <3>1. \A d \in Cpu : Waiting(d)' => Waiting(d) /\ cur'[d] = cur[d]
      BY <1>0, <2>1, <2>3, GotoFrame, Zenon DEF Leave
    <3> QED
      BY <1>0, <2>3, <3>1, WaitFrame, Zenon
  <2>4. CASE /\ UNCHANGED table /\ Goto(c, "sleep")
             /\ \A q \in Slot : parent[q] = cur[c] => pstate[q] # "ZOMBIE"
    <3>1. \A d \in Cpu : Waiting(d)' => d = c \/ Waiting(d)
      BY <1>0, <1>t, <2>1, <2>4 DEF CpuInv, Goto, Waiting
    <3>2. \A r \in Slot : NoZombieKid(r) => NoZombieKid(r)'
      BY <2>4, Zenon DEF NoZombieKid
    <3>3. \A d \in Cpu : Waiting(d)' => cur'[d] \in Slot /\ NoZombieKid(cur'[d])
      BY <1>0, <1>t, <2>1, <2>4, <3>1 DEF WaitInv, Waiting, NoZombieKid
    <3> QED
      BY <1>0, <2>4, <3>2, <3>3, Zenon DEF WaitInv, Waiting, NoZombieKid
  <2> QED
    BY <1>0, <1>10, <2>2, <2>3, <2>4, WaitEffect, Zenon
<1>11. CASE pause_check(c)
  <2>1. /\ cur[c] \in Slot /\ lk[cur[c]] = "tickslock" /\ UNCHANGED <<pstate, parent, chan, cur, lk>>
        /\ \E pt \in {"ret", "sleep"} : Goto(c, pt)
    BY <1>0, <1>t, <1>11 DEF pause_check, At, Leave
  <2>2. \A d \in Cpu : Waiting(d)' => Waiting(d) /\ cur'[d] = cur[d]
    BY <1>0, <1>t, <2>1 DEF CpuInv, Goto, Waiting
  <2> QED
    BY <1>0, <2>1, <2>2, WaitFrame, Zenon
<1> QED
  BY <1>1, <1>2, <1>3, <1>4, <1>5, <1>6, <1>7, <1>8, <1>9, <1>10, <1>11
     DEF CpuStep, KernelStep, UserStep
-----------------------------------------------------------------------------
(* pause.                                                                   *)

\* Subtraction in unsigned arithmetic grows by at most one with every tick.
LEMMA Elapse ==
    ASSUME NEW t \in 0..(TickRange - 1), NEW t0 \in 0..(TickRange - 1)
    PROVE  /\ (t - t) % TickRange = 0
           /\ (t - t0) % TickRange \in Nat
           /\ (((t + 1) % TickRange) - t0) % TickRange <= ((t - t0) % TickRange) + 1
<1> DEFINE N == TickRange
<1>1. N \in Nat /\ N > 0
  BY ProcAssumption
<1>2. \A a \in 0..(N - 1) : a % N = a
  BY <1>1
<1>3. \A a \in Int : a < 0 /\ -N <= a => a % N = a + N
  BY <1>1
<1>4. N % N = 0
  BY <1>1
<1>5. (t - t0) % N = IF t >= t0 THEN t - t0 ELSE t - t0 + N
  BY <1>1, <1>2, <1>3
<1>6. (t + 1) % N = IF t = N - 1 THEN 0 ELSE t + 1
  BY <1>1, <1>2, <1>4
<1>7. \A u \in 0..(N - 1) : (u - t0) % N = IF u >= t0 THEN u - t0 ELSE u - t0 + N
  BY <1>1, <1>2, <1>3
<1> HIDE DEF N
<1>8. (t - t) % N = 0
  BY <1>1, <1>2
<1>9. (((t + 1) % N) - t0) % N <= ((t - t0) % N) + 1
  BY <1>1, <1>5, <1>6, <1>7 DEF N
<1>10. (t - t0) % N \in Nat
  BY <1>1, <1>5 DEF N
<1> QED
  BY <1>8, <1>9, <1>10 DEF N

\* A tick is counted for those who pause, up to the longest pause.
LEMMA TickCounts ==
    ASSUME TypeOK, PauseInv, NEW c \in Cpu, clockintr(c), NEW p \in Slot,
           pc'[p] = pc[p], UNCHANGED <<lk, pause, killed>>
    PROVE  PauseOK(p)'
<1>1. /\ slept[p] \in 0..MaxPause /\ ticks \in 0..(TickRange - 1)
      /\ pause[p][1] \in 0..(TickRange - 1) /\ pause[p][2] \in 0..MaxPause /\ MaxPause \in Nat
  BY ProcAssumption, Zenon DEF TypeOK
<1>2. CASE c = 0 /\ InPause(p)
  <2>1. slept'[p] = IF slept[p] < MaxPause THEN slept[p] + 1 ELSE slept[p]
    BY <1>2 DEF clockintr
  <2>2. ticks' = (ticks + 1) % TickRange
    BY <1>2, Zenon DEF clockintr
  <2>3. /\ (ticks' - pause[p][1]) % TickRange <= ((ticks - pause[p][1]) % TickRange) + 1
        /\ (ticks - pause[p][1]) % TickRange \in Nat
    BY <1>1, <2>2, Elapse, Zenon
  <2>6. ticks' \in 0..(TickRange - 1)
    BY <1>1, <2>2, ProcAssumption
  <2>7. (ticks' - pause[p][1]) % TickRange \in Nat
    BY <1>1, <2>6, Elapse, Zenon
  <2>4. Counted(p)
    BY <1>2, Zenon DEF PauseInv, PauseOK
  <2>5. Counted(p)'
    BY <1>1, <2>1, <2>3, <2>4, <2>7, SMTT(40) DEF Counted
  <2> QED
    BY <1>2, <2>5, ZenonT(40) DEF PauseOK, InPause
<1>3. CASE ~(c = 0 /\ InPause(p))
  <2>1. slept'[p] = slept[p] /\ (c # 0 => ticks' = ticks)
    BY <1>3, Zenon DEF clockintr
  <2>2. InPause(p)' => Counted(p)'
    BY <1>3, <2>1, Zenon DEF PauseInv, PauseOK, InPause, Counted
  <2> QED
    BY <2>1, <2>2, Zenon DEF PauseInv, PauseOK
<1> QED
  BY <1>2, <1>3, Zenon

\* A step that leaves the thread and the pause of p alone, and does not take
\* back that it was killed.
LEMMA PauseFrame ==
    ASSUME PauseInv, NEW p \in Slot, UNCHANGED ticks,
           pc'[p] = pc[p], lk'[p] = lk[p], pause'[p] = pause[p], slept'[p] = slept[p],
           killed[p] /\ pc[p] = "ret" => killed'[p]
    PROVE  PauseOK(p)'
BY SMTT(40) DEF PauseInv, PauseOK, InPause, Counted

\* The clock has moved on by e, and what has been counted of it covers n.
LEMMA WaitedLong ==
    ASSUME NEW m \in Nat, NEW k \in 0..m, NEW n \in 0..m, NEW e \in Nat, k = m \/ k >= e, e >= n
    PROVE  k >= n
OBVIOUS

\* The process on this CPU goes to a point where nothing is asked of it.
LEMMA PauseMoves ==
    ASSUME TypeOK, PauseInv, NEW c \in Cpu, cur[c] \in Slot, UNCHANGED <<ticks, killed, cur>>,
           UNCHANGED <<lk, pause, slept>> \/ ForgetCall(cur[c]),
           NEW pt, Goto(c, pt),
           PauseOK(cur[c])'
    PROVE  PauseInv'
<1> SUFFICES ASSUME NEW p \in Slot, p # cur[c] PROVE PauseOK(p)'
  BY DEF PauseInv
<1>1. /\ pc'[p] = pc[p] /\ lk'[p] = lk[p] /\ pause'[p] = pause[p] /\ slept'[p] = slept[p]
  BY ZenonT(40) DEF TypeOK, Goto, ForgetCall
<1> QED
  BY <1>1, PauseFrame, Zenon

\* pause ends only when the ticks it asked for have been counted.
LEMMA PauseStep ==
    ASSUME IInv, NEW c \in Cpu, CpuStep(c)
    PROVE  PauseInv'
<1> USE Constants DEF table, locks, thread, clock
<1>0. TypeOK /\ StateInv /\ CpuInv /\ LockInv /\ ForkInv /\ InitInv /\ PauseInv
  BY DEF IInv
<1>t. TypeOK!8 /\ TypeOK!9 /\ TypeOK!10 /\ TypeOK!13 /\ TypeOK!14 /\ TypeOK!15
  BY <1>0 DEF TypeOK
<1>1. ASSUME NEW p \in Slot, scheduler(c, p) PROVE PauseInv'
  BY <1>0, <1>1, PauseFrame DEF scheduler, PauseInv
<1>2. CASE timer(c)
  <2>1. PICK st : TimerEnds(c, st)
    BY <1>0, <1>2, TimerEffect
  <2>2. clockintr(c) /\ UNCHANGED <<lk, pause, killed>>
    BY <1>2 DEF timer
  <2>3. CASE UNCHANGED pc
    BY <1>0, <2>2, <2>3, TickCounts DEF PauseInv
  <2>4. CASE cur[c] \in Slot /\ Goto(c, "exit")
    <3>1. \A p \in Slot : IF p = cur[c] THEN pc'[p] = "exit" ELSE pc'[p] = pc[p]
      BY <1>0, <1>t, <2>4 DEF Goto
    <3>2. \A p \in Slot : p # cur[c] => PauseOK(p)'
      BY <1>0, <2>2, <3>1, TickCounts, SMTT(40)
    <3>3. \A p \in Slot : p = cur[c] => PauseOK(p)'
      BY <3>1, Zenon DEF PauseOK, InPause
    <3> QED
      BY <3>2, <3>3 DEF PauseInv
  <2> QED
    BY <2>1, <2>3, <2>4 DEF TimerEnds
<1>3. CASE \/ sleep(c) \/ sleep_woken(c)
  <2>1. /\ cur[c] \in Slot /\ UNCHANGED <<ticks, killed, lk, pause, slept, cur>>
        /\ pc[cur[c]] \in {"sleep", "woken"}
        /\ \E pt \in {"sched", "check"} : Goto(c, pt)
    BY <1>0, <1>t, <1>3 DEF sleep, sleep_woken, At, Take
  <2>2. PICK pt \in {"sched", "check"} : Goto(c, pt)
    BY <2>1, Zenon
  <2>3. pc'[cur[c]] = pt
    BY <1>0, <1>t, <2>1, <2>2, SMTT(40) DEF Goto
  <2>4. PauseOK(cur[c])'
    BY <1>0, <2>1, <2>3, ZenonT(40) DEF PauseInv, PauseOK, InPause, Counted
  <2> QED
    BY <1>0, <2>1, <2>2, <2>4, PauseMoves, Zenon
<1>4. CASE sleep_sched(c)
  <2>1. cur[c] \in Slot /\ MaySched(c, cur[c]) /\ pc[cur[c]] = "sched"
    BY <1>0, <1>4, MaySchedHolds, Zenon DEF sleep_sched, At
  <2>2. UNCHANGED <<ticks, killed, lk, pause, slept>> /\ Goto(c, "woken")
    BY <1>4, <2>1 DEF sleep_sched
  <2>3. \A p \in Slot : pc'[p] = IF p = cur[c] THEN "woken" ELSE pc[p]
    BY <1>0, <1>t, <2>1, <2>2 DEF Goto
  <2> QED
    BY <1>0, <2>1, <2>2, <2>3, Zenon DEF PauseInv, PauseOK, InPause, Counted
<1>5. CASE exit_sched(c)
  <2>1. cur[c] \in Slot /\ MaySched(c, cur[c])
    BY <1>0, <1>5, MaySchedHolds DEF exit_sched, At
  <2> QED
    BY <1>0, <1>5, <2>1, PauseFrame DEF exit_sched, PauseInv
<1>6. CASE \/ (\E pt \in {"ret", "user"} : usertrap_killed(c, pt)) \/ sys_exit(c)
  <2>1. /\ cur[c] \in Slot /\ UNCHANGED <<ticks, killed, lk, pause, slept, cur>> /\ Goto(c, "exit")
    BY <1>0, <1>t, <1>6, Zenon DEF usertrap_killed, sys_exit, Syscall, At
  <2>2. PauseOK(cur[c])'
    BY <1>0, <1>t, <2>1 DEF Goto, PauseOK, InPause
  <2> QED
    BY <1>0, <2>1, <2>2, PauseMoves, Zenon
<1>7. CASE prepare_return(c) \/ kexit(c)
  <2>1. /\ cur[c] \in Slot /\ UNCHANGED <<ticks, killed, cur>> /\ ForgetCall(cur[c])
        /\ \E pt \in {"user", "exit_locked"} : Goto(c, pt)
    BY <1>0, <1>t, <1>7 DEF InitInv, prepare_return, kexit, At
  <2>2. PauseOK(cur[c])'
    BY <1>0, <1>t, <2>1, SMTT(40) DEF Goto, ForgetCall, PauseOK, InPause
  <2> QED
    BY <1>0, <2>1, <2>2, PauseMoves, Zenon
<1>8. CASE usertrap_fault(c)
  <2>1. /\ cur[c] \in Slot /\ UNCHANGED <<ticks, lk, pause, slept>> /\ Goto(c, "exit")
        /\ \A p \in Slot : p # cur[c] => killed'[p] = killed[p]
    BY <1>0, <1>t, <1>8, SMTT(40) DEF usertrap_fault, setkilled, At
  <2>2. \A p \in Slot : pc'[p] = IF p = cur[c] THEN "exit" ELSE pc[p]
    BY <1>0, <1>t, <2>1, Zenon DEF Goto
  <2> QED
    BY <1>0, <2>1, <2>2, Zenon DEF PauseInv, PauseOK, InPause, Counted
<1>9. CASE fork_parent(c) \/ fork_run(c) \/ kfork_fails(c)
  <2>1. /\ cur[c] \in Slot /\ UNCHANGED <<ticks, killed, lk, pause, slept, cur>>
        /\ pc[cur[c]] \in {"user", "fork_parent", "fork_run"}
        /\ \E pt \in {"fork_run", "ret"} : Goto(c, pt)
    BY <1>0, <1>t, <1>9, ZenonT(40) DEF fork_parent, fork_run, kfork_fails, Syscall, At
  <2>2. PauseOK(cur[c])'
    BY <1>0, <1>t, <2>1 DEF Goto, PauseInv, PauseOK, InPause
  <2> QED
    BY <1>0, <2>1, <2>2, PauseMoves, Zenon
<1>10. CASE exit_zombie(c)
  <2>1. /\ cur[c] \in Slot /\ UNCHANGED <<ticks, killed, lk, pause, slept, cur>>
        /\ pc[cur[c]] = "exit_locked" /\ Goto(c, "zombie")
    BY <1>0, <1>t, <1>10, ZenonT(40) DEF exit_zombie, At
  <2>2. PauseOK(cur[c])'
    BY <1>0, <1>t, <2>1 DEF Goto, PauseInv, PauseOK, InPause
  <2> QED
    BY <1>0, <2>1, <2>2, PauseMoves, Zenon
<1>11. CASE kwait(c)
  <2>1. /\ cur[c] \in Slot /\ lk[cur[c]] = "wait_lock"
        /\ UNCHANGED <<ticks, lk, pause, slept>>
        /\ \E pt \in {"sleep", "ret"} : Goto(c, pt)
    BY <1>0, <1>11, WaitEffect, ZenonT(40) DEF Leave
  <2>2. \A p \in Slot : pc[p] = "ret" => killed'[p] = killed[p]
    <3>1. ASSUME NEW q \in Slot, pstate[q] = "ZOMBIE", freeproc(q)
          PROVE  \A p \in Slot : pc[p] = "ret" => killed'[p] = killed[p]
      <4>1. pc[q] # "ret"
        BY <1>0, <3>1 DEF StateInv
      <4>2. \A p \in Slot : p # q => killed'[p] = killed[p]
        BY <1>0, <3>1, Zenon DEF TypeOK, freeproc
      <4> QED
        BY <4>1, <4>2
    <3> QED
      BY <1>0, <1>11, <3>1, WaitEffect
  <2>3. PICK pt \in {"sleep", "ret"} : Goto(c, pt)
    BY <2>1, Zenon
  <2>4. \A p \in Slot : pc'[p] = IF p = cur[c] THEN pt ELSE pc[p]
    BY <1>0, <1>t, <2>1, <2>3, SMTT(40) DEF Goto
  <2>5. \A p \in Slot : p # cur[c] => PauseOK(p)'
    BY <1>0, <2>1, <2>2, <2>4, PauseFrame, ZenonT(40)
  <2>6. \A p \in Slot : p = cur[c] => PauseOK(p)'
    BY <2>1, <2>4, Zenon DEF PauseOK, InPause
  <2> QED
    BY <2>5, <2>6, Zenon DEF PauseInv
<1>12. CASE pause_check(c)
  <2>1. /\ cur[c] \in Slot /\ UNCHANGED <<ticks, killed, lk, pause, slept, cur>>
        /\ lk[cur[c]] = "tickslock" /\ pc[cur[c]] = "check"
        /\ \/ Goto(c, "sleep")
           \/ Goto(c, "ret") /\ (PauseOver(cur[c]) \/ killed[cur[c]])
    BY <1>0, <1>t, <1>12, Zenon DEF pause_check, At, Leave
  <2>2. Counted(cur[c])
    BY <1>0, <2>1, Zenon DEF PauseInv, PauseOK, InPause
  <2>3. CASE Goto(c, "sleep")
    <3>1. PauseOK(cur[c])'
      BY <1>0, <1>t, <2>1, <2>2, <2>3 DEF Goto, PauseOK, InPause, Counted
    <3> QED
      BY <1>0, <2>1, <2>3, <3>1, PauseMoves, ZenonT(40)
  <2>4. CASE Goto(c, "ret") /\ (PauseOver(cur[c]) \/ killed[cur[c]])
    <3>1. /\ slept[cur[c]] \in 0..MaxPause /\ pause[cur[c]][2] \in 0..MaxPause
          /\ pause[cur[c]][1] \in 0..(TickRange - 1) /\ ticks \in 0..(TickRange - 1)
      BY <1>0, <1>t, <2>1, Zenon
    <3>2. (ticks - pause[cur[c]][1]) % TickRange \in Nat /\ MaxPause \in Nat
      BY <3>1, Elapse, ProcAssumption, ZenonT(40)
    <3>3. PauseOver(cur[c]) => slept[cur[c]] >= pause[cur[c]][2]
      <4>1. PICK e \in Nat : e = (ticks - pause[cur[c]][1]) % TickRange
        BY <3>2, Zenon
      <4>2. slept[cur[c]] = MaxPause \/ slept[cur[c]] >= e
        BY <2>2, <4>1, Zenon DEF Counted
      <4>3. PauseOver(cur[c]) => e >= pause[cur[c]][2]
        BY <4>1, Zenon DEF PauseOver
      <4>4. MaxPause \in Nat
        BY <3>2, Zenon
      <4> QED
        BY <3>1, <4>2, <4>3, <4>4, WaitedLong, Zenon
    <3>4. pc'[cur[c]] = "ret"
      BY <1>0, <1>t, <2>1, <2>4, Zenon DEF Goto
    <3>5. PauseOK(cur[c])'
      BY <2>1, <2>4, <3>3, <3>4, Zenon DEF PauseOK, InPause
    <3> QED
      BY <1>0, <2>1, <2>4, <3>5, PauseMoves, Zenon
  <2> QED
    BY <2>1, <2>3, <2>4, Zenon
<1>13. CASE kfork(c)
  <2>1. /\ cur[c] \in Slot /\ pc[cur[c]] = "user"
        /\ UNCHANGED <<ticks, killed, lk, pause, slept>>
    BY <1>0, <1>t, <1>13, Zenon DEF kfork, Syscall, At
  <2>2. PICK np \in Slot : /\ pstate[np] = "UNUSED"
                           /\ pc' = [pc EXCEPT ![cur[c]] = "fork_parent", ![np] = "user"]
    BY <1>13, Zenon DEF kfork
  <2>3. \A p \in Slot : \/ pc'[p] = pc[p]
                        \/ /\ pc[p] \in {"user", "zombie"}
                           /\ pc'[p] \in {"fork_parent", "user"}
    BY <1>0, <1>t, <2>1, <2>2 DEF StateInv
  <2> QED
    BY <1>0, <2>1, <2>3, Zenon DEF PauseInv, PauseOK, InPause, Counted
<1>14. CASE sys_wait(c)
  <2>1. /\ cur[c] \in Slot /\ pc[cur[c]] = "user" /\ Goto(c, "check")
        /\ UNCHANGED <<ticks, killed, lk, pause, slept, cur>>
    BY <1>0, <1>t, <1>14, Zenon DEF sys_wait, Take, Syscall, At
  <2>2. PauseOK(cur[c])'
    BY <1>0, <1>t, <2>1, ZenonT(40) DEF Goto, PauseInv, PauseOK, InPause
  <2> QED
    BY <1>0, <2>1, <2>2, PauseMoves, Zenon
<1>15. CASE kkill(c)
  <2>1. /\ cur[c] \in Slot /\ pc[cur[c]] = "user" /\ Goto(c, "ret")
        /\ UNCHANGED <<ticks, lk, pause, slept>>
        /\ \A q \in Slot : killed[q] => killed'[q]
    BY <1>0, <1>t, <1>15, KillEffect, Zenon DEF kkill, Syscall, At
  <2>2. \A p \in Slot : pc'[p] = IF p = cur[c] THEN "ret" ELSE pc[p]
    BY <1>0, <1>t, <2>1 DEF Goto
  <2> QED
    <3>1. ASSUME NEW p \in Slot, p # cur[c] PROVE PauseOK(p)'
      BY <1>0, <2>1, <2>2, <3>1, Zenon DEF PauseInv, PauseOK, InPause, Counted
    <3>2. ASSUME NEW p \in Slot, p = cur[c] PROVE PauseOK(p)'
      BY <1>0, <2>1, <2>2, <3>2, Zenon DEF PauseInv, PauseOK, InPause, Counted
    <3> QED
      BY <3>1, <3>2, Zenon DEF PauseInv
<1>16. CASE sys_pause(c)
  <2>1. /\ cur[c] \in Slot /\ pc[cur[c]] = "user" /\ Goto(c, "check")
        /\ lk' = [lk EXCEPT ![cur[c]] = "tickslock"]
        /\ UNCHANGED <<ticks, killed, slept>>
    BY <1>0, <1>t, <1>16 DEF sys_pause, Take, Syscall, At
  <2>2. PICK n \in 0..MaxPause : pause' = [pause EXCEPT ![cur[c]] = <<ticks, n>>]
    BY <1>16, Zenon DEF sys_pause
  <2>3. \A p \in Slot : /\ pc'[p] = IF p = cur[c] THEN "check" ELSE pc[p]
                        /\ lk'[p] = IF p = cur[c] THEN "tickslock" ELSE lk[p]
                        /\ pause'[p] = IF p = cur[c] THEN <<ticks, n>> ELSE pause[p]
    BY <1>0, <1>t, <2>1, <2>2 DEF Goto
  <2>4. slept[cur[c]] = 0 /\ (ticks - ticks) % TickRange = 0
    <3>1. ticks \in 0..(TickRange - 1)
      BY <1>0, <1>t, Zenon
    <3> QED
      BY <1>0, <2>1, <3>1, Elapse, Zenon DEF PauseInv, PauseOK
  <2>5. \A p \in Slot : p # cur[c] => PauseOK(p)'
    BY <1>0, <2>1, <2>3, PauseFrame, SMTT(40)
  <2>6. ASSUME NEW p \in Slot, p = cur[c] PROVE PauseOK(p)'
    <3>1. /\ pc'[p] = "check" /\ lk'[p] = "tickslock" /\ pause'[p] = <<ticks, n>>
          /\ ticks' = ticks /\ slept'[p] = 0
      BY <2>1, <2>3, <2>4, <2>6, Zenon
    <3>2. pause'[p][1] = ticks
      BY <3>1
    <3>3. (ticks' - pause'[p][1]) % TickRange = 0 /\ 0 >= 0
      <4>1. 0 >= 0
        OBVIOUS
      <4> QED
        BY <2>4, <3>1, <3>2, <4>1, Zenon
    <3>4. Counted(p)'
      BY <3>1, <3>3, Zenon DEF Counted
    <3> QED
      BY <3>1, <3>4, Zenon DEF PauseOK
  <2> QED
    BY <2>5, <2>6, Zenon DEF PauseInv
<1> QED
  BY <1>1, <1>2, <1>3, <1>4, <1>5, <1>6, <1>7, <1>8, <1>9, <1>10, <1>11, <1>12, <1>13,
     <1>14, <1>15, <1>16 DEF CpuStep, KernelStep, UserStep
-----------------------------------------------------------------------------
(* The theorems.                                                            *)

\* userinit leaves one process that waits to run.
LEMMA ProcInit == Init => IInv
<1> SUFFICES ASSUME Init PROVE IInv
  OBVIOUS
<1> USE Constants, Names DEF Init
<1>1. TypeOK
  <2>1. /\ 0 \in 0..MaxPid /\ 1 \in 0..MaxPid /\ 2 \in 1..(MaxPid + 1)
        /\ 0 \in 0..(TickRange - 1) /\ 0 \in 0..MaxPause
    BY ProcAssumption
  <2>2. pstate \in [Slot -> State] /\ pc \in [Slot -> Point] /\ lk \in [Slot -> LockName]
    OBVIOUS
  <2>3. pid \in [Slot -> 0..MaxPid]
    BY <2>1
  <2>4. /\ pause \in [Slot -> (0..(TickRange - 1)) \X (0..MaxPause)]
        /\ slept \in [Slot -> 0..MaxPause]
    BY <2>1, Zenon
  <2> QED
    BY <2>1, <2>2, <2>3, <2>4, Zenon DEF TypeOK
<1>2. StateInv /\ CpuInv
  BY DEF StateInv, CpuInv
<1>2a. ForkInv
  BY DEF ForkInv, Forking
<1>3. LockInv
  BY Zenon DEF LockInv, Holds, HoldsProc
<1>4. InitInv /\ ParentAlive
  BY Zenon DEF InitInv, ParentAlive
<1>5. WaitInv
  BY Zenon DEF WaitInv
<1>6. PauseInv
  BY DEF PauseInv, PauseOK, InPause
<1> QED
  BY <1>1, <1>2, <1>2a, <1>3, <1>4, <1>5, <1>6 DEF IInv

\* A step that changes nothing.
LEMMA ProcStutter ==
    ASSUME IInv, UNCHANGED vars
    PROVE  IInv'
<1> USE DEF vars, table, locks, thread, clock
<1>1. TypeOK'
  BY Zenon DEF IInv, TypeOK
<1>2. StateInv' /\ CpuInv'
  BY SMTT(40) DEF IInv, StateInv, CpuInv
<1>3. LockInv'
  <2>1. UNCHANGED <<plock, lock, cur, pc, lk>>
    OBVIOUS
  <2>2. \A c \in Cpu : /\ HoldsProc(c)' <=> HoldsProc(c)
                       /\ \A l \in LockName : Holds(c, l)' <=> Holds(c, l)
    BY <2>1, ZenonT(40) DEF Holds, HoldsProc
  <2> QED
    BY <2>1, <2>2, ZenonT(40) DEF IInv, LockInv
<1>4. ForkInv' /\ InitInv' /\ ParentAlive'
  BY ZenonT(40) DEF IInv, ForkInv, Forking, InitInv, ParentAlive
<1>5. WaitInv'
  BY ZenonT(40) DEF IInv, WaitInv, NoZombieKid
<1>6. PauseInv'
  BY Zenon DEF IInv, PauseInv, PauseOK, InPause, Counted
<1> QED
  BY <1>1, <1>2, <1>3, <1>4, <1>5, <1>6 DEF IInv

\* The invariant holds in every state of every behaviour.
THEOREM ProcInvariant == Spec => []IInv
<1>1. Init => IInv
  BY ProcInit
<1>2. IInv /\ [Next]_vars => IInv'
  <2> SUFFICES ASSUME IInv, [Next]_vars PROVE IInv'
    OBVIOUS
  <2>1. CASE UNCHANGED vars
    BY <2>1, ProcStutter, Zenon
  <2>2. ASSUME NEW c \in Cpu, CpuStep(c) PROVE IInv'
    <3>1. TypeOK
      BY DEF IInv
    <3> QED
      BY <2>2, <3>1, TypeStep, StateStep, CpuInvStep, LockStep, ForkStep, InitStep,
         ParentStep, WaitStep, PauseStep DEF IInv
  <2> QED
    BY <2>1, <2>2 DEF Next, CpuStep
<1> QED
  BY <1>1, <1>2, PTL DEF Spec

\* No kernel stack is in use by two CPUs, or freed while a CPU is still on it:
\* freeproc never gets at a zombie whose CPU has not yet left it in sched.
THEOREM StacksSafe == Spec => []StackInUse
<1>1. IInv => StackInUse
  BY DEF IInv, CpuInv, StackInUse
<1> QED
  BY <1>1, ProcInvariant, PTL

\* Every parent can still wait: exit passes children to the first process, and
\* a process is freed only when it has none.
THEOREM ParentsAlive == Spec => []ParentAlive
<1>1. IInv => ParentAlive
  BY SMTT(40) DEF IInv
<1> QED
  BY <1>1, ProcInvariant, PTL

\* No process sleeps in wait beside a child that has exited: the wakeup of
\* exit is not lost between the scan of the table and the sleep.
THEOREM ChildrenFound == Spec => []NoLostChild
<1>1. IInv => NoLostChild
  BY ZenonT(40) DEF IInv, WaitInv, NoZombieKid, NoLostChild, Kids
<1> QED
  BY <1>1, ProcInvariant, PTL

\* pause(n) takes n ticks, wherever the counter of ticks wraps around.
THEOREM PausesLongEnough == Spec => []PauseLongEnough
<1>1. IInv => PauseLongEnough
  BY Zenon DEF IInv, PauseInv, PauseOK, PauseLongEnough
<1> QED
  BY <1>1, ProcInvariant, PTL

\* Neither sched ("sched p->lock", "sched locks") nor exit ("init exiting")
\* ever panics.
THEOREM NoPanic == Spec => []~panic
<1>1. IInv => ~panic
  BY Zenon DEF IInv, InitInv
<1> QED
  BY <1>1, ProcInvariant, PTL
=============================================================================
