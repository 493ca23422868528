--------------------------- MODULE ConsoleProofs ----------------------------
(***************************************************************************)
(* Proofs about Console: a handler never waits for a lock of the thread it *)
(* interrupted, no writer is left asleep, and console.c is a Terminal.     *)
(***************************************************************************)
EXTENDS Console, TLAPS

ThreadPoint == {"user", "ret", "read", "reading", "rsleep", "uartwrite", "writing",
                "wsleep", "printf", "poll", "put"}
HandlerPoint == {"none", "tx", "rx", "poll", "put", "procdump", "dpoll", "dput", "done"}

\* The types of the variables that locks and interrupts depend on.
LockTypes ==
    /\ lock \in [Lock -> Cpu \cup {None}]
    /\ noff \in [Cpu -> Nat] /\ intena \in [Cpu -> BOOLEAN] /\ on \in [Cpu -> BOOLEAN]
    /\ pc \in [Cpu -> ThreadPoint] /\ h \in [Cpu -> HandlerPoint]

\* How deep push_off is nested at each point of the thread and of the handler.
ThreadDepth(l) == IF l = "put" THEN 2 ELSE IF l \in {"reading", "writing", "poll"} THEN 1 ELSE 0
HandlerDepth(l) ==
    IF l = "dput" THEN 3 ELSE IF l \in {"put", "dpoll"} THEN 2
    ELSE IF l \in {"poll", "procdump", "done"} THEN 1 ELSE 0

\* The points at which a CPU has each of the locks.
ThreadHas(l) ==
    CASE l = "cons" -> {"reading"} [] l = "tx" -> {"writing"} [] l = "pr" -> {"poll", "put"}
HandlerHas(l) ==
    CASE l = "cons" -> {"poll", "put", "procdump", "dpoll", "dput", "done"}
      [] l = "tx" -> {}
      [] l = "pr" -> {"dpoll", "dput"}

\* A handler runs only on a thread outside of push_off; noff counts, intena
\* remembers that the interrupts were on in the thread and off in the handler,
\* and they are on exactly when neither a lock is held nor a handler runs.
IrqInv(c) ==
    /\ h[c] # "none" => ThreadDepth(pc[c]) = 0
    /\ noff[c] = ThreadDepth(pc[c]) + HandlerDepth(h[c])
    /\ noff[c] > 0 => (intena[c] <=> h[c] = "none")
    /\ on[c] <=> noff[c] = 0 /\ h[c] = "none"

\* Who has a lock is where the lock is held.
LockInv(c) ==
    \A l \in Lock : lock[l] = c <=> pc[c] \in ThreadHas(l) \/ h[c] \in HandlerHas(l)

IInv == LockTypes /\ \A c \in Cpu : IrqInv(c) /\ LockInv(c)

\* What a busy transmitter needs: the number of characters is not negative.
SendInv == fifo \in Nat /\ SenderWoken

-----------------------------------------------------------------------------
(* Locks and interrupts.                                                    *)

\* What a step of CPU c may change of another CPU: a sleeper is woken.
Frame(c) ==
    \A d \in Cpu \ {c} :
        /\ noff'[d] = noff[d] /\ intena'[d] = intena[d] /\ on'[d] = on[d] /\ h'[d] = h[d]
        /\ \/ pc'[d] = pc[d]
           \/ pc[d] \in {"rsleep", "wsleep"} /\ pc'[d] \in {"read", "uartwrite"}
        /\ \A l \in Lock : lock'[l] = d <=> lock[l] = d

\* A step of CPU c leaves the invariant of the other CPUs alone.
LEMMA OtherCpus ==
    ASSUME IInv, NEW c \in Cpu, LockTypes', Frame(c), IrqInv(c)', LockInv(c)'
    PROVE  IInv'
<1>1. ASSUME NEW d \in Cpu, d # c
      PROVE  IrqInv(d)'
  BY <1>1 DEF IInv, Frame, IrqInv, ThreadDepth, HandlerDepth
<1>2. ASSUME NEW d \in Cpu, d # c
      PROVE  LockInv(d)'
  BY <1>2 DEF IInv, Frame, LockInv, ThreadHas, HandlerHas, Lock
<1> QED
  BY <1>1, <1>2 DEF IInv

\* A step that leaves locks, interrupts and handlers alone, and takes the thread
\* of c from one point without locks to another.
LEMMA QuietStep ==
    ASSUME IInv, NEW c \in Cpu, UNCHANGED <<lock, irqs, h>>,
           NEW to \in {"user", "ret", "read", "rsleep", "uartwrite", "wsleep"},
           pc[c] \in {"user", "ret", "read", "rsleep", "uartwrite", "wsleep"},
           pc' = [pc EXCEPT ![c] = to]
    PROVE  IInv'
<1>1. LockTypes' /\ Frame(c)
  BY DEF IInv, LockTypes, Frame, irqs, ThreadPoint
<1>2. IrqInv(c)'
  BY DEF IInv, LockTypes, IrqInv, irqs, ThreadDepth, HandlerDepth
<1>3. LockInv(c)'
  BY DEF IInv, LockTypes, LockInv, ThreadHas, HandlerHas, Lock
<1> QED
  BY <1>1, <1>2, <1>3, OtherCpus

\* The thread of c takes a lock.
LEMMA ThreadAcquires ==
    ASSUME IInv, NEW c \in Cpu, NEW l \in Lock, acquire(c, l), UNCHANGED h, h[c] = "none",
           pc[c] \in {"user", "read", "uartwrite"},
           NEW to \in {"reading", "writing", "poll"}, to \in ThreadHas(l),
           pc' = [pc EXCEPT ![c] = to]
    PROVE  IInv'
<1>1. LockTypes' /\ Frame(c)
  BY ConsoleAssumption DEF IInv, LockTypes, Frame, acquire, push_off, ThreadPoint
<1>2. IrqInv(c)'
  BY DEF IInv, LockTypes, IrqInv, acquire, push_off, ThreadDepth, HandlerDepth
<1>3. LockInv(c)'
  BY DEF IInv, LockTypes, LockInv, acquire, ThreadHas, HandlerHas, Lock
<1> QED
  BY <1>1, <1>2, <1>3, OtherCpus

\* The thread of c drops the one lock it has.
LEMMA ThreadReleases ==
    ASSUME IInv, NEW c \in Cpu, NEW l \in Lock, release(c, l), UNCHANGED h, h[c] = "none",
           pc[c] \in {"reading", "writing", "poll"}, pc[c] \in ThreadHas(l),
           NEW to \in {"user", "ret", "rsleep", "uartwrite", "wsleep"},
           pc' = [pc EXCEPT ![c] = to]
    PROVE  IInv'
<1>1. LockTypes' /\ Frame(c)
  BY ConsoleAssumption
     DEF IInv, LockTypes, Frame, release, pop_off, ThreadPoint, IrqInv, LockInv, ThreadDepth,
         HandlerDepth
<1>2. IrqInv(c)'
  BY DEF IInv, LockTypes, IrqInv, release, pop_off, ThreadDepth, HandlerDepth
<1>3. LockInv(c)'
  BY ConsoleAssumption
     DEF IInv, LockTypes, LockInv, release, ThreadHas, HandlerHas, Lock
<1> QED
  BY <1>1, <1>2, <1>3, OtherCpus

\* A wakeup only moves sleepers.
LEMMA WakeupSleepers ==
    ASSUME IInv, NEW c \in Cpu,
           \/ Wakeup("wsleep", "uartwrite") \/ Wakeup("rsleep", "read") \/ UNCHANGED pc
    PROVE  /\ pc' \in [Cpu -> ThreadPoint]
           /\ \A d \in Cpu : \/ pc'[d] = pc[d]
                             \/ /\ pc[d] \in {"rsleep", "wsleep"}
                                /\ pc'[d] \in {"read", "uartwrite"}
BY DEF IInv, LockTypes, Wakeup, ThreadPoint

\* A step of the handler of c, which leaves the thread of c alone or wakes it.
LEMMA HandlerStep ==
    ASSUME IInv, NEW c \in Cpu, LockTypes', h[c] # "none", h'[c] # "none",
           \A d \in Cpu : \/ pc'[d] = pc[d]
                          \/ pc[d] \in {"rsleep", "wsleep"} /\ pc'[d] \in {"read", "uartwrite"},
           \A d \in Cpu \ {c} : /\ noff'[d] = noff[d] /\ intena'[d] = intena[d]
                                /\ on'[d] = on[d] /\ h'[d] = h[d],
           \A d \in Cpu \ {c} : \A l \in Lock : lock'[l] = d <=> lock[l] = d,
           noff'[c] = HandlerDepth(h'[c]), ~on'[c], noff'[c] > 0 => ~intena'[c],
           \A l \in Lock : lock'[l] = c <=> h'[c] \in HandlerHas(l)
    PROVE  IInv'
<1>1. Frame(c)
  BY DEF Frame
<1>2. ThreadDepth(pc[c]) = 0 /\ ThreadDepth(pc'[c]) = 0
  BY DEF IInv, IrqInv, ThreadDepth
<1>3. IrqInv(c)'
  BY <1>2 DEF IrqInv, LockTypes, HandlerPoint, HandlerDepth
<1>4. \A l \in Lock : pc'[c] \notin ThreadHas(l)
  BY <1>2 DEF ThreadDepth, ThreadHas, Lock
<1>5. LockInv(c)'
  BY <1>4 DEF LockInv
<1> QED
  BY <1>1, <1>3, <1>5, OtherCpus

\* Every step of a thread keeps the invariant.
LEMMA ThreadKeeps ==
    ASSUME IInv, NEW c \in Cpu, ThreadNext(c)
    PROVE  IInv'
<1> USE DEF Runs, Goto
<1>1. CASE sys_read(c)
  BY <1>1, QuietStep DEF sys_read
<1>2. CASE sys_ret(c)
  BY <1>2, QuietStep DEF sys_ret
<1>3. CASE read_acquire(c)
  BY <1>3, ThreadAcquires DEF read_acquire, ThreadHas, Lock
<1>4. ASSUME NEW l \in {"cons"}, Runs(c, "reading"), Return(c, l), UNCHANGED h
      PROVE  IInv'
  BY <1>4, ThreadReleases DEF Return, ThreadHas, Lock
<1>5. CASE read_empty(c)
  BY <1>5, <1>4, ThreadReleases DEF read_empty, ThreadHas, Lock
<1>6. CASE consoleread(c)
  <2>1. CASE Return(c, "cons")
    BY <2>1, <1>4, <1>6 DEF consoleread
  <2>2. CASE UNCHANGED <<lock, irqs, pc, h>>
    BY <2>2 DEF IInv, LockTypes, IrqInv, LockInv, irqs
  <2> QED
    BY <1>6, <2>1, <2>2 DEF consoleread
<1>7. CASE read_full(c)
  BY <1>7, <1>4 DEF read_full
<1>8. CASE kkill(c)
  BY <1>8, QuietStep DEF kkill
<1>9. CASE sys_write(c)
  BY <1>9, QuietStep DEF sys_write, consolewrite
<1>10. CASE write_acquire(c)
  BY <1>10, ThreadAcquires DEF write_acquire, ThreadHas, Lock
<1>11. CASE uartwrite(c)
  <2>1. CASE UNCHANGED <<lock, irqs, pc, h>>
    BY <2>1 DEF IInv, LockTypes, IrqInv, LockInv, irqs
  <2> QED
    BY <1>11, <2>1, ThreadReleases DEF uartwrite, ThreadHas, Lock
<1>12. CASE uartwrite_ret(c)
  BY <1>12, ThreadReleases DEF uartwrite_ret, consolewrite, ThreadHas, Lock
<1>13. CASE printf(c)
  BY <1>13, ThreadAcquires DEF printf, ThreadHas, Lock
<1>14. CASE printf_poll(c)
  <2>1. LockTypes' /\ Frame(c)
    BY <1>14 DEF printf_poll, IInv, LockTypes, Frame, push_off, ThreadPoint
  <2>2. IrqInv(c)'
    BY <1>14 DEF printf_poll, IInv, LockTypes, IrqInv, push_off, ThreadDepth, HandlerDepth
  <2>3. LockInv(c)'
    BY <1>14 DEF printf_poll, IInv, LockTypes, LockInv, ThreadHas, HandlerHas, Lock
  <2> QED
    BY <2>1, <2>2, <2>3, OtherCpus
<1>15. CASE printf_put(c)
  <2>1. LockTypes' /\ Frame(c)
    BY <1>15, ConsoleAssumption
       DEF printf_put, IInv, LockTypes, Frame, pop_off, ThreadPoint, IrqInv, LockInv, ThreadDepth,
           HandlerDepth, ThreadHas, HandlerHas, Lock
  <2>2. IrqInv(c)'
    BY <1>15 DEF printf_put, IInv, LockTypes, IrqInv, pop_off, ThreadDepth, HandlerDepth
  <2>3. LockInv(c)'
    BY <1>15, ConsoleAssumption
       DEF printf_put, IInv, LockTypes, LockInv, ThreadHas, HandlerHas, Lock
  <2> QED
    BY <2>1, <2>2, <2>3, OtherCpus
<1> QED
  BY <1>1, <1>2, <1>3, <1>5, <1>6, <1>7, <1>8, <1>9, <1>10, <1>11, <1>12, <1>13, <1>14, <1>15
     DEF ThreadNext

\* Every step of a handler keeps the invariant.
LEMMA HandlerKeeps ==
    ASSUME IInv, NEW c \in Cpu, HandlerNext(c)
    PROVE  IInv'
<1> USE DEF Handles, Handle, HandlerPoint
<1>0. /\ LockTypes /\ IrqInv(c) /\ LockInv(c)
      /\ h[c] # "none" => \A l \in Lock : pc[c] \notin ThreadHas(l)
  BY DEF IInv, IrqInv, ThreadDepth, ThreadHas, Lock
<1>1. CASE devintr(c)
  <2>1. LockTypes' /\ Frame(c)
    BY <1>1, <1>0 DEF devintr, LockTypes, Frame, thread
  <2>2. IrqInv(c)' /\ LockInv(c)'
    BY <1>1, <1>0
       DEF devintr, thread, LockTypes, IrqInv, LockInv, ThreadDepth, HandlerDepth, ThreadHas,
           HandlerHas, Lock
  <2> QED
    BY <2>1, <2>2, OtherCpus
<1>2. CASE uartintr(c)
  BY <1>2, <1>0, WakeupSleepers, HandlerStep
     DEF uartintr, LockTypes, irqs, IrqInv, LockInv, HandlerDepth, HandlerHas, Lock
<1>3. CASE uartintr_ret(c)
  <2>1. LockTypes' /\ Frame(c)
    BY <1>3, <1>0 DEF uartintr_ret, LockTypes, Frame, thread
  <2>2. IrqInv(c)' /\ LockInv(c)'
    BY <1>3, <1>0
       DEF uartintr_ret, thread, LockTypes, IrqInv, LockInv, ThreadDepth, HandlerDepth, ThreadHas,
           HandlerHas, Lock
  <2> QED
    BY <2>1, <2>2, OtherCpus
<1>4. CASE consoleintr(c)
  <2>1. /\ \/ h' = [h EXCEPT ![c] = "procdump"] \/ h' = [h EXCEPT ![c] = "done"]
           \/ h' = [h EXCEPT ![c] = "poll"]
        /\ Wakeup("rsleep", "read") \/ UNCHANGED pc
        /\ h[c] = "rx" /\ acquire(c, "cons")
    BY <1>4 DEF consoleintr
  <2>2. LockTypes'
    BY <1>0, <2>1, WakeupSleepers DEF LockTypes, acquire, push_off, Lock
  <2>3. \A l \in Lock : lock'[l] = c <=> h'[c] \in HandlerHas(l)
    BY <1>0, <2>1, ConsoleAssumption DEF LockTypes, LockInv, acquire, HandlerHas, Lock
  <2>4. /\ \A d \in Cpu \ {c} : /\ noff'[d] = noff[d] /\ intena'[d] = intena[d]
                                /\ on'[d] = on[d] /\ h'[d] = h[d]
        /\ \A d \in Cpu \ {c} : \A l \in Lock : lock'[l] = d <=> lock[l] = d
    BY <1>0, <2>1, ConsoleAssumption DEF LockTypes, acquire, push_off, Lock
  <2>5. noff'[c] = HandlerDepth(h'[c]) /\ ~on'[c] /\ (noff'[c] > 0 => ~intena'[c])
    BY <1>0, <2>1 DEF LockTypes, acquire, push_off, IrqInv, ThreadDepth, HandlerDepth
  <2> QED
    BY <2>1, <2>2, <2>3, <2>4, <2>5, WakeupSleepers, HandlerStep DEF LockTypes
<1>5. ASSUME NEW from, NEW to, h[c] = from, h' = [h EXCEPT ![c] = to], push_off(c),
             UNCHANGED <<lock, pc>>, <<from, to>> \in {<<"poll", "put">>, <<"dpoll", "dput">>}
      PROVE  IInv'
  <2>1. LockTypes'
    BY <1>0, <1>5 DEF LockTypes, push_off
  <2>2. \A l \in Lock : lock'[l] = c <=> h'[c] \in HandlerHas(l)
    BY <1>0, <1>5 DEF LockTypes, LockInv, HandlerHas, Lock
  <2>3. noff'[c] = HandlerDepth(h'[c]) /\ ~on'[c] /\ (noff'[c] > 0 => ~intena'[c])
    BY <1>0, <1>5 DEF LockTypes, push_off, IrqInv, ThreadDepth, HandlerDepth
  <2> QED
    BY <1>0, <1>5, <2>1, <2>2, <2>3, HandlerStep DEF LockTypes, push_off
<1>6. CASE echo_poll(c)
  BY <1>6, <1>5 DEF echo_poll, thread
<1>7. CASE dump_poll(c)
  BY <1>7, <1>5 DEF dump_poll, thread
<1>8. CASE echo_put(c)
  <2>1. LockTypes'
    BY <1>0, <1>8 DEF echo_put, LockTypes, pop_off, IrqInv, HandlerDepth, ThreadDepth, thread
  <2>2. \A l \in Lock : lock'[l] = c <=> h'[c] \in HandlerHas(l)
    BY <1>0, <1>8 DEF echo_put, LockTypes, LockInv, HandlerHas, Lock
  <2>3. noff'[c] = HandlerDepth(h'[c]) /\ ~on'[c] /\ (noff'[c] > 0 => ~intena'[c])
    BY <1>0, <1>8 DEF echo_put, LockTypes, pop_off, IrqInv, ThreadDepth, HandlerDepth
  <2> QED
    BY <1>0, <1>8, <2>1, <2>2, <2>3, HandlerStep DEF echo_put, LockTypes, pop_off, thread
<1>9. CASE procdump(c)
  <2>1. LockTypes'
    BY <1>0, <1>9 DEF procdump, LockTypes, acquire, push_off, Lock, thread
  <2>2. \A l \in Lock : lock'[l] = c <=> h'[c] \in HandlerHas(l)
    BY <1>0, <1>9, ConsoleAssumption DEF procdump, LockTypes, LockInv, acquire, HandlerHas, Lock
  <2>3. noff'[c] = HandlerDepth(h'[c]) /\ ~on'[c] /\ (noff'[c] > 0 => ~intena'[c])
    BY <1>0, <1>9 DEF procdump, LockTypes, acquire, push_off, IrqInv, ThreadDepth, HandlerDepth
  <2>4. \A d \in Cpu \ {c} : \A l \in Lock : lock'[l] = d <=> lock[l] = d
    BY <1>0, <1>9, ConsoleAssumption DEF procdump, LockTypes, acquire, Lock
  <2>5. /\ h[c] # "none" /\ h'[c] # "none" /\ UNCHANGED pc
        /\ \A d \in Cpu \ {c} : /\ noff'[d] = noff[d] /\ intena'[d] = intena[d]
                                /\ on'[d] = on[d] /\ h'[d] = h[d]
    BY <1>0, <1>9 DEF procdump, LockTypes, acquire, push_off, thread
  <2> QED
    BY <2>1, <2>2, <2>3, <2>4, <2>5, HandlerStep
<1>10. CASE dump_put(c)
  <2>1. LockTypes'
    BY <1>0, <1>10
       DEF dump_put, LockTypes, pop_off, Lock, thread, IrqInv, HandlerDepth, ThreadDepth
  <2>2. \A l \in Lock : lock'[l] = c <=> h'[c] \in HandlerHas(l)
    BY <1>0, <1>10, ConsoleAssumption DEF dump_put, LockTypes, LockInv, HandlerHas, Lock
  <2>3. noff'[c] = HandlerDepth(h'[c]) /\ ~on'[c] /\ (noff'[c] > 0 => ~intena'[c])
    BY <1>0, <1>10 DEF dump_put, LockTypes, pop_off, IrqInv, ThreadDepth, HandlerDepth
  <2>4. \A d \in Cpu \ {c} : \A l \in Lock : lock'[l] = d <=> lock[l] = d
    BY <1>0, <1>10, ConsoleAssumption DEF dump_put, LockTypes, LockInv, HandlerHas, Lock
  <2>5. /\ h[c] # "none" /\ h'[c] # "none" /\ UNCHANGED pc
        /\ \A d \in Cpu \ {c} : /\ noff'[d] = noff[d] /\ intena'[d] = intena[d]
                                /\ on'[d] = on[d] /\ h'[d] = h[d]
    BY <1>0, <1>10 DEF dump_put, LockTypes, pop_off, thread
  <2> QED
    BY <2>1, <2>2, <2>3, <2>4, <2>5, HandlerStep, Zenon
<1>11. CASE consoleintr_ret(c)
  <2>1. LockTypes'
    BY <1>0, <1>11
       DEF consoleintr_ret, LockTypes, release, pop_off, Lock, thread, IrqInv, HandlerDepth,
           ThreadDepth
  <2>2. \A l \in Lock : lock'[l] = c <=> h'[c] \in HandlerHas(l)
    BY <1>0, <1>11, ConsoleAssumption
       DEF consoleintr_ret, release, LockTypes, LockInv, HandlerHas, Lock
  <2>3. noff'[c] = HandlerDepth(h'[c]) /\ ~on'[c] /\ (noff'[c] > 0 => ~intena'[c])
    BY <1>0, <1>11
       DEF consoleintr_ret, release, LockTypes, pop_off, IrqInv, ThreadDepth, HandlerDepth
  <2>4. \A d \in Cpu \ {c} : \A l \in Lock : lock'[l] = d <=> lock[l] = d
    BY <1>0, <1>11, ConsoleAssumption
       DEF consoleintr_ret, release, LockTypes, LockInv, HandlerHas, Lock
  <2>5. /\ h[c] # "none" /\ h'[c] # "none" /\ UNCHANGED pc
        /\ \A d \in Cpu \ {c} : /\ noff'[d] = noff[d] /\ intena'[d] = intena[d]
                                /\ on'[d] = on[d] /\ h'[d] = h[d]
    BY <1>0, <1>11 DEF consoleintr_ret, release, LockTypes, pop_off, thread
  <2> QED
    BY <2>1, <2>2, <2>3, <2>4, <2>5, HandlerStep, Zenon
<1> QED
  BY <1>1, <1>2, <1>3, <1>4, <1>6, <1>7, <1>8, <1>9, <1>10, <1>11 DEF HandlerNext

\* Who has which lock, how deep push_off is nested and whether interrupts are
\* on follow from where the threads and the handlers are.
THEOREM InterruptInvariant == Spec => []IInv
<1>1. Init => IInv
  <2> SUFFICES ASSUME Init
               PROVE  IInv
    OBVIOUS
  <2>1. LockTypes
    BY DEF Init, LockTypes, ThreadPoint, HandlerPoint
  <2>2. ASSUME NEW c \in Cpu
        PROVE  IrqInv(c)
    BY DEF Init, IrqInv, ThreadDepth, HandlerDepth
  <2>3. ASSUME NEW c \in Cpu
        PROVE  LockInv(c)
    BY ConsoleAssumption DEF Init, LockInv, ThreadHas, HandlerHas, Lock
  <2> QED
    BY <2>1, <2>2, <2>3 DEF IInv
<1>2. IInv /\ [Next]_vars => IInv'
  <2> SUFFICES ASSUME IInv, [Next]_vars
               PROVE  IInv'
    OBVIOUS
  <2>1. CASE UNCHANGED <<lock, irqs, pc, h>>
    BY <2>1 DEF IInv, LockTypes, IrqInv, LockInv, irqs
  <2>2. CASE UNCHANGED vars \/ Transmit \/ \E k \in Key : Press(k)
    BY <2>1, <2>2 DEF vars, Transmit, Press, thread
  <2> QED
    BY <2>2, ThreadKeeps, HandlerKeeps DEF Next
<1> QED
  BY <1>1, <1>2, PTL DEF Spec

\* No handler waits for a lock that the thread it interrupted holds.
THEOREM HandlersNeverWait == Spec => []NoSelfDeadlock
<1>1. ASSUME IInv, NEW c \in Cpu, h[c] # "none"
      PROVE  \A l \in Lock : lock[l] = c <=> h[c] \in HandlerHas(l)
  BY <1>1 DEF IInv, IrqInv, LockInv, ThreadDepth, ThreadHas, Lock
<1>2. IInv => NoSelfDeadlock
  BY <1>1 DEF NoSelfDeadlock, Handles, HandlerHas, Lock
<1> QED
  BY <1>2, InterruptInvariant, PTL

-----------------------------------------------------------------------------
(* The transmitter.                                                         *)

\* As long as uartwrite has to wait there is something that will wake it.
THEOREM WritersWoken == Spec => []SenderWoken
<1>1. Init => SendInv
  BY DEF Init, uartinit, SendInv, SenderWoken
<1>2. IInv /\ SendInv /\ [Next]_vars => SendInv'
  <2> SUFFICES ASSUME IInv, SendInv, [Next]_vars
               PROVE  SendInv'
    OBVIOUS
  <2> USE DEF SendInv, SenderWoken, Handles, uart
  <2>1. CASE UNCHANGED <<tx_busy, thre, fifo, h>>
    BY <2>1
  <2>2. CASE THR /\ (UNCHANGED tx_busy \/ tx_busy' = TRUE)
    BY <2>2 DEF THR
  <2>3. ASSUME NEW c \in Cpu, UNCHANGED <<tx_busy, thre, fifo>>, h[c] # "tx",
               NEW to, h' = [h EXCEPT ![c] = to]
        PROVE  SendInv'
    BY <2>3 DEF IInv, LockTypes
  <2>4. CASE UNCHANGED vars \/ Transmit \/ \E k \in Key : Press(k)
    <3>1. CASE Transmit
      <4>1. fifo \in Nat /\ fifo' = fifo - 1 /\ fifo > 0 /\ thre' = (fifo = 1)
        BY <3>1 DEF Transmit
      <4>2. fifo' \in Nat /\ (fifo' > 0 \/ fifo = 1)
        BY <4>1
      <4>3. fifo = 1 => thre'
        BY <4>1, Zenon
      <4> QED
        BY <4>2, <4>3
    <3> QED
      BY <2>4, <2>1, <3>1 DEF vars, Press
  <2>5. ASSUME NEW c \in Cpu, ThreadNext(c)
        PROVE  SendInv'
    BY <2>5, <2>1, <2>2
       DEF ThreadNext, sys_read, sys_ret, read_acquire, read_empty, consoleread, read_full, kkill,
           sys_write, write_acquire, uartwrite, uartwrite_ret, printf, printf_poll, printf_put
  <2>6. ASSUME NEW c \in Cpu, HandlerNext(c)
        PROVE  SendInv'
    <3> USE DEF Handle
    <3>1. CASE devintr(c)
      BY <3>1 DEF devintr, IInv, LockTypes
    <3>2. CASE uartintr(c)
      BY <3>2, <2>3 DEF uartintr
    <3>3. CASE uartintr_ret(c) \/ echo_poll(c) \/ procdump(c) \/ dump_poll(c) \/ consoleintr_ret(c)
      BY <3>3, <2>3 DEF uartintr_ret, echo_poll, procdump, dump_poll, consoleintr_ret
    <3>4. CASE consoleintr(c)
      <4>1. PICK to : h' = [h EXCEPT ![c] = to]
        BY <3>4 DEF consoleintr
      <4> QED
        BY <3>4, <4>1, <2>3 DEF consoleintr
    <3>5. CASE echo_put(c) \/ dump_put(c)
      BY <3>5, <2>2 DEF echo_put, dump_put
    <3> QED
      BY <2>6, <3>1, <3>2, <3>3, <3>4, <3>5 DEF HandlerNext
  <2> QED
    BY <2>4, <2>5, <2>6 DEF Next
<1>3. SendInv => SenderWoken
  BY DEF SendInv
<1> QED
  BY <1>1, <1>2, <1>3, InterruptInvariant, PTL DEF Spec
-----------------------------------------------------------------------------
(* The indices of the input ring run modulo CountRange, a multiple of its   *)
(* size.                                                                    *)

\* Division with remainder.
LEMMA DivMod ==
    ASSUME NEW m \in Nat \ {0}, NEW a \in Int
    PROVE  a % m \in 0..(m - 1) /\ a \div m \in Int /\ a = (m * (a \div m)) + (a % m)
OBVIOUS

\* The remainder is the only one.
LEMMA ModUnique ==
    ASSUME NEW m \in Nat \ {0}, NEW q \in Int, NEW b \in 0..(m - 1)
    PROVE  ((m * q) + b) % m = b
OBVIOUS

\* A multiple of m does not change the remainder.
LEMMA ModShift ==
    ASSUME NEW m \in Nat \ {0}, NEW n \in Nat, n % m = 0, NEW a \in Int
    PROVE  (a - n) % m = a % m
<1> DEFINE q == (a \div m) - (n \div m)
<1>1. n = m * (n \div m) /\ n \div m \in Int
  BY DivMod
<1>2. a = (m * (a \div m)) + (a % m) /\ a \div m \in Int /\ a % m \in 0..(m - 1)
  BY DivMod
<1>3. q \in Int /\ m * q = (m * (a \div m)) - (m * (n \div m))
  BY <1>1, <1>2
<1>4. a - n = (m * q) + (a % m)
  BY <1>1, <1>2, <1>3
<1> HIDE DEF q
<1> QED
  BY <1>2, <1>3, <1>4, ModUnique

\* Numbers less than m apart have different remainders.
LEMMA ModDiffer ==
    ASSUME NEW m \in Nat \ {0}, NEW a \in Int, NEW b \in Int, a < b, b - a < m
    PROVE  a % m # b % m
<1> SUFFICES ASSUME a % m = b % m
             PROVE  FALSE
  OBVIOUS
<1> DEFINE q == (b \div m) - (a \div m)
<1>1. /\ a = (m * (a \div m)) + (a % m) /\ a \div m \in Int /\ a % m \in Int
      /\ b = (m * (b \div m)) + (b % m) /\ b \div m \in Int
  BY DivMod
<1>2. q \in Int /\ m * q = (m * (b \div m)) - (m * (a \div m))
  BY <1>1
<1>3. b - a = m * q
  BY <1>1, <1>2
<1> HIDE DEF q
<1>4. m * q > 0 /\ m * q < m
  BY <1>3
<1> QED
  BY <1>2, <1>4

\* The remainder of what is at most one round away.
LEMMA ModNear ==
    ASSUME NEW m \in Nat \ {0}, NEW a \in Int
    PROVE  /\ a \in 0..(m - 1) => a % m = a
           /\ a \in m..((2 * m) - 1) => a % m = a - m
           /\ a \in (-m)..(-1) => a % m = a + m
OBVIOUS

\* What is assumed of the sizes.
LEMMA Sizes ==
    /\ CountRange \in Nat /\ CountRange > 1 /\ CountRange > INPUT_BUF_SIZE
    /\ INPUT_BUF_SIZE \in Nat \ {0}
    /\ \A n \in 0..(CountRange - 1) : n \in Nat /\ n < CountRange
BY ConsoleAssumption

\* How far j is ahead of i.
Dist(i, j) == (j - i) % CountRange

\* The two cases of a distance: j has wrapped around, or not.
LEMMA DistCases ==
    ASSUME NEW i \in Index, NEW j \in Index
    PROVE  /\ Dist(i, j) \in 0..(CountRange - 1)
           /\ Dist(i, j) = IF i <= j THEN j - i ELSE (j - i) + CountRange
<1> DEFINE m == CountRange
<1>1. m \in Nat \ {0} /\ i \in 0..(m - 1) /\ j \in 0..(m - 1)
  BY ConsoleAssumption DEF Index
<1>2. CASE i <= j
  <2>1. j - i \in Int /\ j - i \in 0..(m - 1)
    BY <1>1, <1>2
  <2>2. (j - i) % m = j - i
    BY <1>1, <2>1, ModNear
  <2> QED
    BY <1>2, <2>1, <2>2 DEF Dist
<1>3. CASE ~(i <= j)
  <2>1. j - i \in Int /\ j - i \in (-m)..(-1) /\ (j - i) + m \in 0..(m - 1)
    BY <1>1, <1>3
  <2>2. (j - i) % m = (j - i) + m
    BY <1>1, <2>1, ModNear
  <2> QED
    BY <1>3, <2>1, <2>2 DEF Dist
<1> QED
  BY <1>2, <1>3

\* An index that is advanced stays an index.
LEMMA Advanced ==
    ASSUME NEW i \in Index, NEW d \in 0..CountRange
    PROVE  /\ (i + d) % CountRange \in Index
           /\ (i + d) % CountRange
                = IF i + d < CountRange THEN i + d ELSE (i + d) - CountRange
<1> DEFINE m == CountRange
<1>1. m \in Nat \ {0} /\ i \in 0..(m - 1) /\ d \in 0..m /\ i + d \in Int
  BY ConsoleAssumption DEF Index
<1>2. CASE i + d < m
  <2>1. i + d \in 0..(m - 1)
    BY <1>1, <1>2
  <2>2. (i + d) % m = i + d
    BY <1>1, <2>1, ModNear
  <2> QED
    BY <1>2, <2>1, <2>2 DEF Index
<1>3. CASE ~(i + d < m)
  <2>1. i + d \in m..((2 * m) - 1) /\ (i + d) - m \in 0..(m - 1)
    BY <1>1, <1>3
  <2>2. (i + d) % m = (i + d) - m
    BY <1>1, <2>1, ModNear
  <2> QED
    BY <1>3, <2>1, <2>2 DEF Index
<1> QED
  BY <1>2, <1>3

\* The slot of an index does not depend on how often the index has wrapped.
LEMMA SlotOfSum ==
    ASSUME NEW i \in Index, NEW d \in 0..CountRange
    PROVE  ((i + d) % CountRange) % INPUT_BUF_SIZE = (i + d) % INPUT_BUF_SIZE
<1>1. i + d \in Int /\ INPUT_BUF_SIZE \in Nat \ {0}
  BY ConsoleAssumption DEF Index
<1>2. ((i + d) - CountRange) % INPUT_BUF_SIZE = (i + d) % INPUT_BUF_SIZE
  BY <1>1, ModShift, ConsoleAssumption
<1> QED
  BY <1>1, <1>2, Advanced

\* The d-th slot behind j is the one that far behind i.
LEMMA SlotBehind ==
    ASSUME NEW i \in Index, NEW j \in Index, NEW d \in 0..CountRange
    PROVE  (j + d) % INPUT_BUF_SIZE = (i + (Dist(i, j) + d)) % INPUT_BUF_SIZE
<1>1. /\ INPUT_BUF_SIZE \in Nat \ {0} /\ CountRange \in Nat /\ CountRange % INPUT_BUF_SIZE = 0
      /\ i \in Int /\ j \in Int /\ Dist(i, j) \in Int
  BY ConsoleAssumption, DistCases DEF Index
<1> DEFINE x == i + (Dist(i, j) + d)
<1>2. x \in Int /\ (j + d = x \/ j + d = x - CountRange)
  BY <1>1, DistCases
<1> HIDE DEF x
<1>3. (x - CountRange) % INPUT_BUF_SIZE = x % INPUT_BUF_SIZE
  BY <1>1, <1>2, ModShift
<1>4. (j + d) % INPUT_BUF_SIZE = x % INPUT_BUF_SIZE
  BY <1>2, <1>3
<1> QED
  BY <1>4 DEF x

-----------------------------------------------------------------------------
(* The text between two indices.                                            *)

\* What is in buffer b between i and j.
TextOf(b, i, j) ==
    [k \in 1..((j - i) % CountRange) |->
        b[((i + k - 1) % CountRange) % INPUT_BUF_SIZE]]

\* The k-th byte is in the k-th slot.
LEMMA TextBytes ==
    ASSUME NEW b, NEW i \in Index, NEW j \in Index
    PROVE  /\ Dist(i, j) \in 0..(CountRange - 1)
           /\ TextOf(b, i, j) = [k \in 1..Dist(i, j) |-> b[(i + (k - 1)) % INPUT_BUF_SIZE]]
           /\ \A k \in 1..Dist(i, j) :
                 ((i + k - 1) % CountRange) % INPUT_BUF_SIZE = (i + (k - 1)) % INPUT_BUF_SIZE
<1>1. Dist(i, j) \in 0..(CountRange - 1) /\ CountRange \in Nat
  BY DistCases, ConsoleAssumption
<1>2. ASSUME NEW k \in 1..Dist(i, j)
      PROVE  ((i + k - 1) % CountRange) % INPUT_BUF_SIZE = (i + (k - 1)) % INPUT_BUF_SIZE
  <2>1. k - 1 \in 0..CountRange /\ i + k - 1 = i + (k - 1)
    BY <1>1 DEF Index
  <2> QED
    BY <2>1, SlotOfSum
<1> QED
  BY <1>1, <1>2 DEF TextOf, Dist

Byte == Key \cup {None}
Ring == [0..(INPUT_BUF_SIZE - 1) -> Byte]

\* The text is a sequence as long as the distance.
LEMMA TextSeq ==
    ASSUME NEW b \in Ring, NEW i \in Index, NEW j \in Index
    PROVE  /\ TextOf(b, i, j) \in Seq(Byte) /\ Len(TextOf(b, i, j)) = Dist(i, j)
           /\ Dist(i, j) \in 0..(CountRange - 1)
           /\ \A k \in 1..Dist(i, j) : TextOf(b, i, j)[k] = b[(i + (k - 1)) % INPUT_BUF_SIZE]
<1> DEFINE n == Dist(i, j)
<1>1. /\ n \in 0..(CountRange - 1) /\ CountRange \in Nat /\ n \in Nat
      /\ TextOf(b, i, j) = [k \in 1..n |-> b[(i + (k - 1)) % INPUT_BUF_SIZE]]
  <2>1. n \in 0..(CountRange - 1)
    BY DistCases
  <2>2. TextOf(b, i, j) = [k \in 1..n |-> b[(i + (k - 1)) % INPUT_BUF_SIZE]]
    BY TextBytes DEF TextOf, Dist
  <2> QED
    BY <2>1, <2>2, Sizes
<1>2. ASSUME NEW k \in 1..n
      PROVE  b[(i + (k - 1)) % INPUT_BUF_SIZE] \in Byte
  <2>1. i + (k - 1) \in Int /\ INPUT_BUF_SIZE \in Nat \ {0}
    BY <1>1, ConsoleAssumption DEF Index
  <2>2. (i + (k - 1)) % INPUT_BUF_SIZE \in 0..(INPUT_BUF_SIZE - 1)
    BY <2>1, DivMod
  <2> QED
    BY <2>2 DEF Ring
<1> HIDE DEF n
<1>3. TextOf(b, i, j) \in [1..n -> Byte]
  BY <1>1, <1>2
<1>4. TextOf(b, i, j) \in Seq(Byte) /\ Len(TextOf(b, i, j)) = n
  BY <1>1, <1>3
<1> QED
  BY <1>1, <1>4 DEF n

\* Text depends on the slots between its ends only.
LEMMA TextSame ==
    ASSUME NEW b \in Ring, NEW b1 \in Ring, NEW i \in Index, NEW j \in Index,
           \A d \in 0..(Dist(i, j) - 1) :
              b1[(i + d) % INPUT_BUF_SIZE] = b[(i + d) % INPUT_BUF_SIZE]
    PROVE  TextOf(b1, i, j) = TextOf(b, i, j)
<1> DEFINE n == Dist(i, j)
<1>1. n \in Nat
  BY DistCases, ConsoleAssumption
<1>2. ASSUME NEW k \in 1..n
      PROVE  b1[(i + (k - 1)) % INPUT_BUF_SIZE] = b[(i + (k - 1)) % INPUT_BUF_SIZE]
  <2>1. k - 1 \in 0..(n - 1)
    BY <1>1
  <2> QED
    BY <2>1
<1>3. /\ TextOf(b, i, j) = [k \in 1..n |-> b[(i + (k - 1)) % INPUT_BUF_SIZE]]
      /\ TextOf(b1, i, j) = [k \in 1..n |-> b1[(i + (k - 1)) % INPUT_BUF_SIZE]]
  BY TextBytes
<1> HIDE DEF n
<1> QED
  BY <1>2, <1>3

\* One index further.
LEMMA Increased ==
    ASSUME NEW i \in Index, NEW j \in Index
    PROVE  /\ Inc(i) \in Index /\ Dist(i, Inc(i)) = 1
           /\ Dist(i, j) > 0 => Dist(Inc(i), j) = Dist(i, j) - 1
           /\ Dist(i, j) < CountRange - 1 => Dist(i, Inc(j)) = Dist(i, j) + 1
<1>1. CountRange \in Nat /\ CountRange > 1 /\ 1 \in 0..CountRange
  BY Sizes
<1>2. ASSUME NEW x \in Index
      PROVE  Inc(x) \in Index /\ Inc(x) = IF x + 1 < CountRange THEN x + 1 ELSE 0
  <2>1. /\ (x + 1) % CountRange \in Index
        /\ (x + 1) % CountRange = IF x + 1 < CountRange THEN x + 1 ELSE (x + 1) - CountRange
    BY <1>1, Advanced
  <2>2. x \in Nat /\ x <= CountRange - 1
    BY <1>1 DEF Index
  <2> QED
    BY <1>1, <2>1, <2>2 DEF Inc
<1> DEFINE Ahead(x, y) == IF x <= y THEN y - x ELSE (y - x) + CountRange
<1>3. /\ Dist(i, Inc(i)) = Ahead(i, Inc(i)) /\ Dist(Inc(i), j) = Ahead(Inc(i), j)
      /\ Dist(i, Inc(j)) = Ahead(i, Inc(j)) /\ Dist(i, j) = Ahead(i, j)
  BY <1>2, DistCases
<1>4. /\ i \in Nat /\ j \in Nat /\ i < CountRange /\ j < CountRange
      /\ Inc(i) = IF i + 1 < CountRange THEN i + 1 ELSE 0
      /\ Inc(j) = IF j + 1 < CountRange THEN j + 1 ELSE 0
  BY <1>1, <1>2 DEF Index
<1>5. Ahead(i, Inc(i)) = 1
  BY <1>1, <1>4
<1>6. Ahead(i, j) > 0 => Ahead(Inc(i), j) = Ahead(i, j) - 1
  BY <1>1, <1>4
<1>7. Ahead(i, j) < CountRange - 1 => Ahead(i, Inc(j)) = Ahead(i, j) + 1
  BY <1>1, <1>4
<1> HIDE DEF Ahead
<1> QED
  BY <1>2, <1>3, <1>5, <1>6, <1>7

\* One index back.
LEMMA Decreased ==
    ASSUME NEW i \in Index, NEW j \in Index, Dist(i, j) > 0
    PROVE  /\ Dec(j) \in Index /\ Dist(i, Dec(j)) = Dist(i, j) - 1
           /\ Dist(Dec(j), j) = 1
<1>1. CountRange \in Nat /\ CountRange > 1 /\ j \in Int /\ j - 1 \in Int
  BY ConsoleAssumption DEF Index
<1>2. Dec(j) = IF j = 0 THEN CountRange - 1 ELSE j - 1
  <2>1. CASE j = 0
    <3>1. (0 - 1) % CountRange = (0 - 1) + CountRange
      BY <1>1, ModNear
    <3> QED
      BY <2>1, <3>1, <1>1 DEF Dec
  <2>2. CASE j # 0
    <3>1. j - 1 \in 0..(CountRange - 1)
      BY <2>2, <1>1 DEF Index
    <3>2. (j - 1) % CountRange = j - 1
      <4>1. CountRange \in Nat \ {0}
        BY <1>1
      <4> QED
        BY <3>1, <4>1, <1>1, ModNear
    <3> QED
      BY <2>2, <3>2 DEF Dec
  <2> QED
    BY <2>1, <2>2
<1>3. Dec(j) \in Index
  BY <1>1, <1>2 DEF Index
<1> DEFINE Ahead(x, y) == IF x <= y THEN y - x ELSE (y - x) + CountRange
<1>4. /\ Dist(i, Dec(j)) = Ahead(i, Dec(j)) /\ Dist(i, j) = Ahead(i, j)
      /\ Dist(Dec(j), j) = Ahead(Dec(j), j)
  BY <1>3, DistCases
<1>5. i \in Nat /\ j \in Nat /\ i < CountRange /\ j < CountRange
  BY <1>1 DEF Index
<1>6. Ahead(i, j) > 0 => Ahead(i, Dec(j)) = Ahead(i, j) - 1
  BY <1>1, <1>2, <1>5
<1>7. Ahead(Dec(j), j) = 1
  BY <1>1, <1>2, <1>5
<1> HIDE DEF Ahead
<1> QED
  BY <1>3, <1>4, <1>6, <1>7

\* Reading a byte takes it from the front.
LEMMA TextTail ==
    ASSUME NEW b \in Ring, NEW i \in Index, NEW j \in Index, Dist(i, j) > 0
    PROVE  /\ TextOf(b, i, j) # <<>> /\ Head(TextOf(b, i, j)) = b[i % INPUT_BUF_SIZE]
           /\ TextOf(b, Inc(i), j) = Tail(TextOf(b, i, j))
<1> DEFINE n == Dist(i, j)
           s == TextOf(b, i, j)
           t == TextOf(b, Inc(i), j)
<1>1. /\ s \in Seq(Byte) /\ Len(s) = n /\ n \in Nat /\ n > 0 /\ CountRange \in Nat /\ n < CountRange
      /\ \A k \in 1..n : s[k] = b[(i + (k - 1)) % INPUT_BUF_SIZE]
  BY TextSeq, Sizes
<1>2. Inc(i) \in Index /\ Dist(Inc(i), j) = n - 1 /\ Dist(i, Inc(i)) = 1
  BY Increased
<1>3. /\ t \in Seq(Byte) /\ Len(t) = n - 1
      /\ \A k \in 1..(n - 1) : t[k] = b[(Inc(i) + (k - 1)) % INPUT_BUF_SIZE]
  BY <1>2, TextSeq
<1>4. ASSUME NEW k \in 1..(n - 1)
      PROVE  t[k] = s[k + 1]
  <2>1. k - 1 \in 0..CountRange /\ k + 1 \in 1..n /\ i + (1 + (k - 1)) = i + ((k + 1) - 1)
    BY <1>1 DEF Index
  <2>2. (Inc(i) + (k - 1)) % INPUT_BUF_SIZE = (i + (1 + (k - 1))) % INPUT_BUF_SIZE
    BY <1>2, <2>1, SlotBehind
  <2> QED
    BY <1>1, <1>3, <2>1, <2>2
<1>5. s[1] = b[i % INPUT_BUF_SIZE]
  BY <1>1 DEF Index
<1> HIDE DEF n, s, t
<1>6. t = Tail(s)
  BY <1>1, <1>3, <1>4
<1>7. s # <<>> /\ Head(s) = s[1]
  BY <1>1
<1> QED
  BY <1>5, <1>6, <1>7 DEF s, t

\* Erasing a byte takes it from the end.
LEMMA TextFront ==
    ASSUME NEW b \in Ring, NEW i \in Index, NEW j \in Index, Dist(i, j) > 0
    PROVE  TextOf(b, i, Dec(j)) = SubSeq(TextOf(b, i, j), 1, Len(TextOf(b, i, j)) - 1)
<1> DEFINE n == Dist(i, j)
           s == TextOf(b, i, j)
           t == TextOf(b, i, Dec(j))
<1>1. /\ s \in Seq(Byte) /\ Len(s) = n /\ n \in Nat /\ n > 0
      /\ \A k \in 1..n : s[k] = b[(i + (k - 1)) % INPUT_BUF_SIZE]
  BY TextSeq, Sizes
<1>2. /\ t \in Seq(Byte) /\ Len(t) = n - 1
      /\ \A k \in 1..(n - 1) : t[k] = b[(i + (k - 1)) % INPUT_BUF_SIZE]
  BY Decreased, TextSeq
<1>3. \A k \in 1..(n - 1) : t[k] = s[k]
  BY <1>1, <1>2
<1> HIDE DEF n, s, t
<1>4. t = SubSeq(s, 1, n - 1)
  BY <1>1, <1>2, <1>3
<1> QED
  BY <1>1, <1>4 DEF s, t

\* Typing a byte appends it.
LEMMA TextAppend ==
    ASSUME NEW b \in Ring, NEW i \in Index, NEW j \in Index, Dist(i, j) < CountRange - 1
    PROVE  TextOf(b, i, Inc(j)) = Append(TextOf(b, i, j), b[j % INPUT_BUF_SIZE])
<1> DEFINE n == Dist(i, j)
           s == TextOf(b, i, j)
           t == TextOf(b, i, Inc(j))
           x == b[j % INPUT_BUF_SIZE]
<1>1. /\ s \in Seq(Byte) /\ Len(s) = n /\ n \in Nat
      /\ \A k \in 1..n : s[k] = b[(i + (k - 1)) % INPUT_BUF_SIZE]
  BY TextSeq, Sizes
<1>2. /\ t \in Seq(Byte) /\ Len(t) = n + 1
      /\ \A k \in 1..(n + 1) : t[k] = b[(i + (k - 1)) % INPUT_BUF_SIZE]
  <2>1. Inc(j) \in Index /\ Dist(i, Inc(j)) = n + 1
    BY Increased
  <2> QED
    BY <2>1, TextSeq
<1>3. t[n + 1] = x
  <2>1. 0 \in 0..CountRange /\ n + 0 = (n + 1) - 1 /\ j + 0 = j
    BY <1>1, Sizes DEF Index
  <2>2. (j + 0) % INPUT_BUF_SIZE = (i + (n + 0)) % INPUT_BUF_SIZE
    BY <2>1, SlotBehind
  <2> QED
    BY <1>1, <1>2, <2>1, <2>2
<1>4. \A k \in 1..n : t[k] = s[k]
  BY <1>1, <1>2
<1> HIDE DEF n, s, t, x
<1>5. t = Append(s, x)
  BY <1>1, <1>2, <1>3, <1>4
<1> QED
  BY <1>5 DEF s, t, x

\* Text up to j and text from j.
LEMMA TextConcat ==
    ASSUME NEW b \in Ring, NEW i \in Index, NEW j \in Index, NEW l \in Index,
           Dist(i, j) + Dist(j, l) = Dist(i, l)
    PROVE  TextOf(b, i, l) = TextOf(b, i, j) \o TextOf(b, j, l)
<1> DEFINE n == Dist(i, j)
           m == Dist(j, l)
           s == TextOf(b, i, j)
           t == TextOf(b, j, l)
           u == TextOf(b, i, l)
<1>1. /\ s \in Seq(Byte) /\ Len(s) = n /\ n \in Nat
      /\ \A k \in 1..n : s[k] = b[(i + (k - 1)) % INPUT_BUF_SIZE]
  BY TextSeq, Sizes
<1>2. /\ t \in Seq(Byte) /\ Len(t) = m /\ m \in Nat /\ m < CountRange /\ CountRange \in Nat
      /\ \A k \in 1..m : t[k] = b[(j + (k - 1)) % INPUT_BUF_SIZE]
  BY TextSeq, Sizes
<1>3. /\ u \in Seq(Byte) /\ Len(u) = n + m
      /\ \A k \in 1..(n + m) : u[k] = b[(i + (k - 1)) % INPUT_BUF_SIZE]
  BY TextSeq
<1>4. ASSUME NEW k \in 1..m
      PROVE  u[n + k] = t[k]
  <2>1. k - 1 \in 0..CountRange /\ n + k \in 1..(n + m) /\ n + (k - 1) = (n + k) - 1
    BY <1>1, <1>2
  <2>2. (j + (k - 1)) % INPUT_BUF_SIZE = (i + (n + (k - 1))) % INPUT_BUF_SIZE
    BY <2>1, SlotBehind
  <2> QED
    BY <1>2, <1>3, <2>1, <2>2
<1>5. \A k \in 1..n : u[k] = s[k]
  BY <1>1, <1>2, <1>3
<1> HIDE DEF n, m, s, t, u
<1>6. ASSUME NEW k \in 1..(n + m), k > n
      PROVE  u[k] = t[k - n]
  <2>1. k - n \in 1..m /\ n + (k - n) = k
    BY <1>1, <1>2, <1>6
  <2> QED
    BY <1>4, <2>1
<1>7. u = s \o t
  <2>1. s \in Seq(Byte) /\ t \in Seq(Byte) /\ Len(s) = n /\ Len(t) = m /\ u \in Seq(Byte)
    BY <1>1, <1>2, <1>3
  <2>2. s \o t \in Seq(Byte)
    BY <2>1
  <2>3. Len(s \o t) = Len(s) + Len(t)
    BY <2>1
  <2>4. ASSUME NEW k \in 1..(n + m)
        PROVE  u[k] = (s \o t)[k]
    <3>1. (s \o t)[k] = IF k <= n THEN s[k] ELSE t[k - n]
      BY <1>1, <1>2
    <3> QED
      BY <1>1, <1>2, <1>5, <1>6, <3>1
  <2>5. Len(u) = n + m /\ Len(s \o t) = n + m
    BY <1>3, <2>1, <2>3
  <2> QED
    BY <2>1, <2>2, <2>4, <2>5
<1> QED
  BY <1>7 DEF s, t, u

\* Text between two indices ahead of i is the same in buffers that agree on the
\* slots from lo to hi ahead of i.
LEMMA TextWithin ==
    ASSUME NEW b \in Ring, NEW b1 \in Ring, NEW i \in Index, NEW j \in Index, NEW l \in Index,
           NEW lo \in Nat, NEW hi \in Nat,
           \A q \in lo..(hi - 1) : b1[(i + q) % INPUT_BUF_SIZE] = b[(i + q) % INPUT_BUF_SIZE],
           lo <= Dist(i, j), Dist(i, j) + Dist(j, l) <= hi
    PROVE  /\ TextOf(b1, j, l) = TextOf(b, j, l)
           /\ \A d \in 0..(Dist(j, l) - 1) :
                 b1[(j + d) % INPUT_BUF_SIZE] = b[(j + d) % INPUT_BUF_SIZE]
<1>1. ASSUME NEW d \in 0..(Dist(j, l) - 1)
      PROVE  b1[(j + d) % INPUT_BUF_SIZE] = b[(j + d) % INPUT_BUF_SIZE]
  <2>1. Dist(i, j) \in Nat /\ Dist(j, l) \in Nat /\ Dist(j, l) < CountRange /\ CountRange \in Nat
    BY DistCases, Sizes
  <2>2. d \in 0..CountRange /\ Dist(i, j) + d \in lo..(hi - 1)
    BY <2>1
  <2>3. (j + d) % INPUT_BUF_SIZE = (i + (Dist(i, j) + d)) % INPUT_BUF_SIZE
    BY <2>2, SlotBehind
  <2> QED
    BY <2>2, <2>3
<1> QED
  BY <1>1, TextSame

\* The d-th slot before j.
LEMMA SlotBefore ==
    ASSUME NEW i \in Index, NEW j \in Index, NEW d \in 1..Dist(i, j)
    PROVE  /\ (j - d) % CountRange \in Index
           /\ ((j - d) % CountRange) % INPUT_BUF_SIZE = (i + (Dist(i, j) - d)) % INPUT_BUF_SIZE
<1> DEFINE n == Dist(i, j)
           x == i + (n - d)
<1>1. n \in 0..(CountRange - 1) /\ n = IF i <= j THEN j - i ELSE (j - i) + CountRange
  BY DistCases
<1>2. CountRange \in Nat \ {0} /\ i \in Int /\ j \in Int /\ n \in Int /\ d \in Int
  BY <1>1, Sizes DEF Index
<1>3. x \in Int /\ (j - d = x \/ j - d = x - CountRange) /\ n - d \in 0..CountRange
  BY <1>1, <1>2
<1>4. CountRange % CountRange = 0
  BY <1>2, ModNear
<1>5. (x - CountRange) % CountRange = x % CountRange
  BY <1>2, <1>3, <1>4, ModShift
<1>6. (j - d) % CountRange = x % CountRange
  BY <1>3, <1>5
<1> QED
  BY <1>3, <1>6, Advanced, SlotOfSum

-----------------------------------------------------------------------------
(* The ring is a terminal.                                                  *)

\* The indices are in order and at most a ring apart, and there is no end of
\* line in the line that is being typed.
RingInv ==
    /\ buf \in Ring /\ r \in Index /\ w \in Index /\ e \in Index
    /\ Dist(r, w) + Dist(w, e) = Dist(r, e) /\ Dist(r, e) <= INPUT_BUF_SIZE
    /\ \A d \in 0..(Dist(w, e) - 1) : buf[(w + d) % INPUT_BUF_SIZE] # "nl"
    /\ rx \in Seq(Key) /\ got \in [Cpu -> Seq(Byte)]

\* A call that still reads has been given no end of a line.
NoEnd(s) == \A i \in DOMAIN s : s[i] \notin {"nl", "D"}
GotInv == \A c \in Cpu : pc[c] # "ret" => NoEnd(got[c])

\* The distances are numbers.
LEMMA Distances ==
    ASSUME RingInv
    PROVE  /\ Dist(r, w) \in Nat /\ Dist(w, e) \in Nat /\ Dist(r, e) \in Nat
           /\ Dist(r, e) < CountRange
           /\ CountRange \in Nat /\ INPUT_BUF_SIZE \in Nat /\ INPUT_BUF_SIZE < CountRange
           /\ Dist(r, e) <= INPUT_BUF_SIZE /\ Dist(r, w) + Dist(w, e) = Dist(r, e)
BY DistCases, Sizes DEF RingInv

\* The variables of the terminal.
LEMMA Mapping ==
    /\ Text(w, e) = TextOf(buf, w, e) /\ Text(r, w) = TextOf(buf, r, w)
    /\ (Text(w, e))' = TextOf(buf', w', e') /\ (Text(r, w))' = TextOf(buf', r', w')
BY DEF Text, TextOf, At

\* Sequences of bytes.
LEMMA FirstAndRest ==
    ASSUME NEW s \in Seq(Byte), s # <<>>
    PROVE  /\ Len(s) \in Nat /\ Len(s) >= 1 /\ SubSeq(s, 1, 1) = <<Head(s)>>
           /\ SubSeq(s, 2, Len(s)) = Tail(s)
<1>1. Len(s) \in Nat /\ Len(s) >= 1
  OBVIOUS
<1>2. SubSeq(s, 1, 1) = <<Head(s)>>
  <2> DEFINE t == SubSeq(s, 1, 1)
  <2>1. t \in Seq(Byte) /\ Len(t) = 1 /\ t[1] = s[1]
    BY <1>1
  <2>2. Head(s) = s[1] /\ Head(s) \in Byte
    BY <1>1
  <2> HIDE DEF t
  <2>3. t = <<t[1]>>
    BY <2>1
  <2> QED
    BY <2>1, <2>2, <2>3 DEF t
<1>3. SubSeq(s, 2, Len(s)) = Tail(s)
  BY <1>1
<1> QED
  BY <1>1, <1>2, <1>3

\* A reader is given the first byte.
LEMMA ReadOne ==
    ASSUME RingInv, NEW c \in Cpu, NEW s \in Seq(Byte), s # <<>>, s = Text(r, w),
           (Text(r, w))' = Tail(s), (Text(w, e))' = Text(w, e),
           Head(s) = "D" => got[c] = <<>>, NoEnd(got[c]),
           got' = [got EXCEPT ![c] = Append(@, Head(s))]
    PROVE  T!Read(c)
<1>1. /\ Len(s) \in Nat /\ 1 \in 1..Len(s) /\ SubSeq(s, 1, 1) = <<Head(s)>>
      /\ SubSeq(s, 1 + 1, Len(s)) = Tail(s)
  BY FirstAndRest
<1>2. got' = [got EXCEPT ![c] = @ \o <<Head(s)>>]
  <2>1. got[c] \in Seq(Byte) /\ Head(s) \in Byte
    BY DEF RingInv
  <2>2. Append(got[c], Head(s)) = got[c] \o <<Head(s)>>
    BY <2>1
  <2> QED
    BY <2>2 DEF RingInv
<1>3. /\ \A i \in 1..(1 - 1) : SubSeq(s, 1, 1)[i] \notin T!Ends
      /\ SubSeq(s, 1, 1)[1] = "D" => 1 = 1 /\ got[c] = <<>>
  BY <1>1
<1>4. \A i \in DOMAIN got[c] : got[c][i] \notin T!Ends
  BY DEF NoEnd, T!Ends
<1> QED
  BY <1>1, <1>2, <1>3, <1>4 DEF T!Read

\* consoleread gives the first byte to the reader, loses it, or leaves the end
\* of file where it is.
LEMMA ConsoleReads ==
    ASSUME RingInv, GotInv, NEW c \in Cpu, consoleread(c)
    PROVE  RingInv' /\ [T!Next]_(T!vars)
<1> DEFINE s == TextOf(buf, r, w)
<1>5. NoEnd(got[c])
  BY DEF consoleread, Runs, GotInv
<1>1. /\ buf \in Ring /\ r \in Index /\ w \in Index /\ e \in Index /\ r # w
      /\ UNCHANGED <<w, e, rx>> /\ Dist(r, w) > 0
  <2>1. r # w /\ UNCHANGED <<w, e, rx>>
    BY DEF consoleread, uart
  <2>2. Dist(r, w) > 0
    <3>1. Dist(r, w) = IF r <= w THEN w - r ELSE (w - r) + CountRange
      BY DistCases DEF RingInv
    <3>2. r \in Nat /\ w \in Nat /\ r < CountRange /\ CountRange \in Nat
      BY Sizes DEF RingInv, Index
    <3> QED
      BY <2>1, <3>1, <3>2
  <2> QED
    BY <2>1, <2>2 DEF RingInv
<1>2. /\ s \in Seq(Byte) /\ s # <<>> /\ Head(s) = At(r) /\ At(r) = buf[r % INPUT_BUF_SIZE]
      /\ Tail(s) = TextOf(buf, Inc(r), w)
  BY <1>1, TextSeq, TextTail DEF At
<1>3. CASE UNCHANGED <<r, buf>>
  <2>1. UNCHANGED got
    BY <1>3, <1>1, <1>2 DEF consoleread
  <2>2. RingInv'
    BY <1>1, <1>3, <2>1 DEF RingInv
  <2>3. UNCHANGED T!vars
    BY <1>1, <1>3, <2>1, Mapping DEF T!vars
  <2> QED
    BY <2>2, <2>3
<1>4. CASE r' = Inc(r) /\ buf' = [buf EXCEPT ![r % INPUT_BUF_SIZE] = None] /\ ~(At(r) = "D" /\ EofLeft(c))
  <2>1. /\ Inc(r) \in Index /\ Dist(r, Inc(r)) = 1 /\ Dist(Inc(r), w) = Dist(r, w) - 1
        /\ Dist(Inc(r), e) = Dist(r, e) - 1
    BY <1>1, Increased, Distances
  <2>2. r % INPUT_BUF_SIZE \in 0..(INPUT_BUF_SIZE - 1) /\ r \in Int
    BY <1>1, Sizes, DivMod DEF Index
  <2>3. buf' \in Ring
    BY <1>4, <2>2 DEF RingInv, Ring, Byte
  <2>4. ASSUME NEW q \in 1..(Dist(r, e) - 1)
        PROVE  buf'[(r + q) % INPUT_BUF_SIZE] = buf[(r + q) % INPUT_BUF_SIZE]
    <3>1. q \in Int /\ r < r + q /\ (r + q) - r < INPUT_BUF_SIZE /\ r + q \in Int
      BY <2>2, Distances
    <3>2. r % INPUT_BUF_SIZE # (r + q) % INPUT_BUF_SIZE
      BY <2>2, <3>1, ModDiffer, Sizes
    <3>3. (r + q) % INPUT_BUF_SIZE \in 0..(INPUT_BUF_SIZE - 1)
      BY <3>1, Sizes, DivMod
    <3> QED
      BY <1>4, <3>2, <3>3 DEF RingInv, Ring
  <2>5. /\ TextOf(buf', Inc(r), w) = TextOf(buf, Inc(r), w)
        /\ TextOf(buf', w, e) = TextOf(buf, w, e)
        /\ \A d \in 0..(Dist(w, e) - 1) : buf'[(w + d) % INPUT_BUF_SIZE] = buf[(w + d) % INPUT_BUF_SIZE]
    <3>1. 1 \in Nat /\ Dist(r, e) \in Nat /\ 1 <= Dist(r, w) /\ Dist(r, w) + Dist(w, e) <= Dist(r, e)
      BY <1>1, Distances
    <3>2. Dist(r, Inc(r)) + Dist(Inc(r), w) <= Dist(r, e) /\ 1 <= Dist(r, Inc(r))
      BY <2>1, Distances
    <3>3. TextOf(buf', Inc(r), w) = TextOf(buf, Inc(r), w)
      BY <1>1, <2>1, <2>3, <2>4, <3>1, <3>2, TextWithin
    <3> QED
      BY <1>1, <2>3, <2>4, <3>1, <3>3, TextWithin
  <2>6. Text(r, w) = s /\ (Text(r, w))' = Tail(s) /\ (Text(w, e))' = Text(w, e)
    BY <1>1, <1>2, <1>4, <2>5, Mapping
  <2>7. got' \in [Cpu -> Seq(Byte)] /\ [T!Next]_(T!vars)
    <3>1. CASE At(r) = "D"
      <4>1. got' = [got EXCEPT ![c] = Append(@, Head(s))] /\ got[c] = <<>>
        BY <3>1, <1>2, <1>4 DEF consoleread, EofLeft
      <4>2. got' \in [Cpu -> Seq(Byte)]
        BY <4>1, <1>2 DEF RingInv
      <4> QED
        BY <4>1, <4>2, <2>6, <1>2, <1>5, ReadOne DEF T!Next
    <3>2. CASE At(r) # "D" /\ UNCHANGED got
      <4>1. T!ReadFault(c)
        BY <3>2, <2>6, <1>2 DEF T!ReadFault
      <4> QED
        BY <4>1, <3>2 DEF RingInv, T!Next
    <3>3. CASE At(r) # "D" /\ got' = [got EXCEPT ![c] = Append(@, At(r))]
      <4>1. got' \in [Cpu -> Seq(Byte)]
        BY <3>3, <1>2 DEF RingInv
      <4> QED
        BY <3>3, <4>1, <2>6, <1>2, <1>5, ReadOne DEF T!Next
    <3> QED
      BY <3>1, <3>2, <3>3 DEF consoleread
  <2>8. RingInv'
    <3>1. /\ Dist(r', w') + Dist(w', e') = Dist(r', e') /\ Dist(r', e') <= INPUT_BUF_SIZE
      BY <1>1, <1>4, <2>1, Distances
    <3>2. \A d \in 0..(Dist(w', e') - 1) : buf'[(w' + d) % INPUT_BUF_SIZE] # "nl"
      BY <1>1, <2>5 DEF RingInv
    <3> QED
      BY <1>1, <1>4, <2>1, <2>3, <2>7, <3>1, <3>2 DEF RingInv, Dist
  <2> QED
    BY <2>7, <2>8
<1> QED
  BY <1>3, <1>4 DEF consoleread

\* consoleread returns with the end of a line, or of the file, and only then the
\* program's next call may read on.
LEMMA EndsCall ==
    ASSUME LockTypes, got \in [Cpu -> Seq(Byte)], GotInv, [Next]_vars
    PROVE  GotInv'
<1>1. pc \in [Cpu -> ThreadPoint]
  BY DEF LockTypes
<1>2. ASSUME UNCHANGED got, \A d \in Cpu : pc[d] = "ret" => pc'[d] = "ret"
      PROVE  GotInv'
  BY <1>2 DEF GotInv
<1>3. CASE UNCHANGED <<pc, got>>
  BY <1>3 DEF GotInv
<1>4. CASE UNCHANGED vars \/ Transmit \/ \E k \in Key : Press(k)
  BY <1>3, <1>4 DEF vars, Transmit, Press, thread
<1>5. ASSUME NEW c \in Cpu, sys_ret(c)
      PROVE  GotInv'
  <2>1. pc' = [pc EXCEPT ![c] = "user"] /\ got' = [got EXCEPT ![c] = <<>>]
    BY <1>5 DEF sys_ret, Goto
  <2>2. NoEnd(got'[c])
    BY <2>1 DEF NoEnd
  <2>3. ASSUME NEW d \in Cpu \ {c}
        PROVE  pc'[d] = pc[d] /\ got'[d] = got[d]
    BY <2>1, <1>1
  <2> QED
    BY <2>2, <2>3 DEF GotInv
<1>6. ASSUME NEW c \in Cpu, consoleread(c)
      PROVE  GotInv'
  <2>1. ASSUME NEW d \in Cpu \ {c}
        PROVE  pc'[d] = pc[d] /\ got'[d] = got[d]
    BY <1>1, <1>6 DEF consoleread, Return, Goto
  <2>2. CASE pc'[c] = "ret"
    BY <2>1, <2>2 DEF GotInv
  <2>3. CASE pc'[c] # "ret"
    <3>1. /\ got' = [got EXCEPT ![c] = Append(@, At(r))] /\ At(r) \notin {"nl", "D"}
          /\ pc[c] # "ret"
      BY <1>1, <1>6, <2>3 DEF consoleread, Return, Goto, Runs
    <3>2. got'[c] = Append(got[c], At(r))
      BY <3>1
    <3>3. NoEnd(got[c])
      BY <3>1 DEF GotInv
    <3>4. NoEnd(got'[c])
      <4> DEFINE s == got[c]
      <4>1. s \in Seq(Byte)
        OBVIOUS
      <4> HIDE DEF s
      <4>2. ASSUME NEW i \in 1..(Len(s) + 1)
            PROVE  Append(s, At(r))[i] \notin {"nl", "D"}
        <5>1. CASE i = Len(s) + 1
          BY <4>1, <5>1, <3>1
        <5>2. CASE i \in 1..Len(s)
          <6>1. Append(s, At(r))[i] = s[i] /\ i \in DOMAIN s
            BY <4>1, <5>2
          <6> QED
            BY <6>1, <3>3 DEF NoEnd, s
        <5> QED
          BY <4>1, <5>1, <5>2
      <4>3. DOMAIN Append(s, At(r)) = 1..(Len(s) + 1)
        BY <4>1
      <4> QED
        BY <4>2, <4>3, <3>2 DEF NoEnd, s
    <3> QED
      BY <2>1, <3>4 DEF GotInv
  <2> QED
    BY <2>2, <2>3
<1>7. ASSUME NEW c \in Cpu, ThreadNext(c), ~sys_ret(c), ~consoleread(c)
      PROVE  UNCHANGED got /\ \A d \in Cpu : pc[d] = "ret" => pc'[d] = "ret"
  BY <1>1, <1>7
     DEF ThreadNext, sys_read, read_acquire, read_empty, read_full, kkill, sys_write, consolewrite,
         write_acquire, uartwrite, uartwrite_ret, printf, printf_poll, printf_put, Return, Goto, Runs
<1>8. ASSUME NEW c \in Cpu, HandlerNext(c)
      PROVE  UNCHANGED got /\ \A d \in Cpu : pc[d] = "ret" => pc'[d] = "ret"
  BY <1>1, <1>8
     DEF HandlerNext, devintr, uartintr, uartintr_ret, consoleintr, echo_poll, echo_put, procdump,
         dump_poll, dump_put, consoleintr_ret, thread, Wakeup
<1> QED
  BY <1>2, <1>4, <1>5, <1>6, <1>7, <1>8 DEF Next

\* ctrl-U goes back to w: there is no newline on the way.
LEMMA KillsLine ==
    ASSUME RingInv
    PROVE  KillTo = w
<1> DEFINE n == (e - w) % CountRange
           stop == {i \in 0..n : i = n \/ At((e - 1 - i) % CountRange) = "nl"}
<1>1. n = Dist(w, e) /\ n \in Nat /\ n < CountRange /\ CountRange \in Nat \ {0}
  BY Distances, Sizes DEF Dist
<1>2. w \in Index /\ e \in Index /\ w \in Int /\ e \in Int /\ 0 <= w /\ w < CountRange
  BY Sizes DEF RingInv, Index
<1>3. ASSUME NEW i \in 0..n, i # n
      PROVE  At((e - 1 - i) % CountRange) # "nl"
  <2>1. i + 1 \in 1..n /\ e - (i + 1) = e - 1 - i /\ n - (i + 1) \in 0..(n - 1)
    BY <1>1, <1>2, <1>3
  <2>2. ((e - (i + 1)) % CountRange) % INPUT_BUF_SIZE = (w + (n - (i + 1))) % INPUT_BUF_SIZE
    BY <1>1, <1>2, <2>1, SlotBefore
  <2> QED
    BY <1>1, <2>1, <2>2 DEF At, RingInv
<1>4. stop = {n}
  BY <1>1, <1>3
<1> HIDE DEF stop
<1>5. (CHOOSE i \in stop : \A j \in stop : i <= j) = n
  BY <1>1, <1>4
<1>6. KillTo = (e - n) % CountRange
  BY <1>5 DEF KillTo, stop
<1>7. e - n = w \/ e - n = w - CountRange
  BY <1>1, <1>2, DistCases
<1>8. w % CountRange = w /\ (w - CountRange) % CountRange = w
  <2>1. w \in 0..(CountRange - 1) /\ w - CountRange \in Int
        /\ w - CountRange \in (-CountRange)..(-1) /\ (w - CountRange) + CountRange = w
    BY <1>1, <1>2
  <2> QED
    BY <1>1, <1>2, <2>1, ModNear
<1> QED
  BY <1>6, <1>7, <1>8

\* An index is at no distance from itself.
LEMMA DistSelf ==
    ASSUME NEW i \in Index
    PROVE  Dist(i, i) = 0
<1>1. Dist(i, i) = i - i
  BY DistCases, Sizes DEF Index
<1> QED
  BY <1>1, Sizes DEF Index

\* A slot among the first a and one among the last b of n = a + b are apart.
LEMMA Apart ==
    ASSUME NEW x \in Int, NEW a \in Nat, NEW b \in Nat, NEW n \in Nat, a + b = n,
           NEW m \in Nat, n <= m, NEW q \in 0..(a - 1), NEW d \in 1..b
    PROVE  /\ x + (n - d) \in Int /\ x + q < x + (n - d)
           /\ (x + (n - d)) - (x + q) < m
OBVIOUS

\* Text from i to j and from j to l is the same in buffers that agree on the
\* first slots ahead of i.
LEMMA TextBefore ==
    ASSUME NEW b \in Ring, NEW b1 \in Ring, NEW i \in Index, NEW j \in Index, NEW l \in Index,
           NEW hi \in Nat,
           \A q \in 0..(hi - 1) : b1[(i + q) % INPUT_BUF_SIZE] = b[(i + q) % INPUT_BUF_SIZE],
           Dist(i, j) + Dist(j, l) <= hi
    PROVE  /\ TextOf(b1, i, j) = TextOf(b, i, j) /\ TextOf(b1, j, l) = TextOf(b, j, l)
           /\ \A d \in 0..(Dist(j, l) - 1) :
                 b1[(j + d) % INPUT_BUF_SIZE] = b[(j + d) % INPUT_BUF_SIZE]
<1>1. Dist(i, j) \in Nat /\ Dist(j, l) \in Nat
  BY DistCases, Sizes
<1>2. \A d \in 0..(Dist(i, j) - 1) : d \in 0..(hi - 1)
  BY <1>1
<1>3. TextOf(b1, i, j) = TextOf(b, i, j)
  BY <1>2, TextSame
<1> DEFINE lo == 0
<1>4. /\ lo \in Nat /\ lo <= Dist(i, j)
      /\ \A q \in lo..(hi - 1) : b1[(i + q) % INPUT_BUF_SIZE] = b[(i + q) % INPUT_BUF_SIZE]
  BY <1>1
<1> HIDE DEF lo
<1> QED
  BY <1>3, <1>4, TextWithin

\* Going back to i, which is not before w, keeps what is before i.
LEMMA ErasesTo ==
    ASSUME RingInv, NEW i \in Index, Dist(w, i) + Dist(i, e) = Dist(w, e),
           Dist(r, i) = Dist(r, w) + Dist(w, i),
           buf' = Erased(i), e' = i, UNCHANGED <<r, w, got>>, rx' \in Seq(Key)
    PROVE  RingInv' /\ (Text(r, w))' = Text(r, w) /\ (Text(w, e))' = TextOf(buf, w, i)
<1>1. /\ buf \in Ring /\ r \in Index /\ w \in Index /\ e \in Index
      /\ Dist(w, i) \in Nat /\ Dist(i, e) \in Nat /\ Dist(r, i) \in Nat
      /\ Dist(r, i) + Dist(i, e) = Dist(r, e) /\ Dist(r, i) <= INPUT_BUF_SIZE
      /\ Dist(w, i) <= Dist(w, e) /\ Dist(w, e) \in Nat
  <2>1. Dist(w, i) \in Nat /\ Dist(i, e) \in Nat /\ Dist(r, i) \in Nat
    BY DistCases, Sizes DEF RingInv
  <2> QED
    BY <2>1, Distances DEF RingInv
<1>2. Erased(i) \in Ring
  BY DEF Erased, RingInv, Ring, Byte
<1>3. ASSUME NEW q \in 0..(Dist(r, i) - 1)
      PROVE  Erased(i)[(r + q) % INPUT_BUF_SIZE] = buf[(r + q) % INPUT_BUF_SIZE]
  <2>1. r \in Int /\ INPUT_BUF_SIZE \in Nat \ {0} /\ q \in Int /\ r + q \in Int
    BY <1>1, Sizes DEF Index
  <2>2. (r + q) % INPUT_BUF_SIZE \in 0..(INPUT_BUF_SIZE - 1)
    BY <2>1, DivMod
  <2>3. ASSUME NEW d \in 1..((e - i) % CountRange)
        PROVE  (r + q) % INPUT_BUF_SIZE # ((e - d) % CountRange) % INPUT_BUF_SIZE
    <3>1. d \in 1..Dist(r, e) /\ d \in 1..Dist(i, e)
      BY <1>1, Distances DEF Dist
    <3>2. ((e - d) % CountRange) % INPUT_BUF_SIZE = (r + (Dist(r, e) - d)) % INPUT_BUF_SIZE
      BY <1>1, <3>1, SlotBefore
    <3>3. /\ r + (Dist(r, e) - d) \in Int /\ r + q < r + (Dist(r, e) - d)
          /\ (r + (Dist(r, e) - d)) - (r + q) < INPUT_BUF_SIZE
      <4>1. /\ Dist(r, e) \in Nat /\ Dist(r, e) <= INPUT_BUF_SIZE /\ INPUT_BUF_SIZE \in Nat
            /\ Dist(r, i) \in Nat /\ Dist(i, e) \in Nat /\ Dist(r, i) + Dist(i, e) = Dist(r, e)
        BY <1>1, Distances
      <4> QED
        BY <2>1, <3>1, <4>1, Apart
    <3> QED
      BY <2>1, <3>2, <3>3, ModDiffer
  <2> QED
    BY <2>2, <2>3 DEF Erased, RingInv, Ring
<1>4. /\ TextOf(Erased(i), r, w) = TextOf(buf, r, w)
      /\ TextOf(Erased(i), w, i) = TextOf(buf, w, i)
      /\ \A d \in 0..(Dist(w, i) - 1) :
            Erased(i)[(w + d) % INPUT_BUF_SIZE] = buf[(w + d) % INPUT_BUF_SIZE]
  <2> DEFINE hi == Dist(r, i)
             b1 == Erased(i)
  <2>1. /\ hi \in Nat /\ Dist(r, w) + Dist(w, i) <= hi /\ b1 \in Ring
        /\ \A q \in 0..(hi - 1) : b1[(r + q) % INPUT_BUF_SIZE] = buf[(r + q) % INPUT_BUF_SIZE]
    BY <1>1, <1>2, <1>3, Distances
  <2> HIDE DEF hi, b1
  <2>2. /\ TextOf(b1, r, w) = TextOf(buf, r, w) /\ TextOf(b1, w, i) = TextOf(buf, w, i)
        /\ \A d \in 0..(Dist(w, i) - 1) :
              b1[(w + d) % INPUT_BUF_SIZE] = buf[(w + d) % INPUT_BUF_SIZE]
    BY <1>1, <2>1, TextBefore
  <2> QED
    BY <2>2 DEF b1
<1>5. RingInv'
  <2>1. Dist(r', w') + Dist(w', e') = Dist(r', e') /\ Dist(r', e') <= INPUT_BUF_SIZE
    BY <1>1
  <2>2. ASSUME NEW d \in 0..(Dist(w, i) - 1)
        PROVE  buf'[(w + d) % INPUT_BUF_SIZE] # "nl"
    <3>1. d \in 0..(Dist(w, e) - 1)
      BY <1>1
    <3> QED
      BY <1>4, <3>1 DEF RingInv
  <2> QED
    BY <1>1, <1>2, <2>1, <2>2 DEF RingInv, Dist
<1> QED
  BY <1>4, <1>5, Mapping

\* A change to the slots behind e does not change the text before it.
LEMMA BeforeEnd ==
    ASSUME RingInv, NEW b1 \in Ring,
           \A q \in 0..(Dist(r, e) - 1) :
              b1[(r + q) % INPUT_BUF_SIZE] = buf[(r + q) % INPUT_BUF_SIZE]
    PROVE  /\ TextOf(b1, r, w) = TextOf(buf, r, w) /\ TextOf(b1, w, e) = TextOf(buf, w, e)
           /\ \A d \in 0..(Dist(w, e) - 1) :
                 b1[(w + d) % INPUT_BUF_SIZE] = buf[(w + d) % INPUT_BUF_SIZE]
<1> DEFINE hi == Dist(r, e)
<1>1. /\ hi \in Nat /\ Dist(r, w) + Dist(w, e) <= hi
      /\ \A q \in 0..(hi - 1) : b1[(r + q) % INPUT_BUF_SIZE] = buf[(r + q) % INPUT_BUF_SIZE]
  BY Distances
<1>2. buf \in Ring /\ r \in Index /\ w \in Index /\ e \in Index
  BY DEF RingInv
<1> HIDE DEF hi
<1> QED
  BY <1>1, <1>2, TextBefore

\* The ring with a byte typed at its end.
Typed(k) == [buf EXCEPT ![e % INPUT_BUF_SIZE] = k]

\* A byte typed at e keeps what is before it.
LEMMA TypesAt ==
    ASSUME RingInv, HasRoom, NEW k \in Key
    PROVE  /\ Typed(k) \in Ring /\ Typed(k)[e % INPUT_BUF_SIZE] = k
           /\ \A q \in 0..(Dist(r, e) - 1) :
                 Typed(k)[(r + q) % INPUT_BUF_SIZE] = buf[(r + q) % INPUT_BUF_SIZE]
<1>1. /\ buf \in Ring /\ r \in Index /\ w \in Index /\ e \in Index
      /\ r \in Int /\ e \in Int /\ INPUT_BUF_SIZE \in Nat \ {0} /\ Dist(r, e) < INPUT_BUF_SIZE
  BY Sizes DEF RingInv, Index, HasRoom, Used, Dist
<1>2. e % INPUT_BUF_SIZE \in 0..(INPUT_BUF_SIZE - 1)
  BY <1>1, DivMod
<1>3. Typed(k) \in Ring /\ Typed(k)[e % INPUT_BUF_SIZE] = k
  BY <1>1, <1>2 DEF Ring, Byte, Typed
<1>4. ASSUME NEW q \in 0..(Dist(r, e) - 1)
      PROVE  Typed(k)[(r + q) % INPUT_BUF_SIZE] = buf[(r + q) % INPUT_BUF_SIZE]
  <2>1. /\ q \in Int /\ r + q \in Int /\ r + Dist(r, e) \in Int /\ r + q < r + Dist(r, e)
        /\ (r + Dist(r, e)) - (r + q) < INPUT_BUF_SIZE
    BY <1>1, Distances
  <2>2. e % INPUT_BUF_SIZE = (r + Dist(r, e)) % INPUT_BUF_SIZE
    <3>1. 0 \in 0..CountRange /\ e + 0 = e /\ Dist(r, e) + 0 = Dist(r, e)
      BY <1>1, Distances
    <3>2. (e + 0) % INPUT_BUF_SIZE = (r + (Dist(r, e) + 0)) % INPUT_BUF_SIZE
      BY <1>1, <3>1, SlotBehind
    <3> QED
      BY <3>1, <3>2
  <2>3. (r + q) % INPUT_BUF_SIZE # e % INPUT_BUF_SIZE
    BY <1>1, <2>1, <2>2, ModDiffer
  <2>4. (r + q) % INPUT_BUF_SIZE \in 0..(INPUT_BUF_SIZE - 1)
    BY <1>1, <2>1, DivMod
  <2> QED
    BY <1>1, <2>3, <2>4 DEF Ring, Typed
<1> QED
  BY <1>3, <1>4


\* There is no text between an index and itself.
LEMMA EmptyText ==
    ASSUME NEW b \in Ring, NEW i \in Index
    PROVE  TextOf(b, i, i) = <<>>
<1>1. Dist(i, i) = 0
  BY DistSelf
<1>2. TextOf(b, i, i) \in Seq(Byte) /\ Len(TextOf(b, i, i)) = 0
  BY <1>1, TextSeq
<1> QED
  BY <1>2

\* Typing at the end of a text that is in two parts.
LEMMA AppendToSecond ==
    ASSUME NEW s \in Seq(Byte), NEW t \in Seq(Byte), NEW k \in Byte
    PROVE  Append(s \o t, k) = s \o Append(t, k)
<1> DEFINE u == Append(s \o t, k)
           v == s \o Append(t, k)
<1>1. s \o t \in Seq(Byte) /\ Len(s \o t) = Len(s) + Len(t)
  OBVIOUS
<1>2. Append(t, k) \in Seq(Byte) /\ Len(Append(t, k)) = Len(t) + 1
  OBVIOUS
<1>3. u \in Seq(Byte) /\ Len(u) = Len(s) + Len(t) + 1
  BY <1>1
<1>4. v \in Seq(Byte) /\ Len(v) = Len(s) + Len(t) + 1
  BY <1>2
<1>5. ASSUME NEW i \in 1..(Len(s) + Len(t) + 1)
      PROVE  u[i] = v[i]
  <2>1. Len(s) \in Nat /\ Len(t) \in Nat
    OBVIOUS
  <2>2. CASE i <= Len(s)
    BY <2>1, <2>2, <1>1, <1>2
  <2>3. CASE i > Len(s) /\ i <= Len(s) + Len(t)
    BY <2>1, <2>3, <1>1, <1>2
  <2>4. CASE i = Len(s) + Len(t) + 1
    BY <2>1, <2>4, <1>1, <1>2
  <2> QED
    BY <2>1, <2>2, <2>3, <2>4
<1> HIDE DEF u, v
<1>6. u = v
  BY <1>3, <1>4, <1>5
<1> QED
  BY <1>6 DEF u, v

\* A key that is typed into the ring is appended to the line, which it may
\* complete.
LEMMA TypesKey ==
    ASSUME RingInv, HasRoom, NEW k \in Key \ {"P", "U", "H"},
           NEW b1 \in Ring, buf' = b1, b1[e % INPUT_BUF_SIZE] = k,
           \A q \in 0..(Dist(r, e) - 1) :
              b1[(r + q) % INPUT_BUF_SIZE] = buf[(r + q) % INPUT_BUF_SIZE],
           e' = Inc(e), UNCHANGED <<r, got>>, rx' \in Seq(Key), w' = IF Complete(k) THEN Inc(e) ELSE w
    PROVE  RingInv' /\ T!Type(k)
<1> DEFINE s == TextOf(buf, r, w)
           t == TextOf(buf, w, e)
<1>1. /\ buf \in Ring /\ r \in Index /\ w \in Index /\ e \in Index
      /\ Dist(r, e) < INPUT_BUF_SIZE /\ Used = Dist(r, e)
  BY DEF RingInv, HasRoom, Used, Dist
<1>2. k \in Byte /\ b1 \in Ring /\ b1[e % INPUT_BUF_SIZE] = k
  BY DEF Byte
<1>3. /\ TextOf(b1, r, w) = s /\ TextOf(b1, w, e) = t
      /\ \A d \in 0..(Dist(w, e) - 1) :
            b1[(w + d) % INPUT_BUF_SIZE] = buf[(w + d) % INPUT_BUF_SIZE]
  BY BeforeEnd
<1>4. /\ Inc(e) \in Index /\ Dist(r, Inc(e)) = Dist(r, e) + 1 /\ Dist(w, Inc(e)) = Dist(w, e) + 1
      /\ Dist(w, e) < CountRange - 1 /\ Dist(r, e) < CountRange - 1
  <2>1. Dist(w, e) < CountRange - 1 /\ Dist(r, e) < CountRange - 1
    BY <1>1, Distances
  <2> QED
    BY <1>1, <2>1, Increased
<1>5. s \in Seq(Byte) /\ t \in Seq(Byte) /\ Len(s) = Dist(r, w) /\ Len(t) = Dist(w, e) /\ k \in Byte
  BY <1>1, TextSeq DEF Byte
<1>6. Len(s) + Len(t) < INPUT_BUF_SIZE /\ Len(s) + Len(t) = Used /\ Used \in Nat
  BY <1>1, <1>5, Distances
<1>7. (Used + 1) % CountRange = Used + 1
  <2>1. Used + 1 \in 0..(CountRange - 1) /\ CountRange \in Nat \ {0} /\ Used + 1 \in Int
    BY <1>1, <1>6, Distances, Sizes
  <2> QED
    BY <2>1, ModNear
<1>8. Complete(k) <=> k \in T!Ends \/ Len(s) + Len(t) + 1 = INPUT_BUF_SIZE
  BY <1>6, <1>7 DEF Complete, T!Ends
<1>9. CASE Complete(k)
  <2>1. w' = Inc(e)
    BY <1>9
  <2>2. TextOf(b1, w', e') = <<>>
    BY <2>1, <1>2, <1>4, EmptyText
  <2>3. TextOf(b1, r, Inc(e)) = Append(TextOf(b1, r, e), k)
    BY <1>1, <1>2, <1>4, TextAppend
  <2>4. TextOf(b1, r, e) = s \o t
    <3>1. Dist(r, w) + Dist(w, e) = Dist(r, e)
      BY Distances
    <3>2. TextOf(b1, r, e) = TextOf(b1, r, w) \o TextOf(b1, w, e)
      BY <1>1, <3>1, TextConcat
    <3> QED
      BY <1>3, <3>2
  <2>5. TextOf(b1, r', w') = s \o Append(t, k)
    <3>1. Append(s \o t, k) = s \o Append(t, k)
      BY <1>5, AppendToSecond
    <3> HIDE DEF s, t
    <3> QED
      BY <2>1, <2>3, <2>4, <3>1
  <2>6. T!Type(k)
    BY <1>6, <1>8, <1>9, <2>2, <2>5, Mapping DEF T!Type
  <2>7. Dist(w', e') = 0
    BY <2>1, <1>4, DistSelf
  <2>8. Dist(r', w') + Dist(w', e') = Dist(r', e') /\ Dist(r', e') <= INPUT_BUF_SIZE
    BY <2>1, <2>7, <1>1, <1>4, Distances
  <2>9. \A d \in 0..(Dist(w', e') - 1) : b1[(w' + d) % INPUT_BUF_SIZE] # "nl"
    BY <2>7
  <2>10. RingInv'
    BY <1>1, <1>2, <1>4, <2>1, <2>8, <2>9 DEF RingInv, Dist
  <2> QED
    BY <2>6, <2>10
<1>10. CASE ~Complete(k)
  <2>1. w' = w
    BY <1>10
  <2>2. TextOf(b1, w, Inc(e)) = Append(t, k)
    BY <1>1, <1>2, <1>3, <1>4, TextAppend
  <2>3. T!Type(k)
    BY <1>3, <1>6, <1>8, <1>10, <2>1, <2>2, Mapping DEF T!Type
  <2>4. Dist(r', w') + Dist(w', e') = Dist(r', e') /\ Dist(r', e') <= INPUT_BUF_SIZE
    BY <2>1, <1>1, <1>4, Distances
  <2>5. ASSUME NEW d \in 0..(Dist(w', e') - 1)
        PROVE  b1[(w' + d) % INPUT_BUF_SIZE] # "nl"
    <3>1. CASE d \in 0..(Dist(w, e) - 1)
      BY <2>1, <3>1, <1>3 DEF RingInv
    <3>2. CASE d = Dist(w, e)
      <4>1. 0 \in 0..CountRange /\ e + 0 = e /\ Dist(w, e) + 0 = Dist(w, e)
        BY Distances DEF RingInv, Index
      <4>2. (e + 0) % INPUT_BUF_SIZE = (w + (Dist(w, e) + 0)) % INPUT_BUF_SIZE
        BY <1>1, <4>1, SlotBehind
      <4>3. k # "nl"
        BY <1>10 DEF Complete
      <4> QED
        BY <2>1, <3>2, <4>1, <4>2, <4>3, <1>2
    <3>3. d \in 0..(Dist(w, e) - 1) \/ d = Dist(w, e)
      BY <2>1, <1>4, Distances
    <3> QED
      BY <3>1, <3>2, <3>3
  <2>6. RingInv'
    BY <1>1, <1>2, <1>4, <2>1, <2>4, <2>5 DEF RingInv, Dist
  <2> QED
    BY <2>3, <2>6
<1> QED
  BY <1>9, <1>10

\* consoleintr edits the line as the terminal does.
LEMMA ConsoleEdits ==
    ASSUME RingInv, NEW c \in Cpu, consoleintr(c)
    PROVE  RingInv' /\ [T!Next]_(T!vars)
<1> DEFINE k == Head(rx)
<1>1. k \in Key /\ rx' \in Seq(Key) /\ UNCHANGED <<r, got>>
  BY DEF consoleintr, RingInv, thread
<1>2. buf \in Ring /\ r \in Index /\ w \in Index /\ e \in Index
  BY DEF RingInv
<1>3. CASE UNCHANGED <<buf, w, e>>
  <2>1. RingInv'
    BY <1>1, <1>3 DEF RingInv
  <2>2. UNCHANGED T!vars
    BY <1>1, <1>3, Mapping DEF T!vars
  <2> QED
    BY <2>1, <2>2
<1>4. CASE k = "U"
  <2>1. e' = w /\ buf' = Erased(w) /\ UNCHANGED w
    BY <1>4, KillsLine DEF consoleintr, uartgetc
  <2>2. Dist(w, w) = 0 /\ Dist(w, w) + Dist(w, e) = Dist(w, e) /\ Dist(r, w) = Dist(r, w) + Dist(w, w)
    BY <1>2, DistSelf, Distances
  <2>3. RingInv' /\ (Text(r, w))' = Text(r, w) /\ (Text(w, e))' = TextOf(buf, w, w)
    BY <1>1, <1>2, <2>1, <2>2, ErasesTo
  <2>4. T!Kill
    BY <1>1, <1>2, <2>3, EmptyText DEF T!Kill
  <2> QED
    BY <2>3, <2>4 DEF T!Next
<1>5. CASE k = "H"
  <2>1. e' = (IF e = w THEN e ELSE Dec(e)) /\ buf' = Erased(e') /\ UNCHANGED w
    BY <1>5 DEF consoleintr, uartgetc
  <2>2. CASE e = w
    <3>1. Dist(w, e) + Dist(e, e) = Dist(w, e) /\ Dist(r, e) = Dist(r, w) + Dist(w, e)
      BY <1>2, DistSelf, Distances
    <3>2. RingInv' /\ (Text(r, w))' = Text(r, w) /\ (Text(w, e))' = TextOf(buf, w, e)
      BY <1>1, <1>2, <2>1, <2>2, <3>1, ErasesTo
    <3> QED
      BY <1>1, <3>2, Mapping DEF T!vars
  <2>3. CASE e # w
    <3>1. Dist(w, e) > 0
      <4>1. Dist(w, e) = IF w <= e THEN e - w ELSE (e - w) + CountRange
        BY <1>2, DistCases
      <4>2. w \in Nat /\ e \in Nat /\ w < CountRange /\ CountRange \in Nat
        BY <1>2, Sizes DEF Index
      <4> QED
        BY <2>3, <4>1, <4>2
    <3>2. Dist(r, e) > 0
      BY <3>1, Distances
    <3>3. /\ Dec(e) \in Index /\ Dist(w, Dec(e)) = Dist(w, e) - 1 /\ Dist(Dec(e), e) = 1
          /\ Dist(r, Dec(e)) = Dist(r, e) - 1
      BY <1>2, <3>1, <3>2, Decreased
    <3>4. /\ Dist(w, Dec(e)) + Dist(Dec(e), e) = Dist(w, e)
          /\ Dist(r, Dec(e)) = Dist(r, w) + Dist(w, Dec(e))
      BY <3>3, Distances
    <3>5. RingInv' /\ (Text(r, w))' = Text(r, w) /\ (Text(w, e))' = TextOf(buf, w, Dec(e))
      BY <1>1, <2>1, <2>3, <3>3, <3>4, ErasesTo
    <3>6. /\ TextOf(buf, w, Dec(e)) = SubSeq(Text(w, e), 1, Len(Text(w, e)) - 1)
          /\ Text(w, e) # <<>>
      BY <1>2, <3>1, TextFront, TextTail, Mapping
    <3>7. T!Erase
      BY <1>1, <3>5, <3>6 DEF T!Erase
    <3> QED
      BY <3>5, <3>7 DEF T!Next
  <2> QED
    BY <2>2, <2>3
<1>6. CASE k \notin {"P", "U", "H"} /\ HasRoom
  <2>1. /\ buf' = [buf EXCEPT ![e % INPUT_BUF_SIZE] = k] /\ e' = Inc(e)
        /\ w' = IF Complete(k) THEN Inc(e) ELSE w
    BY <1>6 DEF consoleintr, uartgetc
  <2> HIDE DEF k
  <2>2. /\ Typed(k) \in Ring /\ Typed(k)[e % INPUT_BUF_SIZE] = k
         /\ \A q \in 0..(Dist(r, e) - 1) :
               Typed(k)[(r + q) % INPUT_BUF_SIZE] = buf[(r + q) % INPUT_BUF_SIZE]
    BY <1>1, <1>6, TypesAt
  <2>3. buf' = Typed(k) /\ k \in Key \ {"P", "U", "H"}
    BY <1>1, <1>6, <2>1 DEF Typed
  <2>4. RingInv' /\ T!Type(k)
    BY <1>1, <1>6, <2>1, <2>2, <2>3, TypesKey
  <2>5. k \in (Key \ {"P"}) \ T!Edits
    BY <1>1, <1>6 DEF T!Edits
  <2> QED
    BY <2>4, <2>5 DEF T!Next
<1>7. k = "P" \/ (k \notin {"P", "U", "H"} /\ ~HasRoom) => UNCHANGED <<buf, w, e>>
  BY DEF consoleintr, uartgetc
<1> QED
  BY <1>3, <1>4, <1>5, <1>6, <1>7

\* console.c is a terminal with line editing: consoleintr edits the line typed
\* last and completes it, consoleread copies completed lines in order, and
\* neither the wrap of the indices of cons nor what erasing leaves in its ring is
\* ever seen (consoleintr, consoleread).
THEOREM ImplementsTerminal == Spec => IsTerminal
<1>1. Init => RingInv /\ GotInv /\ T!Init
  <2> SUFFICES ASSUME Init
               PROVE  RingInv /\ GotInv /\ T!Init
    OBVIOUS
  <2>1. buf \in Ring /\ rx \in Seq(Key) /\ got \in [Cpu -> Seq(Byte)]
    BY DEF Init, uartinit, Ring, Byte
  <2>2. r = 0 /\ w = 0 /\ e = 0 /\ 0 \in Index
    BY Sizes DEF Init, Index
  <2>3. Dist(0, 0) = 0 /\ INPUT_BUF_SIZE \in Nat
    BY <2>2, DistSelf, Sizes
  <2>4. RingInv
    BY <2>1, <2>2, <2>3 DEF RingInv
  <2>5. Text(w, e) = <<>> /\ Text(r, w) = <<>>
    BY <2>1, <2>2, EmptyText, Mapping
  <2>6. GotInv
    BY DEF Init, GotInv, NoEnd
  <2> QED
    BY <2>4, <2>5, <2>6 DEF Init, T!Init
<1>2. RingInv /\ GotInv /\ [Next]_vars => RingInv' /\ [T!Next]_(T!vars)
  <2> SUFFICES ASSUME RingInv, GotInv, [Next]_vars
               PROVE  RingInv' /\ [T!Next]_(T!vars)
    OBVIOUS
  <2>1. CASE UNCHANGED <<cons, got>> /\ rx' \in Seq(Key)
    <3>1. RingInv'
      BY <2>1 DEF RingInv, cons
    <3>2. UNCHANGED T!vars
      BY <2>1, Mapping DEF T!vars, cons
    <3> QED
      BY <3>1, <3>2
  <2>2. CASE UNCHANGED vars \/ Transmit \/ \E k \in Key : Press(k)
    BY <2>1, <2>2 DEF vars, Transmit, Press, thread, uart, RingInv
  <2>3. ASSUME NEW c \in Cpu, sys_ret(c)
        PROVE  RingInv' /\ [T!Next]_(T!vars)
    <3>1. UNCHANGED <<cons, rx>> /\ got' = [got EXCEPT ![c] = <<>>]
      BY <2>3 DEF sys_ret, uart
    <3>2. got' \in [Cpu -> Seq(Byte)]
      BY <3>1 DEF RingInv
    <3>3. RingInv'
      BY <3>1, <3>2 DEF RingInv, cons
    <3>4. T!Call(c)
      BY <3>1, Mapping DEF T!Call, cons
    <3> QED
      BY <3>3, <3>4 DEF T!Next
  <2>4. ASSUME NEW c \in Cpu, ThreadNext(c), ~sys_ret(c), ~consoleread(c)
        PROVE  UNCHANGED <<cons, got, rx>>
    BY <2>4
       DEF ThreadNext, sys_read, read_acquire, read_empty, read_full, kkill, sys_write,
           write_acquire, uartwrite, uartwrite_ret, printf, printf_poll, printf_put, uart, THR
  <2>5. ASSUME NEW c \in Cpu, HandlerNext(c), ~consoleintr(c)
        PROVE  UNCHANGED <<cons, got, rx>>
    BY <2>5
       DEF HandlerNext, devintr, uartintr, uartintr_ret, echo_poll, echo_put, procdump, dump_poll,
           dump_put, consoleintr_ret, thread, uart, THR
  <2>6. rx \in Seq(Key)
    BY DEF RingInv
  <2> QED
    BY <2>1, <2>2, <2>3, <2>4, <2>5, <2>6, ConsoleReads, ConsoleEdits DEF Next
<1>3. IInv /\ RingInv /\ GotInv /\ [Next]_vars => GotInv'
  BY EndsCall DEF IInv, RingInv
<1> QED
  BY <1>1, <1>2, <1>3, InterruptInvariant, PTL DEF Spec, IsTerminal, T!Spec

=============================================================================
