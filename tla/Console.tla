------------------------------ MODULE Console -------------------------------
(***************************************************************************)
(* The console: kernel/console.c over the UART driver kernel/uart.c, with  *)
(* printf's lock, the interrupts of kernel/trap.c and kernel/plic.c, and   *)
(* the nesting of push_off and pop_off of kernel/spinlock.c.               *)
(*                                                                         *)
(* Each CPU runs one thread, and on top of it the interrupt handler.  An   *)
(* interrupt is taken between two steps of a CPU with interrupts on; the   *)
(* locks are held across steps, so that handler and thread can meet.       *)
(* Of what is sent only the amount matters; printf and an echo send one    *)
(* character, for each character goes through uartputc_sync by itself.     *)
(* What no step looks at any more is forgotten: a byte of cons.buf that is *)
(* read or erased, intena when noff is back to 0.                          *)
(***************************************************************************)
EXTENDS Integers, Sequences

CONSTANTS
    Cpu,
    Calls,           \* what the thread of each CPU does: read, write, printf
    Key,             \* keys: "a", "nl", "D", "H", "U", "P" stand for what they type
    INPUT_BUF_SIZE,
    CountRange,      \* cons.r, cons.w, cons.e wrap around here (2^32)
    ReadSizes, WriteSizes,  \* what programs ask for
    Batch,           \* the size of buf[] in consolewrite
    RxSize,          \* the input FIFO of the UART
    None

ASSUME ConsoleAssumption ==
    /\ INPUT_BUF_SIZE \in Nat \ {0} /\ Batch \in Nat \ {0}
    /\ CountRange \in Nat /\ CountRange % INPUT_BUF_SIZE = 0
    /\ CountRange > INPUT_BUF_SIZE
    /\ ReadSizes \subseteq Nat /\ WriteSizes \subseteq Nat \ {0}
    /\ Calls \in [Cpu -> SUBSET {"read", "write", "printf"}]
    /\ None \notin Cpu \cup Key

VARIABLES
    buf, r, w, e,       \* cons
    tx_busy,
    lock,               \* cons.lock, tx_lock and pr.lock: the CPU that has it
    noff, intena, on,   \* push_off; are interrupts enabled?
    pc, left, got,      \* the thread: where it is, bytes to go, bytes read
    nn,                 \* bytes to go in the batch consolewrite has copied in
    killed,
    h,                  \* the handler: where it is
    plic,               \* the CPU that has claimed the UART's interrupt
    thre,               \* the UART reports that its output is empty
    rx, fifo            \* keys that wait in the UART, characters it has to send

cons == <<buf, r, w, e>>
irqs == <<noff, intena, on>>
thread == <<pc, left, got, nn, killed>>
uart == <<thre, rx, fifo>>
vars == <<cons, tx_busy, lock, irqs, thread, h, plic, uart>>

Lock == {"cons", "tx", "pr"}
Index == 0..(CountRange - 1)

TypeOK ==
    /\ buf \in [0..(INPUT_BUF_SIZE - 1) -> Key \cup {None}] /\ {r, w, e} \subseteq Index
    /\ tx_busy \in BOOLEAN /\ lock \in [Lock -> Cpu \cup {None}]
    /\ noff \in [Cpu -> 0..3] /\ intena \in [Cpu -> BOOLEAN] /\ on \in [Cpu -> BOOLEAN]
    /\ \A c \in Cpu : on[c] <=> noff[c] = 0 /\ h[c] = "none"
    /\ pc \in [Cpu -> {"user", "ret", "read", "reading", "rsleep", "uartwrite", "writing",
                       "wsleep", "printf", "poll", "put"}]
    /\ left \in [Cpu -> Nat] /\ nn \in [Cpu -> 0..Batch]
    /\ got \in [Cpu -> Seq(Key)] /\ killed \in [Cpu -> BOOLEAN]
    /\ h \in [Cpu -> {"none", "tx", "rx", "poll", "put",
                      "procdump", "dpoll", "dput", "done"}]
    /\ plic \in Cpu \cup {None}
    /\ thre \in BOOLEAN /\ rx \in Seq(Key) /\ Len(rx) <= RxSize /\ fifo \in Nat

\* The interrupts of an idle UART are enabled.
uartinit == tx_busy = FALSE /\ thre = FALSE /\ rx = <<>> /\ fifo = 0

Init ==
    /\ uartinit
    /\ buf = [i \in 0..(INPUT_BUF_SIZE - 1) |-> None] /\ r = 0 /\ w = 0 /\ e = 0
    /\ lock = [l \in Lock |-> None]
    /\ noff = [c \in Cpu |-> 0] /\ intena = [c \in Cpu |-> TRUE]
    /\ on = [c \in Cpu |-> TRUE]
    /\ pc = [c \in Cpu |-> "user"] /\ left = [c \in Cpu |-> 0] /\ nn = [c \in Cpu |-> 0]
    /\ got = [c \in Cpu |-> <<>>] /\ killed = [c \in Cpu |-> FALSE]
    /\ h = [c \in Cpu |-> "none"] /\ plic = None

(***************************************************************************)
(* Locks and interrupts.                                                   *)
(***************************************************************************)

push_off(c) ==
    /\ on' = [on EXCEPT ![c] = FALSE]
    /\ intena' = [intena EXCEPT ![c] = IF noff[c] = 0 THEN on[c] ELSE @]
    /\ noff' = [noff EXCEPT ![c] = @ + 1]

\* n calls of pop_off in a row.
pop_off(c, n) ==
    /\ noff' = [noff EXCEPT ![c] = @ - n]
    /\ on' = [on EXCEPT ![c] = noff[c] = n /\ intena[c]]
    /\ intena' = [intena EXCEPT ![c] = noff[c] = n \/ @]

\* Mutant: acquire leaves interrupts on.
acquire_open(c, l) ==
    /\ lock[l] = None
    /\ lock' = [lock EXCEPT ![l] = c]
    /\ noff' = [noff EXCEPT ![c] = @ + 1] /\ UNCHANGED <<on, intena>>

acquire(c, l) ==
    /\ lock[l] = None
    /\ lock' = [lock EXCEPT ![l] = c] /\ push_off(c)

release(c, l) == lock' = [lock EXCEPT ![l] = None] /\ pop_off(c, 1)

\* A thread may take a step: the handler is not running on top of it.
Runs(c, l) == h[c] = "none" /\ pc[c] = l
Goto(c, l) == pc' = [pc EXCEPT ![c] = l]
Handles(c, l) == h[c] = l
Handle(c, l) == h' = [h EXCEPT ![c] = l]

(***************************************************************************)
(* read.                                                                   *)
(***************************************************************************)

Inc(i) == (i + 1) % CountRange
Dec(i) == (i - 1) % CountRange
Used == (e - r) % CountRange
At(i) == buf[i % INPUT_BUF_SIZE]

sys_read(c) ==
    /\ Runs(c, "user") /\ "read" \in Calls[c]
    /\ \E n \in ReadSizes : left' = [left EXCEPT ![c] = n]
    /\ Goto(c, "read")
    /\ UNCHANGED <<cons, tx_busy, lock, irqs, got, nn, killed, h, plic, uart>>

\* acquire(&cons.lock), when consoleread starts and when sleep returns.
read_acquire(c) ==
    /\ Runs(c, "read") /\ acquire(c, "cons") /\ Goto(c, "reading")
    /\ UNCHANGED <<cons, tx_busy, left, got, nn, killed, h, plic, uart>>

Return(c, l) ==
    /\ Goto(c, "ret") /\ release(c, l)
    /\ left' = [left EXCEPT ![c] = 0] /\ killed' = [killed EXCEPT ![c] = FALSE]

\* Nothing to read: the thread returns if it is killed and sleeps otherwise.
read_empty(c) ==
    /\ Runs(c, "reading") /\ left[c] > 0 /\ r = w
    /\ IF killed[c] THEN Return(c, "cons")
       ELSE Goto(c, "rsleep") /\ release(c, "cons") /\ UNCHANGED <<left, killed>>
    /\ UNCHANGED <<cons, tx_busy, got, nn, h, plic, uart>>

\* Mutant: end of file is not kept for the next call.
EofLeft_not(c) == FALSE

\* Is the end of file left for the next call?
EofLeft(c) == got[c] # <<>>

\* One round of the loop of consoleread.  A "D" in got stands for the result 0
\* of a call that meets the end of file.  The byte is taken
\* before it is known whether it can be copied to the program.
consoleread(c) ==
    /\ Runs(c, "reading") /\ left[c] > 0 /\ r # w
    /\ IF At(r) = "D" /\ EofLeft(c) THEN UNCHANGED <<r, buf>>
       ELSE r' = Inc(r) /\ buf' = [buf EXCEPT ![r % INPUT_BUF_SIZE] = None]
    /\ \/ /\ At(r) = "D" /\ Return(c, "cons")
          /\ got' = IF EofLeft(c) THEN got ELSE [got EXCEPT ![c] = Append(@, "D")]
       \/ At(r) # "D" /\ Return(c, "cons") /\ UNCHANGED got    \* either_copyout fails
       \/ /\ At(r) # "D"
          /\ got' = [got EXCEPT ![c] = Append(@, At(r))]
          /\ IF At(r) = "nl" THEN Return(c, "cons")
             ELSE /\ left' = [left EXCEPT ![c] = @ - 1]
                  /\ UNCHANGED <<lock, irqs, pc, killed>>
    /\ UNCHANGED <<w, e, tx_busy, nn, h, plic, uart>>

read_full(c) ==
    /\ Runs(c, "reading") /\ left[c] = 0 /\ Return(c, "cons")
    /\ UNCHANGED <<cons, tx_busy, got, nn, h, plic, uart>>

\* The program has what it asked for.
sys_ret(c) ==
    /\ Runs(c, "ret") /\ Goto(c, "user") /\ got' = [got EXCEPT ![c] = <<>>]
    /\ UNCHANGED <<cons, tx_busy, lock, irqs, left, nn, killed, h, plic, uart>>

\* kill(pid) of a thread that sleeps in read.
kkill(c) ==
    /\ pc[c] = "rsleep" /\ Goto(c, "read") /\ killed' = [killed EXCEPT ![c] = TRUE]
    /\ UNCHANGED <<cons, tx_busy, lock, irqs, left, got, nn, h, plic, uart>>

(***************************************************************************)
(* write and printf.                                                       *)
(***************************************************************************)

\* The loop of consolewrite with n bytes to go: the next batch, or the end,
\* also if the bytes cannot be copied in.
consolewrite(c, n) ==
    \/ /\ n > 0
       /\ left' = [left EXCEPT ![c] = n]
       /\ nn' = [nn EXCEPT ![c] = IF n < Batch THEN n ELSE Batch]
       /\ Goto(c, "uartwrite")
    \/ Goto(c, "user") /\ left' = [left EXCEPT ![c] = 0] /\ UNCHANGED nn

sys_write(c) ==
    /\ Runs(c, "user") /\ "write" \in Calls[c]
    /\ \E n \in WriteSizes : consolewrite(c, n)
    /\ UNCHANGED <<cons, tx_busy, lock, irqs, got, killed, h, plic, uart>>

write_acquire(c) ==
    /\ Runs(c, "uartwrite") /\ acquire(c, "tx") /\ Goto(c, "writing")
    /\ UNCHANGED <<cons, tx_busy, left, got, nn, killed, h, plic, uart>>

\* WriteReg(THR, ...); the UART withdraws its report.
THR == fifo' = fifo + 1 /\ thre' = FALSE /\ UNCHANGED rx

MustWait(c) == tx_busy

\* One round of the loop of uartwrite.
uartwrite(c) ==
    /\ Runs(c, "writing") /\ nn[c] > 0
    /\ IF MustWait(c)
       THEN /\ Goto(c, "wsleep") /\ release(c, "tx")
            /\ UNCHANGED <<tx_busy, left, nn, uart>>
       ELSE /\ THR /\ tx_busy' = TRUE
            /\ nn' = [nn EXCEPT ![c] = @ - 1] /\ left' = [left EXCEPT ![c] = @ - 1]
            /\ UNCHANGED <<pc, lock, irqs>>
    /\ UNCHANGED <<cons, got, killed, h, plic>>

uartwrite_ret(c) ==
    /\ Runs(c, "writing") /\ nn[c] = 0 /\ release(c, "tx") /\ consolewrite(c, left[c])
    /\ UNCHANGED <<cons, tx_busy, got, killed, h, plic, uart>>

\* The kernel prints something on behalf of a thread.
printf(c) ==
    /\ Runs(c, "user") /\ "printf" \in Calls[c] /\ acquire(c, "pr") /\ Goto(c, "poll")
    /\ UNCHANGED <<cons, tx_busy, left, got, nn, killed, h, plic, uart>>

\* uartputc_sync up to the end of its loop.
printf_poll(c) ==
    /\ Runs(c, "poll") /\ fifo = 0 /\ push_off(c) /\ Goto(c, "put")
    /\ UNCHANGED <<cons, tx_busy, lock, left, got, nn, killed, h, plic, uart>>

\* The rest of it, and the end of printf.
printf_put(c) ==
    /\ Runs(c, "put") /\ THR
    /\ lock' = [lock EXCEPT !["pr"] = None] /\ pop_off(c, 2) /\ Goto(c, "user")
    /\ UNCHANGED <<cons, tx_busy, left, got, nn, killed, h, plic>>

(***************************************************************************)
(* The interrupt.                                                          *)
(***************************************************************************)

Wakeup(from, to) == pc' = [c \in Cpu |-> IF pc[c] = from THEN to ELSE pc[c]]

\* devintr claims the interrupt, the hardware having turned interrupts off,
\* and calls uartintr; ReadReg(ISR) withdraws the report of the UART.
devintr(c) ==
    /\ on[c] /\ plic = None /\ (thre \/ rx # <<>>)
    /\ plic' = c /\ on' = [on EXCEPT ![c] = FALSE] /\ Handle(c, "tx")
    /\ thre' = FALSE
    /\ UNCHANGED <<cons, tx_busy, lock, noff, intena, thread, rx, fifo>>

\* Under tx_lock.
uartintr(c) ==
    /\ Handles(c, "tx") /\ lock["tx"] = None
    /\ IF fifo = 0 THEN tx_busy' = FALSE /\ Wakeup("wsleep", "uartwrite")
       ELSE UNCHANGED <<tx_busy, pc>>
    /\ Handle(c, "rx")
    /\ UNCHANGED <<cons, lock, irqs, left, got, nn, killed, plic, uart>>

\* Mutant: the interrupt is acknowledged once more at the end.
uartintr_ret_ack(c) ==
    /\ Handles(c, "rx") /\ rx = <<>>
    /\ plic' = None /\ Handle(c, "none") /\ on' = [on EXCEPT ![c] = TRUE]
    /\ thre' = FALSE
    /\ UNCHANGED <<cons, tx_busy, lock, noff, intena, thread, rx, fifo>>

\* The loop of uartintr ends when there is no input, and the interrupt is
\* completed.
uartintr_ret(c) ==
    /\ Handles(c, "rx") /\ rx = <<>>
    /\ plic' = None /\ Handle(c, "none") /\ on' = [on EXCEPT ![c] = TRUE]
    /\ UNCHANGED <<cons, tx_busy, lock, noff, intena, thread, uart>>

HasRoom == Used < INPUT_BUF_SIZE

\* Is what has been typed handed to the readers once k is in?
Complete(k) == k \in {"nl", "D"} \/ (Used + 1) % CountRange = INPUT_BUF_SIZE

\* The line that ctrl-U erases: back to w, or to a newline.
KillTo ==
    LET n == (e - w) % CountRange
        stop == {i \in 0..n : i = n \/ At((e - 1 - i) % CountRange) = "nl"}
    IN (e - (CHOOSE i \in stop : \A j \in stop : i <= j)) % CountRange

\* The buffer without what is between i and e.
Erased(i) ==
    [k \in DOMAIN buf |->
        IF \E d \in 1..((e - i) % CountRange) : k = ((e - d) % CountRange) % INPUT_BUF_SIZE
        THEN None ELSE buf[k]]

\* The key that the UART received first.
uartgetc == Head(rx)

\* uartgetc gives a key to consoleintr, which takes cons.lock: e, w and buf
\* change and readers are woken, the handler goes on to the echo, to procdump
\* or to the end.
consoleintr(c) ==
    LET k == uartgetc IN
    /\ Handles(c, "rx") /\ rx # <<>> /\ acquire(c, "cons")
    /\ rx' = Tail(rx)
    /\ CASE k = "P" -> /\ Handle(c, "procdump") /\ UNCHANGED <<buf, w, e, pc>>
         [] k = "U" -> /\ e' = KillTo
                       /\ Handle(c, IF e' = e THEN "done" ELSE "poll")
                       /\ buf' = Erased(e') /\ UNCHANGED <<w, pc>>
         [] k = "H" -> /\ e' = IF e = w THEN e ELSE Dec(e)
                       /\ Handle(c, IF e' = e THEN "done" ELSE "poll")
                       /\ buf' = Erased(e') /\ UNCHANGED <<w, pc>>
         [] OTHER ->
              IF ~HasRoom THEN Handle(c, "done") /\ UNCHANGED <<buf, w, e, pc>>
              ELSE /\ Handle(c, "poll")
                   /\ buf' = [buf EXCEPT ![e % INPUT_BUF_SIZE] = k] /\ e' = Inc(e)
                   /\ IF Complete(k) THEN w' = e' /\ Wakeup("rsleep", "read")
                      ELSE UNCHANGED <<w, pc>>
    /\ UNCHANGED <<r, tx_busy, left, got, nn, killed, plic, thre, fifo>>

\* consputc for the echo: uartputc_sync spins with cons.lock held.
echo_poll(c) ==
    /\ Handles(c, "poll") /\ fifo = 0 /\ push_off(c) /\ Handle(c, "put")
    /\ UNCHANGED <<cons, tx_busy, lock, thread, plic, uart>>

echo_put(c) ==
    /\ Handles(c, "put") /\ THR /\ pop_off(c, 1) /\ Handle(c, "done")
    /\ UNCHANGED <<cons, tx_busy, lock, thread, plic>>

\* procdump prints, with cons.lock held.
procdump(c) ==
    /\ Handles(c, "procdump") /\ acquire(c, "pr") /\ Handle(c, "dpoll")
    /\ UNCHANGED <<cons, tx_busy, thread, plic, uart>>

dump_poll(c) ==
    /\ Handles(c, "dpoll") /\ fifo = 0 /\ push_off(c) /\ Handle(c, "dput")
    /\ UNCHANGED <<cons, tx_busy, lock, thread, plic, uart>>

dump_put(c) ==
    /\ Handles(c, "dput") /\ THR
    /\ lock' = [lock EXCEPT !["pr"] = None] /\ pop_off(c, 2) /\ Handle(c, "done")
    /\ UNCHANGED <<cons, tx_busy, thread, plic>>

consoleintr_ret(c) ==
    /\ Handles(c, "done") /\ release(c, "cons") /\ Handle(c, "rx")
    /\ UNCHANGED <<cons, tx_busy, thread, plic, uart>>

(***************************************************************************)
(* The UART and its user.                                                  *)
(***************************************************************************)

Press(k) ==
    /\ Len(rx) < RxSize /\ rx' = Append(rx, k)
    /\ UNCHANGED <<cons, tx_busy, lock, irqs, thread, h, plic, thre, fifo>>

Transmit ==
    /\ fifo > 0 /\ fifo' = fifo - 1 /\ thre' = (fifo = 1)
    /\ UNCHANGED <<cons, tx_busy, lock, irqs, thread, h, plic, rx>>

ThreadNext(c) ==
    \/ sys_read(c) \/ sys_ret(c) \/ read_acquire(c) \/ read_empty(c) \/ consoleread(c) \/ read_full(c)
    \/ kkill(c) \/ sys_write(c) \/ write_acquire(c) \/ uartwrite(c)
    \/ uartwrite_ret(c) \/ printf(c) \/ printf_poll(c) \/ printf_put(c)

HandlerNext(c) ==
    \/ devintr(c) \/ uartintr(c) \/ uartintr_ret(c) \/ consoleintr(c)
    \/ echo_poll(c) \/ echo_put(c) \/ procdump(c) \/ dump_poll(c) \/ dump_put(c)
    \/ consoleintr_ret(c)

Next ==
    \/ \E c \in Cpu : ThreadNext(c) \/ HandlerNext(c)
    \/ \E k \in Key : Press(k)
    \/ Transmit

Spec == Init /\ [][Next]_vars

(***************************************************************************)
(* Properties.                                                             *)
(***************************************************************************)

\* A handler never waits for a lock that the thread it interrupted holds:
\* acquire keeps interrupts off as long as a lock is held, and nests.  (The
\* CPU would panic in acquire, or spin forever.)
NoSelfDeadlock ==
    \A c \in Cpu :
        /\ Handles(c, "tx") => lock["tx"] # c
        /\ Handles(c, "rx") => lock["cons"] # c
        /\ Handles(c, "procdump") => lock["pr"] # c

\* As long as tx_busy makes uartwrite wait, the UART is sending, or its
\* interrupt is on its way, or the handler is about to look: characters that
\* uartputc_sync sends in between, and that tx_busy knows nothing of, cannot
\* lose the interrupt.
SenderWoken ==
    tx_busy => fifo > 0 \/ thre \/ \E c \in Cpu : Handles(c, "tx")

\* The ring of console.c, with its wrapping indices, is a terminal that gives
\* edited lines to its readers.
Text(i, j) == [k \in 1..((j - i) % CountRange) |-> At((i + k - 1) % CountRange)]
T == INSTANCE Terminal WITH
        Reader <- Cpu, Key <- Key \ {"P"}, Size <- INPUT_BUF_SIZE,
        line <- Text(w, e), ready <- Text(r, w)
IsTerminal == T!Spec
=============================================================================
