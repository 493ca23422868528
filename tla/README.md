# A TLA+ model of txv6

txv6 is xv6-riscv with transactions: `txbegin`, `txcommit` and `txabort` around
file-system calls, private copies ("shadows") of inodes and disk buffers, and
write-write conflict detection.  This directory models the kernel, the tool that
builds its disk image and the parts of user space where a mistake is hard to see
in a test.  TLC checks the models on small instances; TLAPS proves, for every
value of the constants, the safety properties of the log, of the process table, of
the buffer cache and its driver, of the console, and (for programs that keep to a
stated discipline) of the transactions.

## The system and its modules

| Part | Source | Module | State |
|---|---|---|---|
| Write-ahead log | `log.c` | `Log`, abstract `GroupCommit` | header in memory and on disk, log blocks, home blocks, buffers, `outstanding`, `committing` |
| Transactions | `tx.c`, `systx.c`, `syscall.c`, `kjmp.S` | `Tx` | status, workset, shadows, `xobj.writer`, locks and references of one directory, one file and their buffers |
| Transactions over the log | `tx.c`, `systx.c`, `log.c` | `TxLog` (extends `Log`) | shadows of blocks, the point each `txcommit` has reached |
| Inodes, names, file calls | `fs.c`, `sysfile.c` | `Fs` | inodes and directories, free blocks, the inode table, working directories, one open file per process |
| Pipes, file table | `pipe.c`, `file.c`, `sysfile.c` | `Pipe`, abstract `Channel` | descriptors, reference counts, the ring and its open ends |
| Buffer cache, disk driver | `bio.c`, `sleeplock.c`, `virtio_disk.c` | `Disk` | buffers, LRU list, sleep locks, descriptors, rings, pending interrupt |
| Processes, scheduler, traps | `proc.c`, `sysproc.c`, `trap.c` | `Proc` | process table, spin locks by CPU, channels, ticks |
| Console, UART, spin locks | `console.c`, `uart.c`, `spinlock.c`, `printf.c` | `Console`, abstract `Terminal` | input ring, `tx_busy`, FIFO, locks, `noff`, `intena`, interrupt flag and handler of each CPU |
| Memory, address spaces, exec | `kalloc.c`, `vm.c`, `exec.c`, `proc.c` | `Vm` | free pages, page tables, sizes, the image exec is building |
| Shell | `user/sh.c` | `ShellParser`, `Shell` | processes, their descriptors and what they run |
| User allocator | `user/umalloc.c` | `Heap` | headers, free ring, blocks in use |
| Image builder | `mkfs/mkfs.c` | `Mkfs` | inodes, indirect blocks, free block and free inode counters, bitmap |
| Array of the workset | `tx.c` | `Workset` | none: operators |

`Sequential` puts `Shell`, `Heap`, `Mkfs`, `Workset` and `Vm`, whose calls do not
overlap, side by side; each behaviour is about one of them.  A module `MCx` holds
the sets and the symmetry for TLC.  The proofs are in `LogProofs`, `ProcProofs`,
`ConsoleProofs`, `DiskProofs` and, for `Tx`, in `TxStepProofs`, `TxProofs`,
`TxLinkProofs` and `TxReadProofs`.

How the parts interact: a file-system call runs between `begin_op` and `end_op`,
locks inodes, reads and changes buffers, and tells the log of each changed
buffer.  The last call out commits the group.  Inside a transaction the three
log functions return at once, `idata` and `bdata` hand out shadows, and `iput` is
put off.  `txcommit` locks every object of the workset in the order of their
addresses, swaps the shadows in, unlocks, and only then logs each object in a log
operation of its own.  A conflict frees the shadows and jumps back to the point
where the first system call of the transaction entered the kernel, so that
`txbegin` returns a second time, with -1.

Each module takes the layer below at its word: `Log` treats a disk write as one
step, which `Disk` justifies (`WriteThrough`, `CacheCoherent`); `Fs` treats a
call as atomic with respect to crashes, which `Log` justifies; sleeping is a
guard except in `Proc`, `Pipe`, `Console` and the driver, where it is taken
apart.

## What a step is

A spin lock belongs to a CPU, and what is done under one acquire is one step,
unless the code waits, writes to a device or takes a second lock in between.
Where a lock is held across steps it is state (`plock` and `lock` in `Proc`,
`plock` in `Pipe`, all locks in `Console`).  A sleep lock is held across steps.

- **`Log`**: one turn of a loop with a disk write is a step; `Crash` may happen in
  every state, also during recovery; `bget_recycle` drops any buffer that is not
  pinned; `kkill` wakes a sleeper early.  Block contents are opaque.
- **`Tx`**: a system call is a sequence of kernel steps, and `pc[p]` says which
  is next.  A step waits for at most one sleep lock.  Contents are the number of the transaction
  or plain write that made them and the links.  `fault` records a panic or a use
  of a freed shadow.  The ghosts (`version`, `clock`, `seen`, `published`,
  `aborted`) only number writes and remember what a call has read.
- **`TxLog`**: conflicts are left to `Tx`; a transaction touches no block that
  another one has a shadow of.
- **`Proc`**: `pc` says where the kernel thread of a process goes on; a process
  acts only as the current one of a CPU.  `sleep` is three steps (lock handover,
  `sched`, wakeup), `exit` three, `fork` three.  Timer interrupts come whenever
  the CPU holds no lock.
- **`Pipe`**: `pipewrite` is a step per byte, with `pi->lock` held from one to the
  next, because it tests `killed` before each and a kill does not wait for that
  lock.  The copy loop of `piperead` tests nothing and is one step.  `kkill` may
  come at any time in a read or a write, from outside.  `fileclose` is split
  between `ftable.lock` and `pipeclose`.
- **`Disk`**: the interrupt handler is two steps, the acknowledgement and the loop
  over the used ring, because the device may go on between them; what it adds
  while the loop runs is as if added before or after it.  A ring entry is forgotten once the other side has
  read it.  Contents are kept as two sets: buffers with the newest contents
  (`fresh`) and blocks whose newest contents are on the disk (`synced`).
- **`Console`**: the handler runs on top of the thread of either CPU, at every
  step where its interrupts are on.  Indices run modulo `CountRange`.
- **`Vm`**: the functions of `vm.c` are operators on a record (free pages, page
  table, result, panic).  Pages are counted; the tables of both inner levels are
  told apart, so that `walk` can get one and fail on the next.  `exec` is two steps, since it
  sleeps in the file system between loading and committing.
- **`Fs`**: a path is resolved one inode per step, `iput` is the four sections of
  the code with its unlocked window, and `iunlockput` is a step of its own.
  `iget` panics when the inode table has no entry left.  Blocks are counted.  It covers calls outside of transactions.
- **`Shell`**: a system call belongs to the step of the code before it; `exec`,
  `open` and `fork` may fail.  A program reads its input to the end and exits.

## Runs

| Run | Bounds | Shows |
|---|---|---|
| `log` | 3 processes, 4 blocks, 2 values, log of two reservations | the log implements `GroupCommit` under a crash in every state (`CrashAtomic`); `DoneIsDurable`; `NoPanic` when space is short |
| `tx` | 2 processes, 1 file, 2 numbered writes, two mixes of calls | no fault, one writer per object, no dirty or torn reads, directory entries have links |
| `tx_lock_kept` | the same, with a file opened before the transaction | **violated**: `NoLockInUserMode`, see below |
| `txlog` | 2 processes, 2 blocks | `QuietCommit`: also with transactions the log commits only when no call is active; `SleeperWakes` under fairness |
| `txlog_lost_commit` | 2 processes, 2 blocks | **violated**: `CommitKeepsContents`, see below |
| `proc_safe` | 3 slots, 2 CPUs, pids to 3, ticks modulo 2 | `StackInUse`, `ParentAlive`, `NoLostChild`, `PauseLongEnough`; no deadlock, so no panic in `sched` |
| `proc_live` | 3 slots, 1 CPU | `OrphanReaped`, `KilledExits` |
| `pipe` | 2 processes, 2 files, 2 descriptors, ring of 2, counters modulo 4 | the pipe is a FIFO `Channel` (`IsFifo`); open ends, no use after free, and no lost wakeup but the one listed below |
| `disk` | 2 processes, 3 buffers, 4 blocks, 4 or 6 descriptors, indices modulo their number | one buffer per block, no stale contents, writes reach the disk, nobody left asleep for a completion (`NoLostInterrupt`) or for descriptors (`NoLostDescriptor`); no deadlock, so no panic of the driver |
| `console` | 2 CPUs, ring of 2, indices modulo 4, input FIFO of 1, writes of two characters | the ring is a line-editing `Terminal` (`IsTerminal`); no self-deadlock, senders woken |
| `fs` | 2 processes, 3 inodes, an inode table of 2 or 3, 5 blocks, 3 units per block | references and blocks accounted for with full disks and crashes, names have links, `iput` never sleeps under the table's lock; no deadlock |
| `sequential` | see `Sequential.cfg` | the parts whose calls do not overlap, below |

`sequential` checks, each over all inputs up to a length:

- `ParserMeetsGrammar`: the recursive descent of `sh.c` accepts exactly the lines
  of a grammar stated separately, and no word is lost or doubled.
- `PipesDrain`, `ForegroundWaited`: processes of a command line never wait for
  each other in a circle, and the prompt comes after the foreground.
- `HeapTiled`: blocks in use and free ones tile the heap, and the free ring is
  sorted and coalesced.
- `ImageConsistent`: no block of the image is used twice, the bitmap says which are
  used, sizes are covered by blocks, and inodes and bits have room.
- `WorksetFound`: the array of the workset stays sorted, and the binary search
  finds exactly what is in it.
- `PagesAccounted`, `KeepsPages`: for 2 processes, 17 pages, 4 user pages of 2 units
  and tables of 2 entries, every page is free or somebody's, and failing calls keep
  the image; no deadlock, so no panic.

A panic that is not among the properties of a run (`sched`, `vm.c`, the driver)
leaves the model without a step, and TLC reports it as a deadlock.  `TypeOK` of
each module states the types of its variables.  Those of `Log`, `Proc` and (for
disciplined programs) `Tx` are proved, and for `Console` and `Disk` the types their
proofs need; the others hold with the constants of the runs but are not among the
properties the runs check.

Why the bounds are enough.  In `log` two values tell a new block from an old one;
two calls overlap when the header is empty and the next one sleeps when it is not,
so that both kinds of waiting in `begin_op` happen (also in `txlog`, where two
blocks suffice), and four blocks let a wrong reservation fill the header.  Two processes suffice for a conflict, since
`xobj.writer` and a lock concern two parties.  In `proc_safe` three slots are
init, a parent and a child, and two CPUs are the parties of every race of `sleep`
and `wakeup`; a tick counter of two values wraps during a pause.  In `pipe`,
`console` and `disk` the rings are smaller than what is sent, so they fill, empty
and wrap; counters wrap at a multiple of the ring's size, as 2^32 does.  `disk`
has more blocks than buffers (recycling), and with four descriptors only one
request fits (waiting), with six two (any order).  The memory of
`sequential` runs out in every call, because two processes with full images and
their tables need more than 17 pages.  In `fs` the disk is full after one directory
and one file of full size, three inodes make `ialloc` reuse numbers at once, and an
inode table of two entries is too small for them, one of three never is.

`tx`, `tx_lock_kept` and `pipe` say `CHECK_DEADLOCK FALSE`: a program may stop when
its numbered writes are used up, and all processes may have exited.  In `tx` this
also hides the deadlock of `txcommit` with a plain call that is listed below.

The mixes of `tx` are programs that close their files inside the transaction and
retry after -1: open, read and write in transactions with plain opens and reads;
and open and unlink in transactions with plain opens and writes.  Every path
starts at one directory, and nothing resets its `xobj.writer`; so a transaction is
always refused there, before it has a lock or a shadow, and `MAX_WORKSET` is the
number of objects, so that no workset fills.  `NoFault` therefore says nothing of a
refusal in the middle of a call.  In `tx_lock_kept` a file may be opened before
`txbegin`, and two transactions meet on the file instead.

## Fairness

`txlog` assumes weak fairness of recovery, of each turn of `begin_op`, of `end_op`
and of the commit steps of each process.  `proc_live` assumes strong fairness of
the scheduler for each slot, of the timer, of the kernel steps of a process, and
that init calls `wait` again.  The round-robin scheduler looks at every slot in
every round, a timer interrupt is taken as soon as the last lock is dropped, a
process that gets the CPU again and again gets on, and disk writes complete.
Nothing is assumed about processes starting calls or power failing.  The code
does not guarantee that a sleeper of `begin_op` is admitted (another caller may be
faster, each time), only that it is woken; `SleeperWakes` says no more.
`KilledExits` is about processes in user mode: a kill that falls between the test
of `killed` and the `sleep` wakes nobody, and the process sleeps until the next
wakeup.

## Where the code deviates

Two runs end in a violation.

- `txlog_lost_commit`: the swap of `txcommit` is outside the log and can fall
  between `write_log` and `install_trans` of a running commit of the same block;
  `install_trans` then puts the older contents back, and `buf_commit` logs them.
  `user/txtest.c:205` expects otherwise.
- `tx_lock_kept`: one transaction writes a file that was open before it, another
  one unlinks the file.  The second meets the conflict in `sys_unlink`
  (`sysfile.c:197`) with the directory locked, and is back in user mode with
  `txbegin` returning -1 and the directory still locked.  `kernel/tx.c:62` says
  that the jump "unwinds the entire kernel call stack cleanly".

The following were met while modelling and have no run of their own.

Transactions.  The first two happen in `tx`, which reports neither, for they break
none of its properties; its programs avoid the others:

- Nothing resets `xobj.writer` (`tx.c:94`): while the object stays cached, every
  other transaction is refused; `bget` does not reset it for the next block either.
- `txcommit` (`systx.c:41`) locks buffers before inodes, everybody else inodes
  before buffers; they can wait for each other for ever.
- `tx_abort_now` (`tx.c:63`) leaves the status active, so a program that ignores -1
  from `txbegin` can commit an aborted transaction.
- `inode_commit` (`tx.c:160`) puts a file that was opened before the transaction and
  stays open; a transaction that looks an inode up twice gives one reference back.
- `buf_commit` (`tx.c:225`) is a log operation of its own, so that a crash can keep
  a part of a transaction.
- A conflict first seen on a buffer, or a full workset, is a panic in `bdata`
  (`tx.c:287`).
- A shadow overwrites what plain calls changed meanwhile (`systx.c:51`).

Elsewhere:

- `iput` frees `ip->data` while the entry still has a reference (`fs.c:357`); an
  `ialloc` of the number just freed finds the entry, and `ilock` reads through the
  null pointer.  `Fs` reaches this state.
- `..` of a removed directory may name a free inode, and `ilock` panics
  (`fs.c:307`); creating something in a removed directory loses its inode.
- The inode table has 50 entries, fewer than programs can have files open;
  `iget` then panics (`fs.c:254`).  `Fs` reaches this with a table of two.
- A writer that is killed between two bytes leaves `pipewrite` without the wakeup at
  its end (`pipe.c:79`): bytes are in the pipe, and a reader sleeps on until the next
  write, close or kill.  `NoLostWakeup` names this as the one exception.
- `NBUF` equals `LOGBLOCKS` (`param.h:14`): a log that pins every buffer leaves none
  for the log block of `commit`, and `bget` panics.
- `kill(0)` marks an unused slot, and the next process in it is born killed.
- A line after `tx` in the shell never reaches `txcommit`, because `runcmd` does
  not return (`sh.c:172`).
- When a `fork` fails in the middle of a pipeline, the shell process exits and
  nobody waits for the left command.
- `a > x > y` opens `y` first; `a & b` is a syntax error.
- `mkfs` rounds the root's size up past its last block when its entries fill it
  exactly (`mkfs.c:167`; `SizesCovered` in `Mkfs` names the exception), and never compares
  the free block counter with the size of the disk.
- `consoleread` loses a byte when `either_copyout` fails.

## Proofs

A theorem holds for every value of the constants that the assumption named in the
component's module allows (`LogAssumption`, `ProcAssumption`, `ConsoleAssumption`,
`DiskAssumption`, `TxAssumption`): sets of any size, rings and counters of any
length that divides as in the code.  Those of `Tx` name what else they assume.
Each inductive invariant was checked by TLC before it was proved.

### The log (`LogProofs`)

`LogAssumption`: finite sets of processes and blocks, a call logs fewer blocks than
are reserved for it, one reservation fits into the log.  The inductive invariants
are defined in `Log`.

- `TypeCorrect`: `Spec => []TypeOK`.
- `CommitsWhenQuiet`: `Spec => []QuietCommit`.  The inductive invariant is
  `ControlInv`: besides the exclusion itself it bounds the loop counter of the
  committer by the header and says that the header is empty when neither a call
  nor a committer is there, without which the first step of recovery or of a
  commit could leave the header's domain.
- `NeverPanics`: `Spec => []NoPanic`.  `begin_op` tests the sum of the header
  and all reservations, but calls log blocks later and others come and go in
  between.  `SpaceInv` keeps the account: `Unused` is the set of reserved slots
  not used yet, and header and `Unused` together fit into the log.  A new block
  moves one slot from `Unused` to the header, an absorbed one at most drops a
  slot, `end_op` gives the slots of its call back, and `begin_op` adds a full
  reservation only if it fits.  That an active call has a slot left, so that the
  test `lh.n >= LOGBLOCKS` is never true, needs `OPBLOCKS < MAXOPBLOCKS`: a call
  that really logged all its reserved blocks could fill the header and panic on
  the absorption of one of them.
- `NoLostWakeup`: `Spec => []SleeperHasWaker`, from `ControlInv`: with no call
  and no committer the header is empty and `begin_op` finds space.
- `ImplementsGroupCommit`: `Spec => CrashAtomic`.  The mapping takes `mem` to
  `View` (what a `bread` returns), `dur` to `Recovered` (the home blocks with the
  logged ones laid over them) and `active` to `Op`.  Writing a header that is not
  empty is `Commit`, `Crash` is `PowerLoss`, `begin_op`, `log_write` and `end_op`
  are `Begin`, `Write` and `End`, and every other step, the whole of recovery
  included, stutters.  The argument is `DataInv` (theorem `DataAgrees`).  Its half
  `PinInv` says which buffers are pinned, so that the cache cannot lose a block
  that is only in memory, and that all others agree with the disk.  Its half
  `DiskInv` says that the header on disk is empty except from the commit point to
  its erasure, how far `install_trans` has brought the home blocks in between, and
  that the log blocks equal the buffers as far as `write_log` got.  That no block
  is in the header twice (absorption) is needed for `install_trans`, which would
  otherwise write an older copy over a newer one.
- `CommitIsDurable`: `Spec => []DoneIsDurable`.

### Processes (`ProcProofs`)

`StacksSafe`, `ParentsAlive`, `ChildrenFound` and `PausesLongEnough` prove the four
invariants of `proc_safe`, `NoPanic` that neither `sched` nor `exit` panics.  They
follow from `IInv` (theorem `ProcInvariant`).  `StateInv` says where a kernel thread
can be by the state of its process; `CpuInv` that a process is on at most one CPU,
and that a zombie still on a CPU is locked by it, which is what keeps `wait` from
freeing its stack; `LockInv` that the locks held are a function of the points the
CPUs are at, so that a lock can be neither lost nor held in user mode; `ForkInv` that
the half-made child of a `fork` belongs to one parent; `InitInv` that the first
process never exits.  `WaitInv` extends `NoLostChild` from the sleeper to the process
that has scanned the table and not slept yet: it holds `wait_lock`, without which no
child becomes a zombie, until it has its own `p->lock`, without which nobody wakes
it.  `PauseInv` relates the ticks a process has really slept (a ghost) to the
subtraction modulo `TickRange` of `sys_pause`: the true number is the difference or
more, since the counter may have come round.

### Console and spin locks (`ConsoleProofs`)

`HandlersNeverWait` and `WritersWoken` prove `NoSelfDeadlock` and `SenderWoken`.
`IInv` (theorem `InterruptInvariant`) says of each CPU that `noff` is the nesting of
its thread and its handler together, that `intena` is what the outermost `push_off`
found, that interrupts are on exactly when no lock is held and no handler runs, and
who has which lock; a handler therefore starts only on a thread that holds none.
`ImplementsTerminal` proves `Spec => IsTerminal`: `RingInv` says that the three
indices are in order, modulo the range at which they wrap, and at most a ring apart,
and that the line being typed has no end in it; `GotInv` that a call which still
reads has been given no end of a line.  The abstract line and queue are read
off the ring; the step of `consoleread` that finds an end-of-file after other
characters and gives it back stutters.

### Buffer cache and disk driver (`DiskProofs`)

`BuffersUnique`, `CacheAgrees`, `WritesReachDisk`, `CompletionsSeen` and
`DescriptorsSeen` prove the five invariants of `disk`, `DriverNeverPanics` that the driver's own panics are
unreachable (that of `bget` is reachable, see above).  `DInv` (theorem
`DiskInvariant`) joins `LockInv` (who has the sleep lock of a buffer), `CacheInv`
(`refcnt` is the number of users plus the pin, so that only an unused buffer is
recycled), `ChainInv` (the three descriptors of a request are allocated and its own),
`RingInv` (a ring holds different requests, in exactly the slots between the two
indices; there are fewer than its size, so that the comparison modulo the range
tells empty from full), `RequestInv` (a sleeping process has a request that is
queued, with the device, or completed and in the used ring with an interrupt pending)
and `DataInv` (a valid buffer has the newest contents, and a block that is not on the
disk is in a buffer that is pinned or being written).  `DescInv` adds, for
`DescriptorsSeen`, that a descriptor that is not free belongs to a request, and
that fewer than three are free while somebody sleeps for them.

### Transactions (`TxStepProofs`, `TxProofs`, `TxLinkProofs`, `TxReadProofs`)

The theorems take conditions on the programs, stated over the constants of `Tx`
(`RetryOnly`, `OpenInside`, `Mixes`, `MAX_WORKSET`) and satisfied by `Tx.cfg`.  They
are needed: without them the deviations listed above break the properties.

- `Disciplined`: a program closes its files before a transaction ends and holds none
  open across `txbegin`, and it answers a conflict with `txbegin`.
- `Fits`: the objects a program can touch fit into a workset.
- `UnlinkInside`: only transactions unlink.
- `WriteInside`: in mixes that do not unlink, only transactions write.

From `Disciplined` alone `TxProofs` proves `WritersExcluded` and `OnlyCommittedData`.
The invariant `BInv` (theorem `BaseInvariant`) says by the point `pc[p]` which objects
a transaction has in its workset (`TouchInv`), what cannot be freed under a call
(`StableInv`), and which versions are in its shadows (`VersionInv`).  `RefInv` counts:
the users of an inode (open files, calls in progress, transactions, the working
directory) inject into `1..ref`, so `iget` reuses no entry somebody has, and
therefore clears no `writer` field under a transaction.

With `Fits` and `UnlinkInside`, `TxReadProofs` proves `KernelStaysUp` and
`EntriesLinked`, and with `WriteInside` also `ReadsWhole`.  The additional
invariant is in `LInv` (theorem `LinkInvariant`).  Its key is `OwnerInv`: nothing resets
a `writer` field while the inode stays in the table, and the working directory always
does, so one process has all worksets.  A conflict is therefore met at the first
access of a transaction, to the working directory, before it has a shadow or a
second lock (the run `tx_lock_kept` shows what happens to programs that open their
file before `txbegin`).  `ShadowInv` says
which shadows are freed at each point of an abort, in the order of the addresses,
`EntryInv` and `WholeInv` what directory entries and versions are, seen through
the shadows of the process that may still publish them (`View`), so that they hold
again when the last swap of a commit has made the view the stable contents.
`TxStepProofs` and `TxLinkProofs` hold the lemmas, one per action and conjunct.

### What is only model-checked

Liveness (`SleeperWakes`, `OrphanReaped`, `KilledExits`) is beyond the prover.  So is
what recursive operators compute (`ShellParser`, `Workset`, `Heap` and what extends
them), and the accounts of `Vm`, `Fs` and `Mkfs`, which are sums over sets and need
induction over data.  `TxLog` and `Pipe` are model-checked only; `QuietCommit` is proved
of `Log`, and checked of `TxLog`.

## Not modelled, and why

Boot (`main.c`, `start.c`, `entry.S`) runs once, before any concurrency; its
effect is the `Init` of the modules.  The assembly of traps and context switches
saves and restores registers.  The kernel page table and the PLIC registers are
set up once.  The string routines (`string.c`, `ulib.c`), the formatting of
`printf` and text programs such as `grep` and `wc` are sequential loops without
state of their own, which unit tests reach; paths are sequences of names, so
`skipelem` is left out too.  What `printf` does after a panic is left out, and so are calls that
only read (`getpid`, `uptime`, `fstat`, `txstatus`).  `init` is assumed never to be
killed, to fault or to exit.  `usertests.c`, `txtest.c`, `grind.c` and the other
test programs are read as statements of intent; the small commands are straight
sequences of modelled calls.  Allocation of inodes and blocks inside a transaction
(`fs.c:196`, `tx.c:295`) and the abort of an unlinked inode (`tx.c:168`) would need
`Fs`, `Tx` and `Log` in one model.  Overflow of the size of a request in
`umalloc.c:63` is outside the units of `Heap`.  In the shell, `nulterminate` has
nothing to do, because the words of a command are values.
