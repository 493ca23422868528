-------------------------------- MODULE Disk --------------------------------
(***************************************************************************)
(* The block layer: the buffer cache of kernel/bio.c with the sleep-locks  *)
(* of its buffers (kernel/sleeplock.c), above the virtio disk driver of    *)
(* kernel/virtio_disk.c and its device.                                    *)
(*                                                                         *)
(* What is done under one acquire of bcache.lock or vdisk_lock is one      *)
(* step, but for virtio_disk_intr, which the device races.  Waiting for a  *)
(* sleep-lock is a guard; the two sleeps of the driver are explicit,       *)
(* because the interrupt has to end them.  A ring entry is forgotten when  *)
(* the other side has read it, so that reading it twice shows.             *)
(***************************************************************************)
EXTENDS Integers, Sequences, FiniteSets

CONSTANTS
    Proc, Block, Buf,
    Sizes,      \* the values of NUM to look at
    Laps,       \* the indices of the rings wrap around at Laps * NUM (2^16)
    MaxPinned,  \* bound: blocks the log holds at a time (LOGBLOCKS)
    None

Request == [b : Buf, sector : Block, write : BOOLEAN, done : BOOLEAN]

ASSUME DiskAssumption ==
    /\ Sizes \subseteq Nat \ 0..2 /\ Laps \in Nat \ {0}
    /\ None \notin Proc \cup Block \cup Buf \cup Request /\ None \notin Nat
    /\ IsFiniteSet(Buf) /\ IsFiniteSet(Proc) /\ MaxPinned \in Nat

VARIABLES
    NUM,                    \* descriptors, and entries of each ring; never changes
    lru,                    \* the list of buffers, most recent first
    blockno, valid, refcnt, \* struct buf
    fresh,                  \* buffers whose data is the block as last changed
    slock,                  \* b->lock
    busy,                   \* b->disk
    pinned,                 \* buffers that are in the log: bpin, no bunpin yet
    free, next,             \* disk.free; the chains of disk.desc
    info,                   \* disk.info, disk.ops, by first descriptor
    avail, used,            \* the rings
    used_idx,               \* how far the driver has looked into used
    last_avail,             \* how far the device has looked into avail
    active,                 \* requests the device is working on
    irq,                    \* the device asks for an interrupt
    handler,                \* virtio_disk_intr has vdisk_lock
    synced,                 \* blocks that are on the disk as last changed
    at, buf, chain, asleep, \* where a process is, its buffer, its idx[0]
    panic                   \* the call of panic() that stopped the kernel

Desc == 0..(NUM - 1)
IdxRange == Laps * NUM

bcache == <<lru, blockno, refcnt, pinned>>
vring == <<free, next, info, avail, busy, chain>>
device == <<used, last_avail, active, irq>>
intr == <<used_idx, handler>>
vars == <<NUM, bcache, valid, fresh, synced, slock, vring, device, intr, at, buf, asleep, panic>>

Ring == [idx : 0..(IdxRange - 1), ring : [Desc -> Desc \cup {None}]]

\* The orders in which the buffers can be in the list.
Orders == {s \in [1..Cardinality(Buf) -> Buf] : \A i, j \in DOMAIN s : s[i] = s[j] => i = j}

TypeOK ==
    /\ NUM \in Sizes
    /\ lru \in Orders
    /\ blockno \in [Buf -> Block \cup {None}] /\ valid \in [Buf -> BOOLEAN]
    /\ refcnt \in [Buf -> 0..(Cardinality(Proc) + 1)]
    /\ fresh \subseteq Buf /\ synced \subseteq Block
    /\ slock \in [Buf -> Proc \cup {None}] /\ busy \in [Buf -> BOOLEAN]
    /\ pinned \subseteq Buf
    /\ free \subseteq Desc /\ next \in [Desc -> Desc \cup {None}]
    /\ info \in [Desc -> Request \cup {None}]
    /\ avail \in Ring /\ used \in Ring
    /\ {used_idx, last_avail} \subseteq 0..(IdxRange - 1)
    /\ active \subseteq Desc
    /\ {irq, handler} \subseteq BOOLEAN /\ panic \in {"none", "bget", "free_desc", "intr"}
    /\ at \in [Proc -> {"idle", "bget", "rw", "io", "held", "bwritten", "brelse"}]
    /\ buf \in [Proc -> Buf \cup {None}] /\ chain \in [Proc -> Desc \cup {None}]
    /\ asleep \subseteq Proc

EmptyRing == [idx |-> 0, ring |-> [i \in Desc |-> None]]

\* The buffers are in the list, and hold nothing.
binit ==
    /\ lru \in Orders
    /\ blockno = [b \in Buf |-> None] /\ valid = [b \in Buf |-> FALSE]
    /\ refcnt = [b \in Buf |-> 0] /\ pinned = {}
    /\ slock = [b \in Buf |-> None]

\* binit and virtio_disk_init.
Init ==
    /\ NUM \in Sizes
    /\ binit
    /\ fresh = {} /\ synced = Block
    /\ busy = [b \in Buf |-> FALSE]
    /\ free = Desc /\ next = [i \in Desc |-> None] /\ info = [i \in Desc |-> None]
    /\ avail = EmptyRing /\ used = EmptyRing
    /\ used_idx = 0 /\ last_avail = 0 /\ active = {}
    /\ irq = FALSE /\ handler = FALSE
    /\ at = [p \in Proc |-> "idle"] /\ buf = [p \in Proc |-> None]
    /\ chain = [p \in Proc |-> None] /\ asleep = {}
    /\ panic = "none"

Goto(p, l) == at' = [at EXCEPT ![p] = l]
Awake(p) == p \notin asleep

(***************************************************************************)
(* The buffer cache.                                                       *)
(***************************************************************************)

\* Mutant: bget looks only among the buffers in use.
Cached_in_use(n) == {b \in Buf : blockno[b] = n /\ refcnt[b] > 0}

Cached(n) == {b \in Buf : blockno[b] = n}

\* Can bget recycle b?
Unused(b) == refcnt[b] = 0

\* The last unused buffer of the list, if there is one.
Recyclable == {b \in Buf : Unused(b)
    /\ \A i, j \in DOMAIN lru : lru[i] = b /\ j > i => ~Unused(lru[j])}

\* bget finds block n.
bget_hit(p, n, b) ==
    /\ at[p] = "idle" /\ b \in Cached(n)
    /\ refcnt' = [refcnt EXCEPT ![b] = @ + 1]
    /\ buf' = [buf EXCEPT ![p] = b] /\ Goto(p, "bget")
    /\ UNCHANGED <<lru, blockno, pinned, valid, fresh, synced, slock, vring, device, intr,
                   asleep, panic>>

\* Mutant: valid is left from the block the buffer held before.
Recycled_valid(b) == valid

\* The buffer b does not hold its new block yet.
Recycled(b) == [valid EXCEPT ![b] = FALSE]

\* bget recycles b for block n.
bget_recycle(p, n, b) ==
    /\ at[p] = "idle" /\ Cached(n) = {} /\ b \in Recyclable
    /\ blockno' = [blockno EXCEPT ![b] = n] /\ valid' = Recycled(b)
    /\ fresh' = fresh \ {b}
    /\ refcnt' = [refcnt EXCEPT ![b] = 1]
    /\ buf' = [buf EXCEPT ![p] = b] /\ Goto(p, "bget")
    /\ UNCHANGED <<lru, pinned, synced, slock, vring, device, intr, asleep, panic>>

\* bget: no buffers.
bget_panic(p, n) ==
    /\ at[p] = "idle" /\ Cached(n) = {} /\ Recyclable = {}
    /\ panic' = "bget"
    /\ UNCHANGED <<bcache, valid, fresh, synced, slock, vring, device, intr, at, buf, asleep>>

\* acquiresleep at the end of bget, and bread: only an invalid buffer is read.
bread(p) ==
    /\ at[p] = "bget" /\ slock[buf[p]] = None
    /\ slock' = [slock EXCEPT ![buf[p]] = p]
    /\ Goto(p, IF valid[buf[p]] THEN "held" ELSE "rw")
    /\ UNCHANGED <<bcache, valid, fresh, synced, vring, device, intr, buf, asleep, panic>>

\* The holder changes the contents.
Change(b) == fresh' = fresh \cup {b} /\ synced' = synced \ {blockno[b]}

\* The holder changes the contents and calls bwrite.
bwrite(p) ==
    /\ at[p] = "held" /\ slock[buf[p]] = p
    /\ Change(buf[p])
    /\ Goto(p, "rw")
    /\ UNCHANGED <<bcache, valid, slock, vring, device, intr, buf, asleep, panic>>

bpin(b) == refcnt' = [refcnt EXCEPT ![b] = @ + 1]

\* The holder changes the contents and hands the buffer to the log, which
\* pins it until it is installed.
log_write(p) ==
    /\ at[p] = "held" /\ buf[p] \notin pinned /\ Cardinality(pinned) < MaxPinned
    /\ Change(buf[p])
    /\ pinned' = pinned \cup {buf[p]} /\ bpin(buf[p])
    /\ Goto(p, "brelse")
    /\ UNCHANGED <<lru, blockno, valid, slock, vring, device, intr, buf, asleep, panic>>

\* After bwrite: install_trans unpins what the log had pinned.
bunpin(p) ==
    /\ at[p] = "bwritten"
    /\ pinned' = pinned \ {buf[p]}
    /\ refcnt' = [refcnt EXCEPT ![buf[p]] = IF buf[p] \in pinned THEN @ - 1 ELSE @]
    /\ Goto(p, "brelse")
    /\ UNCHANGED <<lru, blockno, valid, fresh, synced, slock, vring, device, intr, buf, asleep,
                   panic>>

\* brelse up to its releasesleep; holdingsleep is true of a holder.
releasesleep(p) ==
    /\ at[p] \in {"held", "brelse"} /\ slock[buf[p]] = p
    /\ slock' = [slock EXCEPT ![buf[p]] = None]
    /\ Goto(p, "brelse")
    /\ UNCHANGED <<bcache, valid, fresh, synced, vring, device, intr, buf, asleep, panic>>

\* The rest of brelse, under bcache.lock.
brelse(p) ==
    LET b == buf[p] IN
    /\ at[p] = "brelse" /\ slock[b] # p
    /\ refcnt' = [refcnt EXCEPT ![b] = @ - 1]
    /\ lru' = IF refcnt[b] = 1 THEN <<b>> \o SelectSeq(lru, LAMBDA x : x # b) ELSE lru
    /\ buf' = [buf EXCEPT ![p] = None] /\ Goto(p, "idle")
    /\ UNCHANGED <<blockno, pinned, valid, fresh, synced, slock, vring, device, intr, asleep,
                   panic>>

(***************************************************************************)
(* The driver.                                                             *)
(***************************************************************************)

Inc(i) == (i + 1) % IdxRange

\* alloc3_desc takes the lowest descriptors that are free.
alloc3_desc(i, j, k) == i < j /\ j < k /\ \A d \in free \ {i, j, k} : d > k

\* Mutant: free_desc wakes nobody.
WaitingDesc_none == {}

\* wakeup(&disk.free[0])
WaitingDesc == {q \in asleep : at[q] = "rw"}

\* virtio_disk_rw finds too few descriptors.  If it had taken some, giving
\* them back wakes the others that wait.
rw_sleep(p) ==
    /\ at[p] = "rw" /\ Awake(p) /\ ~handler /\ Cardinality(free) < 3
    /\ asleep' = (IF free = {} THEN asleep ELSE asleep \ WaitingDesc) \cup {p}
    /\ UNCHANGED <<bcache, valid, fresh, synced, slock, vring, device, intr, at, buf, panic>>

\* The entry is put into avail and the index moved.
Publish(id) ==
    [idx |-> Inc(avail.idx), ring |-> [avail.ring EXCEPT ![avail.idx % NUM] = id]]

\* Mutant: VIRTIO_BLK_T_OUT and VIRTIO_BLK_T_IN are swapped.
Out_swapped(b) == ~valid[b]

\* The argument write of virtio_disk_rw: bread reads exactly the invalid
\* buffers, and bwrite is called after bread.
Out(b) == valid[b]

\* virtio_disk_rw submits the request.
virtio_disk_rw(p) ==
    /\ at[p] = "rw" /\ Awake(p) /\ ~handler
    /\ \E i, j, k \in free :
        /\ alloc3_desc(i, j, k)
        /\ free' = free \ {i, j, k}
        /\ next' = [next EXCEPT ![i] = j, ![j] = k, ![k] = None]
        /\ info' = [info EXCEPT ![i] = [b |-> buf[p], sector |-> blockno[buf[p]],
                                        write |-> Out(buf[p]), done |-> FALSE]]
        /\ avail' = Publish(i)
        /\ chain' = [chain EXCEPT ![p] = i]
    /\ busy' = [busy EXCEPT ![buf[p]] = TRUE]
    /\ asleep' = asleep \cup {p} /\ Goto(p, "io")
    /\ UNCHANGED <<bcache, valid, fresh, synced, slock, device, intr, buf, panic>>

\* The descriptors free_chain walks.
Chain(i) == LET j == next[i] IN
    {i} \cup (IF j = None THEN {} ELSE {j} \cup ({next[j]} \ {None}))

\* The rest of virtio_disk_rw and of its caller.  Only the completion wakes p,
\* so b->disk is never found set again (NoLostInterrupt).  free_desc panics if
\* one of the descriptors is free.
rw_done(p) ==
    LET b == buf[p] c == Chain(chain[p]) IN
    /\ at[p] = "io" /\ Awake(p) /\ ~handler /\ ~busy[b]
    /\ info' = [info EXCEPT ![chain[p]] = None]
    /\ free' = free \cup c /\ next' = [i \in Desc |-> IF i \in c THEN None ELSE next[i]]
    /\ panic' = IF free \cap c = {} THEN panic ELSE "free_desc"
    /\ chain' = [chain EXCEPT ![p] = None]
    /\ asleep' = asleep \ WaitingDesc
    /\ valid' = [valid EXCEPT ![b] = TRUE]
    /\ Goto(p, IF valid[b] THEN "bwritten" ELSE "held")
    /\ UNCHANGED <<bcache, fresh, synced, slock, avail, busy, device, intr, buf>>

\* virtio_disk_intr, up to the acknowledgement.
virtio_disk_intr ==
    /\ irq /\ ~handler
    /\ irq' = FALSE /\ handler' = TRUE
    /\ UNCHANGED <<bcache, valid, fresh, synced, slock, vring, used, last_avail, active,
                   used_idx, at, buf, asleep, panic>>

\* Mutant: the loop stops one entry early.
Unseen_but_last == {used.ring[(used_idx + k) % NUM] :
                        k \in 0..(((used.idx - used_idx) % IdxRange) - 2)}

\* The entries of used between used_idx and used->idx.
Unseen == {used.ring[(used_idx + k) % NUM] :
                        k \in 0..(((used.idx - used_idx) % IdxRange) - 1)}

\* The loop and the release of vdisk_lock: what the device adds while the loop
\* runs is as if added before it or after it.
intr_used ==
    LET done == {info[id].b : id \in Unseen} IN
    /\ handler
    /\ IF \E id \in Unseen : id = None \/ info[id] = None \/ ~info[id].done
       THEN panic' = "intr" /\ UNCHANGED <<busy, asleep, used, used_idx, handler>>
       ELSE /\ busy' = [b \in Buf |-> busy[b] /\ b \notin done]
            /\ asleep' = asleep \ {q \in Proc : at[q] = "io" /\ buf[q] \in done}
            /\ used' = [used EXCEPT !.ring = EmptyRing.ring]
            /\ used_idx' = used.idx /\ handler' = FALSE
            /\ UNCHANGED panic
    /\ UNCHANGED <<bcache, valid, fresh, synced, slock, free, next, info, avail, chain,
                   last_avail, active, irq, at, buf>>

(***************************************************************************)
(* The device: it takes requests in order, and works on them in any order. *)
(***************************************************************************)

\* The entries of avail the device has not fetched yet.
Unfetched == {avail.ring[(last_avail + k) % NUM] :
                        k \in 0..(((avail.idx - last_avail) % IdxRange) - 1)} \ {None}

\* The device fetches what is new and completes one of its requests.
device_done(id) ==
    LET r == info[id] IN
    /\ id \in active \cup Unfetched /\ r # None
    /\ last_avail' = avail.idx /\ avail' = [avail EXCEPT !.ring = EmptyRing.ring]
    /\ active' = (active \cup Unfetched) \ {id}
    /\ IF r.write
       THEN /\ synced' = IF r.b \in fresh THEN synced \cup {r.sector} ELSE synced \ {r.sector}
            /\ UNCHANGED fresh
       ELSE /\ fresh' = IF r.sector \in synced THEN fresh \cup {r.b} ELSE fresh \ {r.b}
            /\ UNCHANGED synced
    /\ info' = [info EXCEPT ![id].done = TRUE]
    /\ used' = [idx |-> Inc(used.idx), ring |-> [used.ring EXCEPT ![used.idx % NUM] = id]]
    /\ irq' = TRUE
    /\ UNCHANGED <<bcache, valid, slock, free, next, busy, chain, intr, at, buf, asleep, panic>>

ProcNext(p) ==
    \/ \E n \in Block : bget_panic(p, n)
    \/ \E n \in Block, b \in Buf : bget_hit(p, n, b) \/ bget_recycle(p, n, b)
    \/ bread(p) \/ bwrite(p) \/ log_write(p) \/ bunpin(p) \/ releasesleep(p) \/ brelse(p)
    \/ rw_sleep(p) \/ virtio_disk_rw(p) \/ rw_done(p)

IntrNext == virtio_disk_intr \/ intr_used
DeviceNext == \E id \in Desc : device_done(id)

\* panic() does not return, and stops the other CPUs.  bget does panic, when all
\* buffers are pinned or in use.  The panics of the driver leave no step, so
\* that TLC reports one as a deadlock.
Halted == panic = "bget" /\ UNCHANGED vars

Next ==
    \/ panic = "none" /\ UNCHANGED NUM /\ ((\E p \in Proc : ProcNext(p)) \/ IntrNext \/ DeviceNext)
    \/ Halted

Spec == Init /\ [][Next]_vars

(***************************************************************************)
(* Properties.                                                             *)
(***************************************************************************)

\* bget never gives a block to two buffers, in any race of two misses.
OneBufPerBlock == \A b, c \in Buf : blockno[b] = blockno[c] /\ b # c => blockno[b] = None

\* What a holder finds in its buffer after bread is what the last holder of
\* any buffer of that block left there: written through, or pinned.
CacheCoherent == \A p \in Proc : at[p] = "held" => buf[p] \in fresh

\* When bwrite returns, the block is on the disk.
WriteThrough == \A p \in Proc : at[p] = "bwritten" => blockno[buf[p]] \in synced

\* Nobody waits for a completion that no interrupt will announce: a process
\* that sleeps in virtio_disk_rw has its request with the device, or in the
\* used ring with an interrupt on its way or being handled.
NoLostInterrupt ==
    \A p \in asleep : at[p] = "io" =>
        LET id == chain[p] IN
        /\ busy[buf[p]]
        /\ \/ id \in active \/ \E i \in Desc : avail.ring[i] = id
           \/ (\E i \in Desc : used.ring[i] = id) /\ (irq \/ handler)

\* Nobody waits for descriptors that are there: while a process sleeps because
\* alloc3_desc failed, there are still too few, and another process has a
\* request whose end will free some and wake it.
NoLostDescriptor ==
    \A p \in asleep : at[p] = "rw" => Cardinality(free) < 3 /\ \E q \in Proc : at[q] = "io"
=============================================================================
