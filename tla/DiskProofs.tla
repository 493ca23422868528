--------------------------- MODULE DiskProofs ------------------------------
(***************************************************************************)
(* Proofs about Disk: the buffer cache is coherent, a write is on the disk *)
(* when bwrite returns, no completion and no wakeup for descriptors is     *)
(* lost, and the driver never panics.                                      *)
(***************************************************************************)
EXTENDS Disk, FiniteSetTheorems, TLAPS

Points == {"idle", "bget", "rw", "io", "held", "bwritten", "brelse"}

\* The types, without the order of the list, on which no property depends.
Types ==
    /\ NUM \in Sizes
    /\ blockno \in [Buf -> Block \cup {None}] /\ valid \in [Buf -> BOOLEAN]
    /\ refcnt \in [Buf -> Nat] /\ pinned \subseteq Buf
    /\ slock \in [Buf -> Proc \cup {None}] /\ busy \in [Buf -> BOOLEAN]
    /\ free \subseteq Desc /\ next \in [Desc -> Desc \cup {None}]
    /\ info \in [Desc -> Request \cup {None}]
    /\ avail \in Ring /\ used \in Ring
    /\ used_idx \in 0..(IdxRange - 1) /\ last_avail \in 0..(IdxRange - 1)
    /\ at \in [Proc -> Points]
    /\ buf \in [Proc -> Buf \cup {None}] /\ chain \in [Proc -> Desc \cup {None}]
    /\ asleep \subseteq Proc
    /\ panic \in {"none", "bget"}

\* The points at which a process has the sleep-lock of its buffer for sure.
Owning == {"rw", "io", "held", "bwritten"}

\* A buffer is locked by the one process that uses it between bread and brelse.
LockInv ==
    /\ \A p \in Proc : at[p] = "idle" <=> buf[p] = None
    /\ \A p \in Proc : at[p] \in Owning => slock[buf[p]] = p
    /\ \A b \in Buf : slock[b] # None =>
          buf[slock[b]] = b /\ at[slock[b]] \in Owning \cup {"brelse"}

Users(b) == {p \in Proc : buf[p] = b}

\* refcnt counts the users of a buffer and the log, and what is counted is a
\* block.
CacheInv ==
    /\ OneBufPerBlock
    /\ \A b \in Buf : refcnt[b] = Cardinality(Users(b)) + (IF b \in pinned THEN 1 ELSE 0)
    /\ \A p \in Proc : buf[p] # None => blockno[buf[p]] # None
    /\ \A b \in pinned : blockno[b] # None

Io(p) == at[p] = "io"

\* The descriptors of a request are allocated, and its own.
ChainInv ==
    /\ \A p \in Proc : Io(p) =>
          /\ chain[p] \in Desc
          /\ next[chain[p]] \in Desc /\ next[next[chain[p]]] \in Desc
          /\ next[chain[p]] # chain[p]
          /\ Chain(chain[p]) \cap free = {}
    /\ \A p, q \in Proc : Io(p) /\ Io(q) /\ p # q => Chain(chain[p]) \cap Chain(chain[q]) = {}

\* The entries of a ring that have not been looked at.
Dist(m, i, j) == (j - i) % m
Window(n, m, i, j) == {(i + k) % n : k \in 0..(Dist(m, i, j) - 1)}

Entries(ring) == {ring[s] : s \in Desc} \ {None}

\* A ring holds different requests, in exactly the slots that were not looked at.
RingOK(x, from) ==
    /\ Dist(IdxRange, from, x.idx) < NUM
    /\ \A s \in Desc : x.ring[s] # None <=> s \in Window(NUM, IdxRange, from, x.idx)
    /\ \A s, t \in Desc : x.ring[s] = x.ring[t] /\ s # t => x.ring[s] = None

RingInv == RingOK(avail, last_avail) /\ RingOK(used, used_idx)

\* Requests the device has not completed, and completions not looked at.
Waiting == active \cup Entries(avail.ring)
Completed == Entries(used.ring)

\* A request describes the buffer of the process that sleeps for it; it waits for
\* the device until it is done, then in the used ring for an interrupt.
RequestInv ==
    /\ \A p \in Proc : Io(p) =>
          /\ info[chain[p]] \in Request
          /\ info[chain[p]].b = buf[p] /\ info[chain[p]].sector = blockno[buf[p]]
          /\ info[chain[p]].write = valid[buf[p]]
          /\ p \in asleep <=> busy[buf[p]]
          /\ ~info[chain[p]].done => busy[buf[p]] /\ chain[p] \in Waiting
          /\ info[chain[p]].done /\ busy[buf[p]] => chain[p] \in Completed
    /\ \A i \in Waiting : \E p \in Proc : Io(p) /\ chain[p] = i /\ ~info[i].done
    /\ \A i \in Completed : \E p \in Proc :
          Io(p) /\ chain[p] = i /\ info[i].done /\ busy[buf[p]]
    /\ Completed # {} => irq \/ handler

\* A valid buffer is fresh, and what the log and the holders have is valid.
ValidInv ==
    /\ \A b \in Buf : valid[b] => b \in fresh
    /\ \A b \in pinned : valid[b]
    /\ \A p \in Proc : at[p] \in {"held", "bwritten"} => valid[buf[p]]

\* A block that is not on the disk is in a valid buffer that is pinned or being
\* written.
SyncInv ==
    \A n \in Block : n \notin synced => \E b \in Buf :
        /\ blockno[b] = n /\ valid[b]
        /\ b \in pinned \/ \E p \in Proc : buf[p] = b /\ at[p] \in {"rw", "io"}

\* A request that is done has brought the buffer and the block together.
DoneInv ==
    /\ \A p \in Proc : Io(p) /\ info[chain[p]].done =>
          IF valid[buf[p]] THEN blockno[buf[p]] \in synced ELSE buf[p] \in fresh
    /\ \A p \in Proc : at[p] = "bwritten" => blockno[buf[p]] \in synced

DataInv == ValidInv /\ SyncInv /\ DoneInv

DInv == Types /\ LockInv /\ CacheInv /\ ChainInv /\ RingInv /\ RequestInv /\ DataInv

-----------------------------------------------------------------------------
(* Each part of the invariant speaks of a few variables.                    *)

\* Steps that leave the processes and the sleep-locks alone.
LEMMA LockSame ==
    ASSUME LockInv, UNCHANGED <<at, buf, slock>>
    PROVE  LockInv'
BY ZenonT(40) DEF LockInv

\* A process that keeps its sleep-lock from one point to the next.
LEMMA LockMoves ==
    ASSUME LockInv, at \in [Proc -> Points], slock \in [Buf -> Proc \cup {None}],
           NEW p \in Proc, NEW l \in Owning, at[p] \in Owning,
           at' = [at EXCEPT ![p] = l], UNCHANGED <<buf, slock>>
    PROVE  LockInv'
<1>1. \A q \in Proc : /\ at'[q] = "idle" <=> at[q] = "idle"
                      /\ at'[q] \in Owning <=> at[q] \in Owning
                      /\ at'[q] = "brelse" <=> at[q] = "brelse"
  BY DEF Owning
<1>2. \A b \in Buf : slock[b] # None => slock[b] \in Proc
  OBVIOUS
<1> QED
  BY <1>1, <1>2, ZenonT(40) DEF LockInv

\* Steps that leave the counts and the blocks of the buffers alone.
LEMMA CacheSame ==
    ASSUME CacheInv, UNCHANGED <<blockno, refcnt, pinned, buf>>
    PROVE  CacheInv'
<1>1. OneBufPerBlock'
  BY ZenonT(40) DEF CacheInv, OneBufPerBlock
<1>2. \A b \in Buf : Cardinality(Users(b)') = Cardinality(Users(b))
  BY Zenon DEF Users
<1>3. \A b \in Buf : refcnt'[b] = Cardinality(Users(b)') + (IF b \in pinned' THEN 1 ELSE 0)
  BY <1>2, ZenonT(40) DEF CacheInv
<1> QED
  BY <1>1, <1>3, ZenonT(40) DEF CacheInv

\* Steps that leave the descriptors alone.
LEMMA ChainSame ==
    ASSUME ChainInv, UNCHANGED <<NUM, free, next, chain, at>>
    PROVE  ChainInv'
BY ZenonT(40) DEF ChainInv, Io, Chain, Desc

\* Steps that leave the two rings alone.
LEMMA RingSame ==
    ASSUME RingInv, UNCHANGED <<NUM, avail, last_avail, used, used_idx>>
    PROVE  RingInv'
BY ZenonT(40) DEF RingInv, RingOK, Desc, IdxRange

\* What a process waits for, in a step that touches none of it.
LEMMA RequestSame ==
    ASSUME RequestInv, NEW q \in Proc, Io(q), chain'[q] = chain[q],
           info'[chain[q]] = info[chain[q]], buf'[q] = buf[q],
           blockno'[buf[q]] = blockno[buf[q]], valid'[buf[q]] = valid[buf[q]],
           busy'[buf[q]] = busy[buf[q]], q \in asleep' <=> q \in asleep,
           chain[q] \in Waiting => chain[q] \in Waiting',
           chain[q] \in Completed => chain[q] \in Completed'
    PROVE  /\ info'[chain'[q]] \in Request
           /\ info'[chain'[q]].b = buf'[q] /\ info'[chain'[q]].sector = blockno'[buf'[q]]
           /\ info'[chain'[q]].write = valid'[buf'[q]]
           /\ q \in asleep' <=> busy'[buf'[q]]
           /\ ~info'[chain'[q]].done => busy'[buf'[q]] /\ chain'[q] \in Waiting'
           /\ info'[chain'[q]].done /\ busy'[buf'[q]] => chain'[q] \in Completed'
<1>1. /\ info[chain[q]] \in Request
      /\ info[chain[q]].b = buf[q] /\ info[chain[q]].sector = blockno[buf[q]]
      /\ info[chain[q]].write = valid[buf[q]]
      /\ q \in asleep <=> busy[buf[q]]
      /\ ~info[chain[q]].done => busy[buf[q]] /\ chain[q] \in Waiting
      /\ info[chain[q]].done /\ busy[buf[q]] => chain[q] \in Completed
  BY ZenonT(40) DEF RequestInv
<1>2. /\ info'[chain'[q]] = info[chain[q]] /\ blockno'[buf'[q]] = blockno[buf[q]]
      /\ valid'[buf'[q]] = valid[buf[q]] /\ busy'[buf'[q]] = busy[buf[q]]
  BY ZenonT(40)
<1> QED
  BY <1>1, <1>2

\* What virtio_disk_rw says of its buffer.
LEMMA RequestMade ==
    ASSUME NEW b \in Buf, NEW n \in Block, NEW w \in BOOLEAN,
           NEW x, x = [b |-> b, sector |-> n, write |-> w, done |-> FALSE]
    PROVE  x \in Request /\ x.b = b /\ x.sector = n /\ x.write = w /\ ~x.done
BY DEF Request

\* Steps that write no buffer and no block.
LEMMA ValidSame ==
    ASSUME ValidInv, UNCHANGED <<valid, pinned, at, buf>>, fresh \subseteq fresh'
    PROVE  ValidInv'
BY ZenonT(40) DEF ValidInv

\* Steps that write no buffer, and may bring blocks to the disk.
LEMMA SyncSame ==
    ASSUME SyncInv, UNCHANGED <<blockno, valid, pinned, at, buf>>, synced \subseteq synced'
    PROVE  SyncInv'
BY ZenonT(40) DEF SyncInv

\* Steps that complete no request.
LEMMA DataFrame ==
    ASSUME DataInv,
           UNCHANGED <<blockno, valid, pinned, fresh, synced, info, chain, at, buf>>
    PROVE  DataInv'
<1>1. ValidInv' /\ SyncInv'
  BY ValidSame, SyncSame, ZenonT(40) DEF DataInv
<1>2. DoneInv'
  BY ZenonT(40) DEF DataInv, DoneInv, Io
<1> QED
  BY <1>1, <1>2, Zenon DEF DataInv

\* Steps that leave all of the types alone.
LEMMA TypesSame ==
    ASSUME Types, UNCHANGED <<NUM, blockno, valid, refcnt, pinned, slock, busy, free, next, info,
                              avail, used, used_idx, last_avail, at, buf, chain, asleep, panic>>
    PROVE  Types'
<1>1. Desc' = Desc /\ IdxRange' = IdxRange
  BY Zenon DEF Desc, IdxRange
<1>2. Ring' = Ring
  BY <1>1, Zenon DEF Ring
<1> QED
  BY <1>1, <1>2, ZenonT(40) DEF Types

-----------------------------------------------------------------------------
(* The indices of the rings run modulo IdxRange, a multiple of NUM.         *)

\* Division with remainder.
LEMMA DivMod ==
    ASSUME NEW m \in Nat \ {0}, NEW a \in Int
    PROVE  a % m \in 0..(m - 1) /\ a \div m \in Int /\ a = (m * (a \div m)) + (a % m)
OBVIOUS

\* The remainder is the only one.
LEMMA ModUnique ==
    ASSUME NEW m \in Nat \ {0}, NEW q \in Int, NEW b \in 0..(m - 1)
    PROVE  ((m * q) + b) % m = b
OBVIOUS

\* A multiple of m does not change the remainder.
LEMMA ModShift ==
    ASSUME NEW m \in Nat \ {0}, NEW n \in Nat, n % m = 0, NEW a \in Int
    PROVE  (a - n) % m = a % m
<1> DEFINE q == (a \div m) - (n \div m)
<1>1. n = m * (n \div m) /\ n \div m \in Int
  BY DivMod
<1>2. a = (m * (a \div m)) + (a % m) /\ a \div m \in Int /\ a % m \in 0..(m - 1)
  BY DivMod
<1>3. q \in Int /\ m * q = (m * (a \div m)) - (m * (n \div m))
  BY <1>1, <1>2
<1>4. a - n = (m * q) + (a % m)
  BY <1>1, <1>2, <1>3
<1> HIDE DEF q
<1> QED
  BY <1>2, <1>3, <1>4, ModUnique

\* Numbers less than m apart have different remainders.
LEMMA ModDiffer ==
    ASSUME NEW m \in Nat \ {0}, NEW a \in Int, NEW b \in Int, a < b, b - a < m
    PROVE  a % m # b % m
<1> SUFFICES ASSUME a % m = b % m
             PROVE  FALSE
  OBVIOUS
<1> DEFINE q == (b \div m) - (a \div m)
<1>1. /\ a = (m * (a \div m)) + (a % m) /\ a \div m \in Int /\ a % m \in Int
      /\ b = (m * (b \div m)) + (b % m) /\ b \div m \in Int
  BY DivMod
<1>2. q \in Int /\ m * q = (m * (b \div m)) - (m * (a \div m))
  BY <1>1
<1>3. b - a = m * q
  BY <1>1, <1>2
<1> HIDE DEF q
<1>4. m * q > 0 /\ m * q < m
  BY <1>3
<1> QED
  BY <1>2, <1>4

\* The remainder of what is at most one round away.
LEMMA ModNear ==
    ASSUME NEW m \in Nat \ {0}, NEW a \in Int
    PROVE  /\ a \in 0..(m - 1) => a % m = a
           /\ a \in m..((2 * m) - 1) => a % m = a - m
           /\ a \in (-m)..(-1) => a % m = a + m
OBVIOUS

\* The number of entries between two indices.
LEMMA DistCases ==
    ASSUME NEW m \in Nat \ {0}, NEW i \in 0..(m - 1), NEW j \in 0..(m - 1)
    PROVE  /\ Dist(m, i, j) \in 0..(m - 1)
           /\ Dist(m, i, j) = IF i <= j THEN j - i ELSE (j - i) + m
<1>1. CASE i <= j
  <2>1. j - i \in Int /\ j - i \in 0..(m - 1)
    BY <1>1
  <2>2. (j - i) % m = j - i
    BY <2>1, ModNear
  <2> QED
    BY <1>1, <2>1, <2>2 DEF Dist
<1>2. CASE ~(i <= j)
  <2>1. j - i \in Int /\ j - i \in (-m)..(-1) /\ (j - i) + m \in 0..(m - 1)
    BY <1>2
  <2>2. (j - i) % m = (j - i) + m
    BY <2>1, ModNear, Zenon
  <2> QED
    BY <1>2, <2>1, <2>2 DEF Dist
<1> QED
  BY <1>1, <1>2

\* An index that is moved on by one.
LEMMA Moved ==
    ASSUME NEW m \in Nat \ {0}, NEW j \in 0..(m - 1)
    PROVE  /\ (j + 1) % m \in 0..(m - 1)
           /\ (j + 1) % m = IF j + 1 < m THEN j + 1 ELSE 0
<1>1. CASE j + 1 < m
  <2>1. j + 1 \in Int /\ j + 1 \in 0..(m - 1)
    BY <1>1
  <2>2. (j + 1) % m = j + 1
    BY <2>1, ModNear
  <2> QED
    BY <1>1, <2>1, <2>2
<1>2. CASE ~(j + 1 < m)
  <2>1. j + 1 \in Int /\ j + 1 \in m..((2 * m) - 1) /\ j + 1 = m
    BY <1>2
  <2>2. (j + 1) % m = (j + 1) - m
    BY <2>1, ModNear
  <2> QED
    BY <1>2, <2>1, <2>2
<1> QED
  BY <1>1, <1>2

\* Moving the far index on makes one entry more.
LEMMA DistMoved ==
    ASSUME NEW m \in Nat \ {0}, NEW i \in 0..(m - 1), NEW j \in 0..(m - 1),
           Dist(m, i, j) < m - 1
    PROVE  Dist(m, i, (j + 1) % m) = Dist(m, i, j) + 1
<1>1. /\ (j + 1) % m \in 0..(m - 1)
      /\ (j + 1) % m = IF j + 1 < m THEN j + 1 ELSE 0
  BY Moved
<1>2. Dist(m, i, j) = IF i <= j THEN j - i ELSE (j - i) + m
  BY DistCases
<1>3. Dist(m, i, (j + 1) % m) = IF i <= (j + 1) % m THEN ((j + 1) % m) - i
                                ELSE (((j + 1) % m) - i) + m
  BY <1>1, DistCases, Zenon
<1>4. CASE j + 1 < m
  BY <1>1, <1>2, <1>3, <1>4
<1>5. CASE ~(j + 1 < m)
  <2>1. j = m - 1 /\ (j + 1) % m = 0 /\ i <= j
    BY <1>1, <1>5
  <2>2. i > 0
    BY <1>2, <2>1
  <2> QED
    BY <1>2, <1>3, <2>1, <2>2
<1> QED
  BY <1>4, <1>5

\* The slot of the far index.
LEMMA SlotAtEnd ==
    ASSUME NEW n \in Nat \ {0}, NEW m \in Nat \ {0}, m % n = 0,
           NEW i \in 0..(m - 1), NEW j \in 0..(m - 1)
    PROVE  (i + Dist(m, i, j)) % n = j % n
<1>1. Dist(m, i, j) = IF i <= j THEN j - i ELSE (j - i) + m
  BY DistCases, ZenonT(40)
<1>2. CASE i <= j
  BY <1>1, <1>2
<1>3. CASE ~(i <= j)
  <2>1. i + Dist(m, i, j) = j + m /\ j + m \in Int /\ (j + m) - m = j
    BY <1>1, <1>3
  <2>2. ((j + m) - m) % n = (j + m) % n
    BY <2>1, ModShift, Zenon
  <2> QED
    BY <2>1, <2>2
<1> QED
  BY <1>2, <1>3

\* Slots of entries less than a ring apart are different.
LEMMA SlotsDiffer ==
    ASSUME NEW n \in Nat \ {0}, NEW i \in Nat, NEW k \in 0..(n - 1), NEW l \in 0..(n - 1), k # l
    PROVE  (i + k) % n # (i + l) % n
<1>1. CASE k < l
  <2>1. i + k \in Int /\ i + l \in Int /\ i + k < i + l /\ (i + l) - (i + k) < n
    BY <1>1
  <2> QED
    BY <2>1, ModDiffer, Zenon
<1>2. CASE l < k
  <2>1. i + k \in Int /\ i + l \in Int /\ i + l < i + k /\ (i + k) - (i + l) < n
    BY <1>2
  <2> QED
    BY <2>1, ModDiffer, Zenon
<1> QED
  BY <1>1, <1>2

\* What moving the far index on does to the window.
LEMMA WindowMoved ==
    ASSUME NEW n \in Nat \ {0}, NEW m \in Nat \ {0}, m % n = 0,
           NEW i \in 0..(m - 1), NEW j \in 0..(m - 1), Dist(m, i, j) < m - 1, Dist(m, i, j) < n
    PROVE  /\ Window(n, m, i, (j + 1) % m) = Window(n, m, i, j) \cup {j % n}
           /\ j % n \notin Window(n, m, i, j)
           /\ j % n \in 0..(n - 1)
<1> DEFINE d == Dist(m, i, j)
<1>1. Dist(m, i, (j + 1) % m) = d + 1 /\ d \in 0..(m - 1)
  BY DistMoved, DistCases
<1>2. (i + d) % n = j % n
  BY SlotAtEnd
<1> HIDE DEF d
<1>3. 0..((d + 1) - 1) = 0..(d - 1) \cup {d}
  BY <1>1
<1>4. Window(n, m, i, j) = {(i + k) % n : k \in 0..(d - 1)}
  BY DEF Window, d
<1>5. Window(n, m, i, (j + 1) % m) = {(i + k) % n : k \in 0..(d - 1) \cup {d}}
  BY <1>1, <1>3, Zenon DEF Window
<1>6. Window(n, m, i, (j + 1) % m) = Window(n, m, i, j) \cup {j % n}
  BY <1>2, <1>4, <1>5, Zenon
<1>7. j % n \notin Window(n, m, i, j)
  <2> SUFFICES ASSUME NEW k \in 0..(d - 1), (i + k) % n = (i + d) % n
               PROVE  FALSE
    BY <1>2, <1>4, Zenon
  <2>1. i \in Nat /\ k \in 0..(n - 1) /\ d \in 0..(n - 1) /\ k # d
    BY <1>1 DEF d
  <2> QED
    BY <2>1, SlotsDiffer, Zenon
<1>8. j % n \in 0..(n - 1)
  BY DivMod
<1> QED
  BY <1>6, <1>7, <1>8

\* Nothing is between an index and itself.
LEMMA WindowEmpty ==
    ASSUME NEW n \in Nat \ {0}, NEW m \in Nat \ {0}, NEW i \in 0..(m - 1)
    PROVE  Dist(m, i, i) = 0 /\ Window(n, m, i, i) = {}
<1>1. Dist(m, i, i) = 0
  BY DistCases
<1> QED
  BY <1>1 DEF Window

\* A set is at most as large as one it is mapped into without collisions.
LEMMA Injected ==
    ASSUME NEW K, IsFiniteSet(K), NEW S, IsFiniteSet(S), NEW f \in [K -> S],
           \A k, l \in K : k # l => f[k] # f[l]
    PROVE  ~(Cardinality(S) < Cardinality(K))
BY FS_PigeonHole, Zenon

\* Different entries need different values: a window is no larger than the set
\* of values in it.
LEMMA WindowFits ==
    ASSUME NEW n \in Nat \ {0}, NEW m \in Nat \ {0}, NEW i \in 0..(m - 1), NEW j \in 0..(m - 1),
           Dist(m, i, j) < n, NEW ring, NEW S, IsFiniteSet(S),
           \A s \in Window(n, m, i, j) : ring[s] \in S,
           \A s, t \in Window(n, m, i, j) : s # t => ring[s] # ring[t]
    PROVE  Dist(m, i, j) <= Cardinality(S)
<1> DEFINE d == Dist(m, i, j)
           f == [k \in 0..(d - 1) |-> ring[(i + k) % n]]
<1>1. d \in Nat /\ d < n /\ i \in Nat
  BY DistCases
<1>2. Window(n, m, i, j) = {(i + k) % n : k \in 0..(d - 1)}
  BY DEF Window
<1> HIDE DEF d
<1>3. f \in [0..(d - 1) -> S]
  BY <1>2
<1>4. \A k, l \in 0..(d - 1) : k # l => f[k] # f[l]
  <2> SUFFICES ASSUME NEW k \in 0..(d - 1), NEW l \in 0..(d - 1), k # l
               PROVE  f[k] # f[l]
    OBVIOUS
  <2>1. k \in 0..(n - 1) /\ l \in 0..(n - 1)
    BY <1>1
  <2>2. (i + k) % n # (i + l) % n
    BY <1>1, <2>1, SlotsDiffer, Zenon
  <2> QED
    BY <1>2, <2>2
<1>5. IsFiniteSet(0..(d - 1)) /\ Cardinality(0..(d - 1)) = d
  <2>1. 0 \in Int /\ d - 1 \in Int
    BY <1>1
  <2>2. /\ IsFiniteSet(0..(d - 1))
        /\ Cardinality(0..(d - 1)) = IF 0 > d - 1 THEN 0 ELSE (d - 1) - 0 + 1
    BY <2>1, FS_Interval, Zenon
  <2> QED
    BY <1>1, <2>2
<1> HIDE DEF f
<1>6. ~(Cardinality(S) < d)
  <2> DEFINE K == 0..(d - 1)
  <2>1. IsFiniteSet(K) /\ Cardinality(K) = d /\ f \in [K -> S]
    BY <1>3, <1>5
  <2>2. \A k, l \in K : k # l => f[k] # f[l]
    BY <1>4
  <2> HIDE DEF K
  <2> QED
    BY <2>1, <2>2, Injected
<1>7. Cardinality(S) \in Nat
  BY FS_CardinalityType
<1> QED
  BY <1>1, <1>6, <1>7 DEF d

\* The sizes of the rings.
LEMMA Geometry ==
    ASSUME NUM \in Sizes
    PROVE  /\ NUM \in Nat \ {0} /\ NUM >= 3 /\ IdxRange \in Nat \ {0}
           /\ IdxRange % NUM = 0 /\ IdxRange >= NUM
<1>1. NUM \in Nat /\ NUM >= 3 /\ Laps \in Nat /\ Laps >= 1
  BY DiskAssumption
<1>2. IdxRange = (NUM * Laps) + 0 /\ IdxRange \in Nat /\ IdxRange >= NUM
  BY <1>1 DEF IdxRange
<1>3. ((NUM * Laps) + 0) % NUM = 0
  BY <1>1, ModUnique
<1> QED
  BY <1>1, <1>2, <1>3

-----------------------------------------------------------------------------
(* The reference counts.                                                    *)

\* The users of a buffer can be counted.
LEMMA UsersCounted ==
    ASSUME NEW b
    PROVE  IsFiniteSet(Users(b)) /\ Cardinality(Users(b)) \in Nat
<1>1. Users(b) \in SUBSET Proc /\ IsFiniteSet(Proc)
  BY DiskAssumption DEF Users
<1>2. IsFiniteSet(Users(b))
  BY <1>1, FS_Subset
<1> QED
  BY <1>2, FS_CardinalityType

\* A buffer with refcnt 0 has no user and is not in the log.
LEMMA Unreferenced ==
    ASSUME Types, CacheInv, NEW b \in Buf, refcnt[b] = 0
    PROVE  b \notin pinned /\ \A q \in Proc : buf[q] # b
<1>1. /\ IsFiniteSet(Users(b)) /\ Cardinality(Users(b)) \in Nat
      /\ refcnt[b] = Cardinality(Users(b)) + (IF b \in pinned THEN 1 ELSE 0)
  BY UsersCounted DEF CacheInv
<1>2. b \notin pinned /\ Cardinality(Users(b)) = 0
  BY <1>1
<1>3. Users(b) = {}
  BY <1>1, <1>2, FS_EmptySet
<1> QED
  BY <1>2, <1>3 DEF Users

\* bget gives a buffer to a process.
LEMMA UserAdded ==
    ASSUME Types, NEW p \in Proc, NEW b \in Buf, buf[p] = None, buf' = [buf EXCEPT ![p] = b]
    PROVE  \A c \in Buf : Cardinality(Users(c)')
                            = Cardinality(Users(c)) + (IF c = b THEN 1 ELSE 0)
<1> SUFFICES ASSUME NEW c \in Buf
             PROVE  Cardinality(Users(c)')
                      = Cardinality(Users(c)) + (IF c = b THEN 1 ELSE 0)
  OBVIOUS
<1>1. IsFiniteSet(Users(c)) /\ Cardinality(Users(c)) \in Nat
  BY UsersCounted
<1>2. buf \in [Proc -> Buf \cup {None}] /\ None \notin Buf
  BY DiskAssumption DEF Types
<1>3. CASE c = b
  <2>1. Users(c)' = Users(c) \cup {p} /\ p \notin Users(c)
    BY <1>2, <1>3 DEF Users
  <2>2. Cardinality(Users(c) \cup {p}) = Cardinality(Users(c)) + 1
    BY <1>1, <2>1, FS_AddElement, Zenon
  <2> QED
    BY <1>3, <2>1, <2>2
<1>4. CASE c # b
  <2>1. Users(c)' = Users(c)
    BY <1>2, <1>4 DEF Users
  <2> QED
    BY <1>1, <1>4, <2>1
<1> QED
  BY <1>3, <1>4

\* brelse takes it away.
LEMMA UserRemoved ==
    ASSUME Types, NEW p \in Proc, NEW b \in Buf, buf[p] = b, buf' = [buf EXCEPT ![p] = None]
    PROVE  /\ \A c \in Buf : Cardinality(Users(c)')
                               = Cardinality(Users(c)) - (IF c = b THEN 1 ELSE 0)
           /\ Cardinality(Users(b)) >= 1
<1>1. \A c : IsFiniteSet(Users(c)) /\ Cardinality(Users(c)) \in Nat
  BY UsersCounted
<1>2. buf \in [Proc -> Buf \cup {None}] /\ None \notin Buf
  BY DiskAssumption DEF Types
<1>3. ASSUME NEW c \in Buf, c = b
      PROVE  /\ Cardinality(Users(c)') = Cardinality(Users(c)) - 1
             /\ Cardinality(Users(c)) >= 1
  <2>1. Users(c)' = Users(c) \ {p} /\ p \in Users(c)
    BY <1>2, <1>3 DEF Users
  <2>2. Cardinality(Users(c) \ {p}) = Cardinality(Users(c)) - 1
    BY <1>1, <2>1, FS_RemoveElement
  <2>3. Cardinality(Users(c)) # 0
    BY <1>1, <2>1, FS_EmptySet
  <2> QED
    BY <1>1, <2>1, <2>2, <2>3
<1>4. ASSUME NEW c \in Buf, c # b
      PROVE  Cardinality(Users(c)') = Cardinality(Users(c)) /\ Cardinality(Users(c)) \in Nat
  <2>1. Users(c)' = Users(c)
    BY <1>2, <1>4 DEF Users
  <2> QED
    BY <1>1, <2>1
<1> QED
  BY <1>3, <1>4

-----------------------------------------------------------------------------
(* The steps of the buffer cache.                                           *)

BufStep(p) ==
    \/ \E n \in Block : bget_panic(p, n)
    \/ \E n \in Block, b \in Buf : bget_hit(p, n, b) \/ bget_recycle(p, n, b)
    \/ bread(p) \/ bwrite(p) \/ log_write(p) \/ bunpin(p) \/ releasesleep(p) \/ brelse(p)
    \/ rw_sleep(p)

\* What the driver and the device do not notice.
Quiet ==
    /\ UNCHANGED <<NUM, vring, device, intr>>
    /\ \A q \in Proc : Io(q)' <=> Io(q)
    /\ \A q \in Proc : Io(q) =>
          /\ buf'[q] = buf[q] /\ blockno'[buf[q]] = blockno[buf[q]]
          /\ valid'[buf[q]] = valid[buf[q]] /\ (q \in asleep' <=> q \in asleep)

\* A step of bget, bwrite, brelse, bpin or bunpin does not touch the queue.
LEMMA QuietStep ==
    ASSUME Types, LockInv, CacheInv, UNCHANGED NUM, NEW p \in Proc, BufStep(p)
    PROVE  Quiet
<1> USE DEF Goto, Io, Quiet, vring, bcache, Types
<1>1. ASSUME NEW n \in Block, bget_panic(p, n)
      PROVE  Quiet
  BY <1>1 DEF bget_panic
<1>2. ASSUME NEW n \in Block, NEW b \in Buf, bget_hit(p, n, b)
      PROVE  Quiet
  BY <1>2 DEF bget_hit
<1>3. ASSUME NEW n \in Block, NEW b \in Buf, bget_recycle(p, n, b)
      PROVE  Quiet
  <2>1. \A q \in Proc : buf[q] # b
    BY <1>3, Unreferenced DEF bget_recycle, Recyclable, Unused
  <2>2. \A q \in Proc : Io(q) => buf[q] \in Buf
    BY DEF LockInv
  <2> QED
    BY <1>3, <2>1, <2>2, Zenon DEF bget_recycle, Recycled
<1>4. CASE bread(p)
  BY <1>4 DEF bread
<1>5. CASE bwrite(p)
  BY <1>5 DEF bwrite
<1>6. CASE releasesleep(p)
  BY <1>6 DEF releasesleep
<1>7. CASE log_write(p)
  BY <1>7 DEF log_write
<1>8. CASE bunpin(p)
  BY <1>8 DEF bunpin
<1>9. CASE brelse(p)
  BY <1>9 DEF brelse
<1>10. CASE rw_sleep(p)
  BY <1>10 DEF rw_sleep, WaitingDesc
<1> QED
  BY <1>1, <1>2, <1>3, <1>4, <1>5, <1>6, <1>7, <1>8, <1>9, <1>10, ZenonT(40) DEF BufStep

\* Requests are as they were.
LEMMA QuietKeeps ==
    ASSUME ChainInv, RingInv, RequestInv, Quiet
    PROVE  ChainInv' /\ RingInv' /\ RequestInv'
<1>1. ChainInv'
  <2>1. \A i : Chain(i)' = Chain(i)
    BY DEF Quiet, vring, Chain
  <2>2. UNCHANGED <<chain, next, free>> /\ Desc' = Desc /\ \A q \in Proc : Io(q)' <=> Io(q)
    BY DEF Quiet, vring, Desc
  <2> QED
    BY <2>1, <2>2 DEF ChainInv
<1>2. RingInv'
  BY DEF Quiet, RingInv, RingOK, vring, device, intr, Desc, IdxRange
<1>3. Waiting' = Waiting /\ Completed' = Completed
  <2>1. UNCHANGED <<NUM, avail, used, active>>
    BY Zenon DEF Quiet, vring, device
  <2> QED
    BY <2>1, Zenon DEF Waiting, Completed, Entries, Desc
<1>4. UNCHANGED <<info, chain, busy, irq, handler>>
  BY Zenon DEF Quiet, vring, device, intr
<1>5. RequestInv'
  <2>1. ASSUME NEW q \in Proc, Io(q)'
        PROVE  /\ info'[chain'[q]] \in Request
               /\ info'[chain'[q]].b = buf'[q] /\ info'[chain'[q]].sector = blockno'[buf'[q]]
               /\ info'[chain'[q]].write = valid'[buf'[q]]
               /\ q \in asleep' <=> busy'[buf'[q]]
               /\ ~info'[chain'[q]].done => busy'[buf'[q]] /\ chain'[q] \in Waiting'
               /\ info'[chain'[q]].done /\ busy'[buf'[q]] => chain'[q] \in Completed'
    <3>1. /\ info[chain[q]] \in Request
          /\ info[chain[q]].b = buf[q] /\ info[chain[q]].sector = blockno[buf[q]]
          /\ info[chain[q]].write = valid[buf[q]]
          /\ q \in asleep <=> busy[buf[q]]
          /\ ~info[chain[q]].done => busy[buf[q]] /\ chain[q] \in Waiting
          /\ info[chain[q]].done /\ busy[buf[q]] => chain[q] \in Completed
      BY <2>1, Zenon DEF Quiet, RequestInv
    <3>2. /\ buf'[q] = buf[q] /\ blockno'[buf[q]] = blockno[buf[q]]
          /\ valid'[buf[q]] = valid[buf[q]] /\ (q \in asleep' <=> q \in asleep)
      BY <2>1, Zenon DEF Quiet
    <3> QED
      BY <1>3, <1>4, <3>1, <3>2, Zenon
  <2>2. \A i \in Waiting' : \E q \in Proc : Io(q)' /\ chain'[q] = i /\ ~info'[i].done
    BY <1>3, <1>4, Zenon DEF Quiet, RequestInv
  <2>3. \A i \in Completed' : \E q \in Proc :
          Io(q)' /\ chain'[q] = i /\ info'[i].done /\ busy'[buf'[q]]
    BY <1>3, <1>4, ZenonT(40) DEF Quiet, RequestInv
  <2>4. Completed' # {} => irq' \/ handler'
    BY <1>3, <1>4 DEF RequestInv
  <2> QED
    BY <2>1, <2>2, <2>3, <2>4, ZenonT(40) DEF RequestInv
<1> QED
  BY <1>1, <1>2, <1>5, Zenon

\* The types that the buffer cache changes.
LEMMA BufTypes ==
    ASSUME Types, LockInv, CacheInv, UNCHANGED NUM, panic = "none", NEW p \in Proc, BufStep(p)
    PROVE  Types'
<1>1. Quiet
  BY QuietStep
<1>2. /\ NUM' \in Sizes /\ busy' \in [Buf -> BOOLEAN]
      /\ free' \subseteq Desc' /\ next' \in [Desc' -> Desc' \cup {None}]
      /\ info' \in [Desc' -> Request \cup {None}]
      /\ avail' \in Ring' /\ used' \in Ring'
      /\ used_idx' \in 0..(IdxRange' - 1) /\ last_avail' \in 0..(IdxRange' - 1)
      /\ chain' \in [Proc -> Desc' \cup {None}]
  BY <1>1 DEF Types, Quiet, vring, device, intr, Desc, Ring, IdxRange
<1> DEFINE Rest == /\ blockno \in [Buf -> Block \cup {None}] /\ valid \in [Buf -> BOOLEAN]
                   /\ refcnt \in [Buf -> Nat] /\ pinned \subseteq Buf
                   /\ slock \in [Buf -> Proc \cup {None}]
                   /\ at \in [Proc -> Points] /\ buf \in [Proc -> Buf \cup {None}]
                   /\ asleep \subseteq Proc
                   /\ panic \in {"none", "bget"}
<1>3. /\ Rest /\ (at[p] # "idle" => buf[p] \in Buf)
      /\ \A b \in Buf : refcnt[b] = Cardinality(Users(b)) + (IF b \in pinned THEN 1 ELSE 0)
      /\ \A b : Cardinality(Users(b)) \in Nat
  BY UsersCounted DEF Types, LockInv, CacheInv
<1> SUFFICES Rest'
  BY <1>2 DEF Types
<1> USE DEF Goto, bcache, Points
<1>4. ASSUME NEW n \in Block, bget_panic(p, n)
      PROVE  Rest'
  BY <1>3, <1>4 DEF bget_panic
<1>5. ASSUME NEW n \in Block, NEW b \in Buf, bget_hit(p, n, b)
      PROVE  Rest'
  BY <1>3, <1>5 DEF bget_hit
<1>6. ASSUME NEW n \in Block, NEW b \in Buf, bget_recycle(p, n, b)
      PROVE  Rest'
  BY <1>3, <1>6, ZenonT(40) DEF bget_recycle, Recycled
<1>7. CASE bread(p) \/ bwrite(p) \/ releasesleep(p) \/ rw_sleep(p)
  BY <1>3, <1>7 DEF bread, bwrite, releasesleep, rw_sleep
<1>8. CASE log_write(p)
  BY <1>3, <1>8 DEF log_write, bpin
<1>9. CASE bunpin(p)
  BY <1>3, <1>9 DEF bunpin
<1>10. CASE brelse(p)
  <2>1. buf[p] \in Buf /\ buf' = [buf EXCEPT ![p] = None]
    BY <1>3, <1>10 DEF brelse
  <2>2. Cardinality(Users(buf[p])) >= 1
    BY <2>1, UserRemoved, ZenonT(40)
  <2>3. refcnt[buf[p]] \in Nat /\ refcnt[buf[p]] >= 1
    BY <1>3, <2>1, <2>2
  <2> QED
    BY <1>3, <1>10, <2>1, <2>3 DEF brelse
<1> HIDE DEF Rest
<1> QED
  BY <1>4, <1>5, <1>6, <1>7, <1>8, <1>9, <1>10, Zenon DEF BufStep

\* Only the process that holds the lock gives it up.
LEMMA BufLocks ==
    ASSUME Types, LockInv, NEW p \in Proc, BufStep(p)
    PROVE  LockInv'
<1>1. /\ at \in [Proc -> Points] /\ buf \in [Proc -> Buf \cup {None}]
      /\ slock \in [Buf -> Proc \cup {None}] /\ None \notin Buf /\ None \notin Proc
  BY DiskAssumption DEF Types
<1> USE DEF Goto, LockInv, Owning, bcache
<1>2. ASSUME NEW n \in Block, bget_panic(p, n)
      PROVE  LockInv'
  BY <1>2, ZenonT(40) DEF bget_panic
<1>3. ASSUME NEW n \in Block, NEW b \in Buf, bget_hit(p, n, b)
      PROVE  LockInv'
  BY <1>1, <1>3 DEF bget_hit
<1>4. ASSUME NEW n \in Block, NEW b \in Buf, bget_recycle(p, n, b)
      PROVE  LockInv'
  <2>1. /\ at[p] = "idle" /\ at' = [at EXCEPT ![p] = "bget"]
        /\ buf' = [buf EXCEPT ![p] = b] /\ slock' = slock
    BY <1>4, Zenon DEF bget_recycle
  <2> QED
    BY <1>1, <2>1
<1>5. CASE bread(p)
  BY <1>1, <1>5 DEF bread
<1>6. CASE bwrite(p)
  BY <1>1, <1>6 DEF bwrite
<1>7. CASE log_write(p)
  BY <1>1, <1>7 DEF log_write
<1>8. CASE bunpin(p)
  BY <1>1, <1>8 DEF bunpin
<1>9. CASE releasesleep(p)
  BY <1>1, <1>9 DEF releasesleep
<1>10. CASE brelse(p)
  BY <1>1, <1>10 DEF brelse
<1>11. CASE rw_sleep(p)
  BY <1>11, ZenonT(40) DEF rw_sleep
<1> QED
  BY <1>2, <1>3, <1>4, <1>5, <1>6, <1>7, <1>8, <1>9, <1>10, <1>11, ZenonT(40) DEF BufStep

\* bget, the log and brelse keep the counts.
LEMMA BufCounts ==
    ASSUME Types, LockInv, CacheInv, NEW p \in Proc, BufStep(p)
    PROVE  CacheInv'
<1>1. /\ blockno \in [Buf -> Block \cup {None}] /\ refcnt \in [Buf -> Nat]
      /\ buf \in [Proc -> Buf \cup {None}] /\ pinned \subseteq Buf
      /\ None \notin Buf /\ None \notin Block /\ None \notin Proc
      /\ (at[p] = "idle" <=> buf[p] = None)
      /\ \A b : Cardinality(Users(b)) \in Nat
  BY DiskAssumption, UsersCounted, ZenonT(40) DEF Types, LockInv
<1>2. ASSUME UNCHANGED <<blockno, refcnt, pinned, buf>>
      PROVE  CacheInv'
  BY <1>2, ZenonT(40) DEF CacheInv, OneBufPerBlock, Users
<1>3. ASSUME NEW n \in Block, NEW b \in Buf, bget_hit(p, n, b)
      PROVE  CacheInv'
  <2>1. /\ buf' = [buf EXCEPT ![p] = b] /\ buf[p] = None /\ blockno[b] = n
        /\ refcnt' = [refcnt EXCEPT ![b] = @ + 1] /\ UNCHANGED <<blockno, pinned>>
    BY <1>1, <1>3, ZenonT(40) DEF bget_hit, Cached
  <2>2. \A c \in Buf : Cardinality(Users(c)')
                         = Cardinality(Users(c)) + (IF c = b THEN 1 ELSE 0)
    BY <2>1, UserAdded, ZenonT(40)
  <2> QED
    BY <1>1, <2>1, <2>2 DEF CacheInv, OneBufPerBlock
<1>4. ASSUME NEW n \in Block, NEW b \in Buf, bget_recycle(p, n, b)
      PROVE  CacheInv'
  <2>1. /\ buf' = [buf EXCEPT ![p] = b] /\ buf[p] = None /\ blockno' = [blockno EXCEPT ![b] = n]
        /\ refcnt' = [refcnt EXCEPT ![b] = 1] /\ UNCHANGED pinned
        /\ refcnt[b] = 0 /\ \A c \in Buf : blockno[c] # n
    BY <1>1, <1>4 DEF bget_recycle, Cached, Recyclable, Unused
  <2>2. \A c \in Buf : Cardinality(Users(c)')
                         = Cardinality(Users(c)) + (IF c = b THEN 1 ELSE 0)
    BY <2>1, UserAdded, ZenonT(40)
  <2>3. b \notin pinned /\ \A q \in Proc : buf[q] # b
    BY <2>1, Unreferenced
  <2>4. OneBufPerBlock'
    BY <1>1, <2>1 DEF CacheInv, OneBufPerBlock
  <2>5. \A c \in Buf : refcnt'[c] = Cardinality(Users(c)') + (IF c \in pinned' THEN 1 ELSE 0)
    BY <1>1, <2>1, <2>2, <2>3 DEF CacheInv
  <2>6. \A q \in Proc : buf'[q] # None => blockno'[buf'[q]] # None
    BY <1>1, <2>1, <2>3 DEF CacheInv
  <2>7. \A c \in pinned' : blockno'[c] # None
    BY <1>1, <2>1, <2>3, Zenon DEF CacheInv
  <2> QED
    BY <2>4, <2>5, <2>6, <2>7, ZenonT(40) DEF CacheInv
<1>5. CASE log_write(p) \/ bunpin(p)
  <2>1. /\ at[p] # "idle" /\ UNCHANGED <<buf, blockno>>
        /\ \/ /\ buf[p] \notin pinned /\ pinned' = pinned \cup {buf[p]}
              /\ refcnt' = [refcnt EXCEPT ![buf[p]] = @ + 1]
           \/ /\ pinned' = pinned \ {buf[p]}
              /\ refcnt' = [refcnt EXCEPT ![buf[p]] = IF buf[p] \in pinned THEN @ - 1 ELSE @]
    BY <1>5, ZenonT(40) DEF log_write, bunpin, bpin
  <2>2. buf[p] \in Buf /\ blockno[buf[p]] # None
    BY <1>1, <2>1 DEF CacheInv
  <2>3. \A c \in Buf : Users(c)' = Users(c)
    BY <2>1 DEF Users
  <2>4. \A c \in Buf : refcnt'[c] = Cardinality(Users(c)') + (IF c \in pinned' THEN 1 ELSE 0)
    BY <1>1, <2>1, <2>2, <2>3 DEF CacheInv
  <2> QED
    BY <2>1, <2>2, <2>4 DEF CacheInv, OneBufPerBlock
<1>6. CASE brelse(p)
  <2>1. /\ buf[p] \in Buf /\ buf' = [buf EXCEPT ![p] = None]
        /\ refcnt' = [refcnt EXCEPT ![buf[p]] = @ - 1] /\ UNCHANGED <<blockno, pinned>>
    BY <1>1, <1>6, ZenonT(40) DEF brelse
  <2>2. \A c \in Buf : Cardinality(Users(c)')
                         = Cardinality(Users(c)) - (IF c = buf[p] THEN 1 ELSE 0)
    BY <2>1, UserRemoved, ZenonT(40)
  <2> QED
    BY <1>1, <2>1, <2>2 DEF CacheInv, OneBufPerBlock
<1> QED
  BY <1>2, <1>3, <1>4, <1>5, <1>6, ZenonT(40)
     DEF BufStep, bget_panic, bread, bwrite, releasesleep, rw_sleep, bcache

\* A locked buffer has one owner, and no other buffer has its block.
LEMMA Alone ==
    ASSUME Types, LockInv, CacheInv, NEW p \in Proc, at[p] \in Owning
    PROVE  /\ buf[p] \in Buf /\ blockno[buf[p]] \in Block
           /\ \A q \in Proc : at[q] \in Owning /\ q # p => buf[q] # buf[p]
           /\ \A b \in Buf : b # buf[p] => blockno[b] # blockno[buf[p]]
<1>1. buf[p] \in Buf
  BY DEF Types, LockInv, Owning
<1>2. blockno[buf[p]] \in Block
  BY <1>1, DiskAssumption, ZenonT(40) DEF Types, CacheInv
<1>3. ASSUME NEW q \in Proc, at[q] \in Owning, q # p
      PROVE  buf[q] # buf[p]
  BY <1>3 DEF LockInv
<1>4. None \notin Block
  BY DiskAssumption
<1> QED
  BY <1>1, <1>2, <1>3, <1>4, Zenon DEF CacheInv, OneBufPerBlock

\* A step of p that changes neither a buffer nor a block, nor a read or write
\* that is under way.
Moves(p) ==
    /\ \A q \in Proc \ {p} : at'[q] = at[q] /\ buf'[q] = buf[q]
    /\ at[p] \in {"rw", "io"} => at'[p] = at[p] /\ buf'[p] = buf[p]
    /\ at'[p] = "held" => valid[buf'[p]]
    /\ at'[p] = "bwritten" => at[p] = "bwritten" /\ buf'[p] = buf[p]

\* The data keeps its invariant when the buffers and the queue stay as they are.
LEMMA DataSame ==
    ASSUME DataInv, Quiet, NEW p \in Proc, Moves(p),
           UNCHANGED <<blockno, valid, fresh, synced, pinned>>
    PROVE  DataInv'
<1>1. UNCHANGED <<info, chain>>
  BY Zenon DEF Quiet, vring
<1>2. ValidInv'
  BY DEF DataInv, ValidInv, Moves
<1>3. SyncInv'
  <2> SUFFICES ASSUME NEW n \in Block, n \notin synced
               PROVE  \E b \in Buf :
                         /\ blockno[b] = n /\ valid[b]
                         /\ b \in pinned \/ \E q \in Proc : buf'[q] = b /\ at'[q] \in {"rw", "io"}
    BY DEF SyncInv
  <2>1. PICK b \in Buf : /\ blockno[b] = n /\ valid[b]
                         /\ b \in pinned \/ \E q \in Proc : buf[q] = b /\ at[q] \in {"rw", "io"}
    BY DEF DataInv, SyncInv
  <2> QED
    BY <2>1 DEF Moves
<1>4. DoneInv'
  <2>1. ASSUME NEW q \in Proc, Io(q)', info'[chain'[q]].done
        PROVE  IF valid'[buf'[q]] THEN blockno'[buf'[q]] \in synced' ELSE buf'[q] \in fresh'
    <3>1. Io(q) /\ buf'[q] = buf[q] /\ info[chain[q]].done
      BY <1>1, <2>1, Zenon DEF Quiet
    <3>2. IF valid[buf[q]] THEN blockno[buf[q]] \in synced ELSE buf[q] \in fresh
      BY <3>1, Zenon DEF DataInv, DoneInv
    <3> QED
      BY <3>1, <3>2, Zenon
  <2>2. ASSUME NEW q \in Proc, at'[q] = "bwritten" PROVE blockno'[buf'[q]] \in synced'
    <3>1. at[q] = "bwritten" /\ buf'[q] = buf[q]
      BY <2>2, Zenon DEF Moves
    <3> QED
      BY <3>1, Zenon DEF DataInv, DoneInv
  <2> QED
    BY <2>1, <2>2, Zenon DEF DoneInv
<1> QED
  BY <1>2, <1>3, <1>4 DEF DataInv

\* bget recycles only a buffer whose block is on the disk.
LEMMA RecycleData ==
    ASSUME Types, LockInv, CacheInv, DataInv, Quiet, NEW p \in Proc, NEW n \in Block,
           NEW b \in Buf, bget_recycle(p, n, b)
    PROVE  DataInv'
<1>1. /\ at[p] = "idle" /\ at' = [at EXCEPT ![p] = "bget"] /\ buf' = [buf EXCEPT ![p] = b]
      /\ blockno' = [blockno EXCEPT ![b] = n] /\ valid' = [valid EXCEPT ![b] = FALSE]
      /\ fresh' = fresh \ {b} /\ UNCHANGED <<synced, pinned, info, chain>>
      /\ refcnt[b] = 0 /\ \A c \in Buf : blockno[c] # n
  BY DEF bget_recycle, Goto, Recycled, Cached, Recyclable, Unused, vring
<1>2. b \notin pinned /\ \A q \in Proc : buf[q] # b
  BY <1>1, Unreferenced
<1>3. /\ at \in [Proc -> Points] /\ buf \in [Proc -> Buf \cup {None}] /\ pinned \subseteq Buf
      /\ blockno \in [Buf -> Block \cup {None}] /\ valid \in [Buf -> BOOLEAN]
      /\ None \notin Block
      /\ \A q \in Proc : at[q] # "idle" => buf[q] \in Buf
  <2>1. /\ at \in [Proc -> Points] /\ buf \in [Proc -> Buf \cup {None}] /\ pinned \subseteq Buf
        /\ blockno \in [Buf -> Block \cup {None}] /\ valid \in [Buf -> BOOLEAN]
    BY Zenon DEF Types
  <2>2. None \notin Block
    BY DiskAssumption
  <2>3. \A q \in Proc : at[q] # "idle" => buf[q] # None
    BY Zenon DEF LockInv
  <2>4. \A q \in Proc : at[q] # "idle" => buf[q] \in Buf
    BY <2>1, <2>3
  <2> QED
    BY <2>1, <2>2, <2>4, Zenon
<1>4. ValidInv'
  BY <1>1, <1>2, <1>3, Zenon DEF DataInv, ValidInv
<1>5. ASSUME NEW k \in Block, k \notin synced'
      PROVE  \E c \in Buf :
                /\ blockno'[c] = k /\ valid'[c]
                /\ c \in pinned' \/ \E q \in Proc : buf'[q] = c /\ at'[q] \in {"rw", "io"}
  <2>0. k \notin synced /\ pinned' = pinned
    BY <1>1, <1>5, Zenon
  <2>1. PICK c \in Buf : /\ blockno[c] = k /\ valid[c]
                         /\ c \in pinned \/ \E q \in Proc : buf[q] = c /\ at[q] \in {"rw", "io"}
    BY <2>0 DEF DataInv, SyncInv
  <2>2. c # b
    BY <1>2, <2>1
  <2>3. blockno'[c] = k /\ valid'[c]
    BY <1>1, <1>3, <2>1, <2>2
  <2>4. \A q \in Proc : at[q] \in {"rw", "io"} => buf'[q] = buf[q] /\ at'[q] = at[q]
    BY <1>1, <1>3
  <2> QED
    BY <2>0, <2>1, <2>3, <2>4, ZenonT(40)
<1>6. DoneInv'
  BY <1>1, <1>2, <1>3, ZenonT(40) DEF DataInv, DoneInv, Io
<1>7. SyncInv'
  BY <1>5, Zenon DEF SyncInv
<1> QED
  BY <1>4, <1>6, <1>7, Zenon DEF DataInv

\* A holder changes its buffer, and is going to write it or has it pinned.
LEMMA ChangeData ==
    ASSUME Types, LockInv, CacheInv, DataInv, Quiet, NEW p \in Proc, at[p] = "held",
           Change(buf[p]), UNCHANGED <<blockno, valid, buf>>,
           NEW l \in {"rw", "brelse"}, at' = [at EXCEPT ![p] = l],
           pinned' \in {pinned, pinned \cup {buf[p]}}, l = "brelse" => buf[p] \in pinned'
    PROVE  DataInv'
<1>1. /\ fresh' = fresh \cup {buf[p]} /\ synced' = synced \ {blockno[buf[p]]}
      /\ UNCHANGED <<info, chain>> /\ at \in [Proc -> Points]
  BY Zenon DEF Change, Quiet, vring, Types
<1>2. /\ buf[p] \in Buf /\ blockno[buf[p]] \in Block
      /\ \A q \in Proc : at[q] \in Owning /\ q # p => buf[q] # buf[p] /\ buf[q] \in Buf
      /\ \A b \in Buf : b # buf[p] => blockno[b] # blockno[buf[p]]
  BY Alone DEF Owning
<1>3. valid[buf[p]]
  BY DEF DataInv, ValidInv
<1>4. ValidInv'
  BY <1>1, <1>2, <1>3, ZenonT(40) DEF DataInv, ValidInv
<1>5. ASSUME NEW k \in Block, k \notin synced'
      PROVE  \E c \in Buf :
                /\ blockno'[c] = k /\ valid'[c]
                /\ c \in pinned' \/ \E q \in Proc : buf'[q] = c /\ at'[q] \in {"rw", "io"}
  <2>1. CASE k = blockno[buf[p]]
    BY <1>1, <1>2, <1>3, <2>1, ZenonT(40)
  <2>2. CASE k # blockno[buf[p]]
    <3>1. PICK c \in Buf : /\ blockno[c] = k /\ valid[c]
                           /\ c \in pinned \/ \E q \in Proc : buf[q] = c /\ at[q] \in {"rw", "io"}
      BY <1>1, <1>5, <2>2, ZenonT(40) DEF DataInv, SyncInv
    <3>2. \A q \in Proc : at[q] \in {"rw", "io"} => at'[q] = at[q]
      BY <1>1
    <3> QED
      BY <3>1, <3>2, ZenonT(40)
  <2> QED
    BY <2>1, <2>2
<1>6. DoneInv'
  <2>1. \A q \in Proc : at'[q] \in {"io", "bwritten"} => at[q] = at'[q] /\ q # p
    BY <1>1
  <2>2. \A q \in Proc : at'[q] \in {"io", "bwritten"} =>
            buf[q] # buf[p] /\ blockno[buf[q]] # blockno[buf[p]]
    BY <1>2, <2>1, ZenonT(40) DEF Owning
  <2> QED
    BY <1>1, <2>1, <2>2, ZenonT(40) DEF DataInv, DoneInv, Io
<1> QED
  BY <1>4, <1>5, <1>6, ZenonT(40) DEF DataInv, SyncInv

\* The buffer cache keeps the data.
LEMMA BufData ==
    ASSUME Types, LockInv, CacheInv, DataInv, Quiet, NEW p \in Proc, BufStep(p)
    PROVE  DataInv'
<1>1. at \in [Proc -> Points] /\ buf \in [Proc -> Buf \cup {None}]
  BY DEF Types
<1> USE DEF Goto, Moves, bcache
<1>2. ASSUME NEW n \in Block, bget_panic(p, n)
      PROVE  DataInv'
  BY <1>2, DataSame, ZenonT(40) DEF bget_panic, DataInv, ValidInv
<1>3. ASSUME NEW n \in Block, NEW b \in Buf, bget_hit(p, n, b)
      PROVE  DataInv'
  BY <1>1, <1>3, DataSame, Zenon DEF bget_hit
<1>4. ASSUME NEW n \in Block, NEW b \in Buf, bget_recycle(p, n, b)
      PROVE  DataInv'
  BY <1>4, RecycleData
<1>5. CASE bread(p)
  BY <1>1, <1>5, DataSame, Zenon DEF bread
<1>6. CASE bwrite(p)
  BY <1>6, ChangeData, ZenonT(40) DEF bwrite
<1>7. CASE log_write(p)
  BY <1>7, ChangeData, Zenon DEF log_write
<1>8. CASE bunpin(p)
  <2>1. /\ at[p] = "bwritten" /\ at' = [at EXCEPT ![p] = "brelse"] /\ pinned' = pinned \ {buf[p]}
        /\ UNCHANGED <<blockno, valid, fresh, synced, buf, info, chain>>
    BY <1>8 DEF bunpin, vring
  <2>2. ValidInv' /\ DoneInv'
    BY <1>1, <2>1, ZenonT(40) DEF DataInv, ValidInv, DoneInv, Io
  <2>3. ASSUME NEW k \in Block, k \notin synced'
        PROVE  \E c \in Buf :
                  /\ blockno'[c] = k /\ valid'[c]
                  /\ c \in pinned' \/ \E q \in Proc : buf'[q] = c /\ at'[q] \in {"rw", "io"}
    <3>0. k \notin synced /\ UNCHANGED <<blockno, valid, synced, buf>>
      BY <2>1, <2>3, Zenon
    <3>1. PICK c \in Buf : /\ blockno[c] = k /\ valid[c]
                           /\ c \in pinned \/ \E q \in Proc : buf[q] = c /\ at[q] \in {"rw", "io"}
      BY <3>0 DEF DataInv, SyncInv
    <3>2. c # buf[p]
      BY <2>1, <3>0, <3>1, Zenon DEF DataInv, DoneInv
    <3>3. \A q \in Proc : at[q] \in {"rw", "io"} => at'[q] = at[q]
      BY <1>1, <2>1
    <3> QED
      BY <2>1, <3>0, <3>1, <3>2, <3>3
  <2>4. SyncInv'
    BY <2>3, Zenon DEF SyncInv
  <2> QED
    BY <2>2, <2>4, Zenon DEF DataInv
<1>9. CASE releasesleep(p)
  BY <1>1, <1>9, DataSame, Zenon DEF releasesleep
<1>10. CASE brelse(p)
  BY <1>1, <1>10, DataSame, ZenonT(40) DEF brelse
<1>11. CASE rw_sleep(p)
  BY <1>11, DataSame, Zenon DEF rw_sleep, DataInv, ValidInv
<1> QED
  BY <1>2, <1>3, <1>4, <1>5, <1>6, <1>7, <1>8, <1>9, <1>10, <1>11, ZenonT(40) DEF BufStep

-----------------------------------------------------------------------------
(* The rings and the descriptors.                                           *)

\* All descriptors but two.
LEMMA AllButTwo ==
    ASSUME NEW n \in Nat, n >= 3, NEW i \in 0..(n - 1), NEW j \in 0..(n - 1), i # j
    PROVE  /\ IsFiniteSet((0..(n - 1)) \ {i, j})
           /\ Cardinality((0..(n - 1)) \ {i, j}) = n - 2
<1> DEFINE D == 0..(n - 1)
<1>1. IsFiniteSet(D) /\ Cardinality(D) = n
  <2>1. 0 \in Int /\ n - 1 \in Int
    OBVIOUS
  <2>2. /\ IsFiniteSet(0..(n - 1))
        /\ Cardinality(0..(n - 1)) = IF 0 > n - 1 THEN 0 ELSE (n - 1) - 0 + 1
    BY <2>1, FS_Interval, Zenon
  <2> QED
    BY <2>2
<1>2. i \in D /\ j \in D \ {i} /\ D \ {i, j} = (D \ {i}) \ {j}
  OBVIOUS
<1> HIDE DEF D
<1>3. IsFiniteSet(D \ {i}) /\ Cardinality(D \ {i}) = n - 1
  BY <1>1, <1>2, FS_RemoveElement
<1> DEFINE E == D \ {i}
<1>4. IsFiniteSet(E) /\ Cardinality(E) = n - 1 /\ j \in E
  BY <1>2, <1>3
<1> HIDE DEF E
<1>5. IsFiniteSet(E \ {j}) /\ Cardinality(E \ {j}) = (n - 1) - 1
  BY <1>4, FS_RemoveElement, Zenon
<1> QED
  BY <1>2, <1>5 DEF E, D

\* A ring of a driver whose requests have two descriptors and more has a slot
\* left for a new one.
LEMMA RingRoom ==
    ASSUME NUM \in Sizes, NEW x \in Ring, NEW from \in 0..(IdxRange - 1), RingOK(x, from),
           NEW id \in Desc, NEW j \in Desc, j # id, Entries(x.ring) \subseteq Desc \ {id, j}
    PROVE  /\ x.idx % NUM \in Desc /\ x.ring[x.idx % NUM] = None
           /\ Inc(x.idx) \in 0..(IdxRange - 1)
           /\ Dist(IdxRange, from, Inc(x.idx)) < NUM
           /\ \A s \in Desc : s \in Window(NUM, IdxRange, from, Inc(x.idx))
                                <=> s = x.idx % NUM \/ x.ring[s] # None
<1> DEFINE n == NUM
           m == IdxRange
           e == x.idx
           w == Window(n, m, from, e)
           d == Dist(m, from, e)
           S == Desc \ {id, j}
<1>1. /\ n \in Nat \ {0} /\ n >= 3 /\ m \in Nat \ {0} /\ m % n = 0 /\ m >= n
      /\ e \in 0..(m - 1) /\ from \in 0..(m - 1)
      /\ Desc = 0..(n - 1)
  BY Geometry DEF Ring, Desc
<1>2. /\ d < n /\ \A s \in Desc : x.ring[s] # None <=> s \in w
      /\ \A s, t \in Desc : x.ring[s] = x.ring[t] /\ s # t => x.ring[s] = None
  BY DEF RingOK
<1>3. \A s \in Desc : x.ring[s] # None => x.ring[s] \in S
  BY Zenon DEF Entries
<1>4. w = {(from + k) % n : k \in 0..(d - 1)}
  BY DEF Window
<1>5. IsFiniteSet(S) /\ Cardinality(S) = n - 2
  <2>1. /\ S = (0..(n - 1)) \ {id, j} /\ id \in 0..(n - 1) /\ j \in 0..(n - 1) /\ id # j
        /\ n \in Nat /\ n >= 3
    BY <1>1
  <2> HIDE DEF S, n
  <2> QED
    BY <2>1, AllButTwo
<1>6. Inc(x.idx) = (e + 1) % m
  BY DEF Inc
<1> HIDE DEF n, m, e, w, S
<1>7. d \in Nat
  <2>1. Dist(m, from, e) \in 0..(m - 1)
    BY <1>1, DistCases, Zenon
  <2> QED
    BY <1>1, <2>1
<1>8. w \subseteq Desc
  <2> SUFFICES ASSUME NEW k \in 0..(d - 1)
               PROVE  (from + k) % n \in Desc
    BY <1>4
  <2>1. from + k \in Int
    BY <1>1, <1>7
  <2> QED
    BY <1>1, <2>1, DivMod, Zenon
<1>9. d <= n - 2
  <2>1. \A s \in w : x.ring[s] \in S
    BY <1>2, <1>3, <1>8, Zenon
  <2>2. \A s, t \in w : s # t => x.ring[s] # x.ring[t]
    BY <1>2, <1>8, Zenon
  <2>3. d <= Cardinality(S)
    BY <1>1, <1>2, <1>5, <2>1, <2>2, WindowFits, Zenon DEF w
  <2> QED
    BY <1>5, <2>3
<1>10. d < m - 1 /\ d < n
  BY <1>1, <1>2, <1>7, <1>9
<1>11. Window(n, m, from, (e + 1) % m) = w \cup {e % n} /\ e % n \notin w /\ e % n \in 0..(n - 1)
  BY <1>1, <1>10, WindowMoved DEF w
<1>12. Dist(m, from, (e + 1) % m) = d + 1
  BY <1>1, <1>10, DistMoved
<1>13. (e + 1) % m \in 0..(m - 1)
  BY <1>1, Moved
<1>14. d + 1 < n
  BY <1>1, <1>7, <1>9
<1>15. e % n \in Desc /\ x.ring[e % n] = None
  BY <1>1, <1>2, <1>11, ZenonT(40)
<1>16. \A s \in Desc : s \in Window(n, m, from, (e + 1) % m) <=> s = e % n \/ x.ring[s] # None
  BY <1>2, <1>11
<1> HIDE DEF d
<1> QED
  BY <1>6, <1>12, <1>13, <1>14, <1>15, <1>16, Zenon DEF n, m, e

\* A request that no entry has yet, and whose second descriptor no entry can
\* have, is put into a ring.
LEMMA RingAdds ==
    ASSUME NUM \in Sizes, NEW x \in Ring, NEW from \in 0..(IdxRange - 1), RingOK(x, from),
           NEW id \in Desc, NEW j \in Desc, j # id, Entries(x.ring) \subseteq Desc \ {id, j},
           NEW y, y = [idx |-> Inc(x.idx), ring |-> [x.ring EXCEPT ![x.idx % NUM] = id]]
    PROVE  y \in Ring /\ RingOK(y, from) /\ Entries(y.ring) = Entries(x.ring) \cup {id}
<1> DEFINE s0 == x.idx % NUM
           e1 == Inc(x.idx)
<1>1. /\ s0 \in Desc /\ x.ring[s0] = None
      /\ e1 \in 0..(IdxRange - 1)
      /\ Dist(IdxRange, from, e1) < NUM
      /\ \A s \in Desc : s \in Window(NUM, IdxRange, from, e1) <=> s = s0 \/ x.ring[s] # None
  BY RingRoom, ZenonT(40)
<1>2. x.ring \in [Desc -> Desc \cup {None}] /\ None \notin Desc
  BY Geometry, DiskAssumption DEF Ring, Desc
<1>3. /\ y.idx = e1 /\ y.ring = [x.ring EXCEPT ![s0] = id]
      /\ y = [idx |-> y.idx, ring |-> y.ring]
  OBVIOUS
<1> HIDE DEF s0, e1
<1>4. y \in Ring
  <2>1. y.idx \in 0..(IdxRange - 1) /\ y.ring \in [Desc -> Desc \cup {None}]
    BY <1>1, <1>2, <1>3, ZenonT(40)
  <2> QED
    BY <1>3, <2>1 DEF Ring
<1>5. \A s \in Desc : y.ring[s] = IF s = s0 THEN id ELSE x.ring[s]
  BY <1>1, <1>2, <1>3, ZenonT(40)
<1>6. Entries(y.ring) = Entries(x.ring) \cup {id}
  <2>1. ASSUME NEW v \in Entries(y.ring)
        PROVE  v \in Entries(x.ring) \cup {id}
    BY <1>5, <2>1, Zenon DEF Entries
  <2>2. ASSUME NEW v \in Entries(x.ring)
        PROVE  v \in Entries(y.ring)
    BY <1>1, <1>5, <2>2, Zenon DEF Entries
  <2>3. id \in Entries(y.ring)
    BY <1>1, <1>2, <1>5, Zenon DEF Entries
  <2> QED
    BY <2>1, <2>2, <2>3, ZenonT(40)
<1>7. RingOK(y, from)
  <2>1. \A s \in Desc : y.ring[s] # None <=> s \in Window(NUM, IdxRange, from, e1)
    BY <1>1, <1>2, <1>5
  <2>2. \A s \in Desc : x.ring[s] # id
    BY <1>2, ZenonT(40) DEF Entries
  <2>3. \A s, t \in Desc : x.ring[s] = x.ring[t] /\ s # t => x.ring[s] = None
    BY ZenonT(40) DEF RingOK
  <2>4. ASSUME NEW s \in Desc, NEW t \in Desc, y.ring[s] = y.ring[t], s # t
        PROVE  y.ring[s] = None
    <3>1. y.ring[s0] = id /\ \A u \in Desc : u # s0 => y.ring[u] = x.ring[u]
      BY <1>1, <1>5, ZenonT(40)
    <3>2. s # s0 /\ t # s0
      BY <2>2, <2>4, <3>1, ZenonT(40)
    <3> QED
      BY <2>3, <2>4, <3>1, <3>2, ZenonT(40)
  <2> QED
    BY <1>1, <1>3, <2>1, <2>4, Zenon DEF RingOK
<1> QED
  BY <1>4, <1>6, <1>7

\* A ring that was looked at is empty.
LEMMA RingCleared ==
    ASSUME NUM \in Sizes, NEW x \in Ring, NEW y, y = [x EXCEPT !.ring = EmptyRing.ring]
    PROVE  y \in Ring /\ y.idx = x.idx /\ RingOK(y, x.idx) /\ Entries(y.ring) = {}
<1>1. /\ NUM \in Nat \ {0} /\ IdxRange \in Nat \ {0} /\ x.idx \in 0..(IdxRange - 1)
      /\ x = [idx |-> x.idx, ring |-> x.ring]
  BY Geometry DEF Ring
<1>2. y = [idx |-> x.idx, ring |-> [i \in Desc |-> None]]
  BY <1>1 DEF EmptyRing
<1>3. y.idx = x.idx /\ y.ring = [i \in Desc |-> None] /\ y \in Ring
  BY <1>1, <1>2 DEF Ring
<1>4. Entries(y.ring) = {}
  BY <1>3 DEF Entries
<1>5. Dist(IdxRange, x.idx, x.idx) = 0 /\ Window(NUM, IdxRange, x.idx, x.idx) = {}
  BY <1>1, WindowEmpty
<1>6. RingOK(y, x.idx)
  BY <1>1, <1>3, <1>5 DEF RingOK
<1> QED
  BY <1>3, <1>4, <1>6

\* What is looked at is what was put in.
LEMMA RingSeen ==
    ASSUME NUM \in Sizes, NEW x \in Ring, NEW from \in 0..(IdxRange - 1), RingOK(x, from)
    PROVE  {x.ring[(from + k) % NUM] : k \in 0..(((x.idx - from) % IdxRange) - 1)}
             = Entries(x.ring)
<1> DEFINE d == (x.idx - from) % IdxRange
<1>1. NUM \in Nat \ {0} /\ IdxRange \in Nat \ {0} /\ x.idx \in 0..(IdxRange - 1) /\ from \in Nat
  BY Geometry DEF Ring
<1>2. d \in Nat /\ Dist(IdxRange, from, x.idx) = d
  <2>1. x.idx - from \in Int
    BY <1>1
  <2> QED
    BY <1>1, <2>1, DivMod DEF Dist
<1>3. \A s \in Desc : x.ring[s] # None <=> \E k \in 0..(d - 1) : s = (from + k) % NUM
  BY <1>2 DEF RingOK, Window
<1> HIDE DEF d
<1>4. \A k \in 0..(d - 1) : (from + k) % NUM \in Desc
  <2> SUFFICES ASSUME NEW k \in 0..(d - 1)
               PROVE  (from + k) % NUM \in Desc
    OBVIOUS
  <2>1. from + k \in Int
    BY <1>1, <1>2
  <2> QED
    BY <1>1, <2>1, DivMod DEF Desc
<1>5. {x.ring[(from + k) % NUM] : k \in 0..(d - 1)} = Entries(x.ring)
  BY <1>3, <1>4 DEF Entries
<1> QED
  BY <1>5 DEF d

\* The three descriptors of a request.
LEMMA ChainSet ==
    ASSUME NEW i, next[i] \in Desc, next[next[i]] \in Desc, NUM \in Sizes
    PROVE  Chain(i) = {i, next[i], next[next[i]]}
<1>1. None \notin Desc
  BY Geometry, DiskAssumption DEF Desc
<1> QED
  BY <1>1 DEF Chain

-----------------------------------------------------------------------------
(* virtio_disk_rw submits a request.                                        *)

Submits(p, i, j, k) ==
    /\ at[p] = "rw" /\ {i, j, k} \subseteq free /\ i # j /\ i # k /\ j # k
    /\ free' = free \ {i, j, k}
    /\ next' = [next EXCEPT ![i] = j, ![j] = k, ![k] = None]
    /\ info' = [info EXCEPT ![i] = [b |-> buf[p], sector |-> blockno[buf[p]],
                                    write |-> valid[buf[p]], done |-> FALSE]]
    /\ avail' = Publish(i) /\ chain' = [chain EXCEPT ![p] = i]
    /\ busy' = [busy EXCEPT ![buf[p]] = TRUE]
    /\ asleep' = asleep \cup {p} /\ at' = [at EXCEPT ![p] = "io"]
    /\ UNCHANGED <<NUM, lru, blockno, refcnt, pinned, valid, fresh, synced, slock, used,
                   last_avail, active, irq, used_idx, handler, buf, panic>>

\* virtio_disk_rw takes three descriptors and publishes the first of them.
LEMMA SubmitEffect ==
    ASSUME Types, NEW p \in Proc, virtio_disk_rw(p), UNCHANGED NUM
    PROVE  \E i, j, k \in Desc : Submits(p, i, j, k)
<1>1. PICK i \in free, j \in free, k \in free :
        /\ alloc3_desc(i, j, k)
        /\ free' = free \ {i, j, k}
        /\ next' = [next EXCEPT ![i] = j, ![j] = k, ![k] = None]
        /\ info' = [info EXCEPT ![i] = [b |-> buf[p], sector |-> blockno[buf[p]],
                                        write |-> Out(buf[p]), done |-> FALSE]]
        /\ avail' = Publish(i)
        /\ chain' = [chain EXCEPT ![p] = i]
  BY Zenon DEF virtio_disk_rw
<1>2. i \in Desc /\ j \in Desc /\ k \in Desc /\ i # j /\ i # k /\ j # k
  <2>1. i \in Desc /\ j \in Desc /\ k \in Desc
    BY DEF Types
  <2>2. i \in Int /\ j \in Int /\ k \in Int /\ i < j /\ j < k
    <3>1. NUM \in Sizes
      BY Zenon DEF Types
    <3>2. i \in Int /\ j \in Int /\ k \in Int
      BY <2>1, <3>1, Geometry DEF Desc
    <3>3. i < j /\ j < k
      BY <1>1, Zenon DEF alloc3_desc
    <3> QED
      BY <3>2, <3>3, Zenon
  <2> QED
    BY <2>1, <2>2
<1>3. Submits(p, i, j, k)
  BY <1>1, <1>2, ZenonT(40) DEF virtio_disk_rw, Submits, Out, Goto, bcache, device, intr
<1> QED
  BY <1>2, <1>3

\* What the descriptors of the others are.
LEMMA ChainParts ==
    ASSUME Types, ChainInv, NEW q \in Proc, Io(q)
    PROVE  /\ chain[q] \in Desc /\ next[chain[q]] \in Desc /\ next[next[chain[q]]] \in Desc
           /\ Chain(chain[q]) = {chain[q], next[chain[q]], next[next[chain[q]]]}
           /\ chain[q] # next[chain[q]]
           /\ chain[q] \notin free /\ next[chain[q]] \notin free
           /\ next[next[chain[q]]] \notin free
<1>1. /\ chain[q] \in Desc /\ next[chain[q]] \in Desc /\ next[next[chain[q]]] \in Desc
      /\ chain[q] # next[chain[q]] /\ Chain(chain[q]) \cap free = {} /\ NUM \in Sizes
  BY DEF ChainInv, Types
<1>2. Chain(chain[q]) = {chain[q], next[chain[q]], next[next[chain[q]]]}
  BY <1>1, ChainSet
<1> QED
  BY <1>1, <1>2, ZenonT(40)

\* The chain virtio_disk_rw builds shares no descriptor with another chain.
LEMMA SubmitChain ==
    ASSUME Types, ChainInv, NEW p \in Proc, NEW i \in Desc, NEW j \in Desc, NEW k \in Desc,
           Submits(p, i, j, k)
    PROVE  ChainInv' /\ \A q \in Proc : Io(q)' /\ q # p => Io(q) /\ chain'[q] = chain[q]
<1>1. /\ at \in [Proc -> Points] /\ chain \in [Proc -> Desc \cup {None}]
      /\ next \in [Desc -> Desc \cup {None}] /\ free' = free \ {i, j, k} /\ Desc' = Desc
      /\ {i, j, k} \subseteq free /\ i # j /\ i # k /\ j # k /\ NUM' \in Sizes
      /\ next' = [next EXCEPT ![i] = j, ![j] = k, ![k] = None]
      /\ chain' = [chain EXCEPT ![p] = i] /\ at' = [at EXCEPT ![p] = "io"]
  BY Zenon DEF Submits, Types, Desc
<1>2. \A q \in Proc : Io(q)' /\ q # p => Io(q) /\ chain'[q] = chain[q]
  BY <1>1 DEF Io
<1>3. ASSUME NEW q \in Proc, Io(q)', q # p
      PROVE  /\ next'[chain[q]] = next[chain[q]]
             /\ next'[next[chain[q]]] = next[next[chain[q]]]
             /\ chain[q] \in Desc /\ next[chain[q]] \in Desc /\ next[next[chain[q]]] \in Desc
             /\ Chain(chain[q]) = {chain[q], next[chain[q]], next[next[chain[q]]]}
             /\ chain[q] # next[chain[q]] /\ Chain(chain[q]) \cap free = {}
  <2>1. Io(q)
    BY <1>2, <1>3, Zenon
  <2>2. /\ chain[q] \in Desc /\ next[chain[q]] \in Desc /\ next[next[chain[q]]] \in Desc
        /\ Chain(chain[q]) = {chain[q], next[chain[q]], next[next[chain[q]]]}
        /\ chain[q] # next[chain[q]]
        /\ chain[q] \notin free /\ next[chain[q]] \notin free
        /\ next[next[chain[q]]] \notin free
    BY <2>1, ChainParts, Zenon
  <2>3. \A x \in Desc \ free : next'[x] = next[x]
    BY <1>1
  <2>4. Chain(chain[q]) \cap free = {}
    BY <2>2, Zenon
  <2> QED
    BY <2>2, <2>3, <2>4, Zenon
<1>4. ASSUME NEW q \in Proc, Io(q)', q # p
      PROVE  (Chain(chain[q]))' = Chain(chain[q])
  <2>1. None \notin Desc
    BY Geometry, DiskAssumption DEF Desc, Types
  <2>2. chain'[q] = chain[q]
    BY <1>2, <1>4, Zenon
  <2>3. next'[chain[q]] \in Desc /\ next'[next'[chain[q]]] \in Desc
    BY <1>3, <1>4, Zenon
  <2>4. (Chain(chain[q]))' = {chain[q], next'[chain[q]], next'[next'[chain[q]]]}
    BY <2>1, <2>2, <2>3, Zenon DEF Chain
  <2> QED
    BY <1>3, <1>4, <2>4, ZenonT(40)
<1>5. /\ chain'[p] = i /\ next'[i] = j /\ next'[j] = k
      /\ (Chain(chain[p]))' = {i, j, k}
  <2>1. None \notin Desc
    BY Geometry, DiskAssumption DEF Desc, Types
  <2>2. chain'[p] = i /\ next'[i] = j /\ next'[j] = k
    BY <1>1, Zenon
  <2> QED
    BY <2>1, <2>2, Zenon DEF Chain
<1>6. ASSUME NEW q \in Proc, Io(q)'
      PROVE  /\ chain'[q] \in Desc'
             /\ next'[chain'[q]] \in Desc' /\ next'[next'[chain'[q]]] \in Desc'
             /\ next'[chain'[q]] # chain'[q]
             /\ (Chain(chain[q]))' \cap free' = {}
  <2>1. CASE q = p
    BY <1>1, <1>5, <2>1, Zenon
  <2>2. CASE q # p
    <3>1. chain'[q] = chain[q]
      BY <1>2, <1>6, <2>2, ZenonT(40)
    <3>2. (Chain(chain[q]))' \cap free' = {}
      BY <1>1, <1>3, <1>4, <1>6, <2>2
    <3> QED
      BY <1>1, <1>3, <1>6, <2>2, <3>1, <3>2
  <2> QED
    BY <2>1, <2>2, Zenon
<1>7. ASSUME NEW q \in Proc, NEW q2 \in Proc, Io(q)', Io(q2)', q # q2
      PROVE  (Chain(chain[q]))' \cap (Chain(chain[q2]))' = {}
  <2>1. CASE q = p
    <3>1. (Chain(chain[q2]))' \cap free = {}
      BY <1>3, <1>4, <1>7, <2>1, ZenonT(40)
    <3>2. {i, j, k} \subseteq free
      BY <1>1, Zenon
    <3> QED
      BY <1>5, <2>1, <3>1, <3>2, ZenonT(40)
  <2>2. CASE q2 = p
    <3>1. (Chain(chain[q]))' \cap free = {}
      BY <1>3, <1>4, <1>7, <2>2, ZenonT(40)
    <3>2. {i, j, k} \subseteq free
      BY <1>1, Zenon
    <3> QED
      BY <1>5, <2>2, <3>1, <3>2, ZenonT(40)
  <2>3. CASE q # p /\ q2 # p
    BY <1>2, <1>4, <1>7, <2>3, ZenonT(40) DEF ChainInv
  <2> QED
    BY <2>1, <2>2, <2>3, Zenon
<1> QED
  BY <1>2, <1>6, <1>7, ZenonT(40) DEF ChainInv

\* The entries of the rings are requests, and never a second descriptor.
LEMMA EntriesLive ==
    ASSUME Types, ChainInv, RequestInv
    PROVE  /\ \A e \in Waiting \cup Completed : \E q \in Proc : Io(q) /\ chain[q] = e
           /\ Entries(avail.ring) \subseteq Desc \ free /\ Completed \subseteq Desc \ free
           /\ Waiting \subseteq Desc
<1>1. \A e \in Waiting \cup Completed : \E q \in Proc : Io(q) /\ chain[q] = e
  BY Zenon DEF RequestInv
<1>2. \A e \in Waiting \cup Completed : e \in Desc \ free
  BY <1>1, ChainParts
<1> QED
  BY <1>1, <1>2, Zenon DEF Waiting, Completed

\* virtio_disk_rw puts the head of its chain in the next slot of the avail ring,
\* which is free.
LEMMA SubmitRing ==
    ASSUME Types, ChainInv, RingInv, RequestInv, NEW p \in Proc,
           NEW i \in Desc, NEW j \in Desc, NEW k \in Desc, Submits(p, i, j, k)
    PROVE  /\ RingInv' /\ avail' \in Ring'
           /\ Waiting' = Waiting \cup {i} /\ Completed' = Completed
<1>1. /\ NUM \in Sizes /\ avail \in Ring /\ last_avail \in 0..(IdxRange - 1)
      /\ avail' = Publish(i) /\ {i, j} \subseteq free /\ j # i
      /\ UNCHANGED <<NUM, used, used_idx, last_avail, active>>
  BY Zenon DEF Types, Submits
<1>2. Entries(avail.ring) \subseteq Desc \ {i, j}
  BY <1>1, EntriesLive, Zenon
<1> DEFINE y == avail'
<1>3. y = [idx |-> Inc(avail.idx), ring |-> [avail.ring EXCEPT ![avail.idx % NUM] = i]]
  BY <1>1, Zenon DEF Publish
<1> HIDE DEF y
<1>4. y \in Ring /\ RingOK(y, last_avail) /\ Entries(y.ring) = Entries(avail.ring) \cup {i}
  BY <1>1, <1>2, <1>3, RingAdds, Zenon DEF RingInv
<1>5. RingInv' /\ avail' \in Ring'
  BY <1>1, <1>4 DEF y, RingInv, RingOK, Ring, Desc, IdxRange
<1>6. Waiting' = Waiting \cup {i} /\ Completed' = Completed
  BY <1>1, <1>4, ZenonT(40) DEF y, Waiting, Completed, Entries, Desc
<1> QED
  BY <1>5, <1>6

\* The new request waits for the device.
LEMMA SubmitRequests ==
    ASSUME Types, LockInv, CacheInv, ChainInv, RingInv, RequestInv, NEW p \in Proc,
           NEW i \in Desc, NEW j \in Desc, NEW k \in Desc, Submits(p, i, j, k)
    PROVE  RequestInv'
<1>1. /\ info' = [info EXCEPT ![i] = [b |-> buf[p], sector |-> blockno[buf[p]],
                                      write |-> valid[buf[p]], done |-> FALSE]]
      /\ busy' = [busy EXCEPT ![buf[p]] = TRUE] /\ asleep' = asleep \cup {p}
      /\ chain' = [chain EXCEPT ![p] = i] /\ i \in free
      /\ UNCHANGED <<blockno, valid, buf, irq, handler>>
      /\ at[p] = "rw" /\ at' = [at EXCEPT ![p] = "io"]
  BY Zenon DEF Submits
<1>2. /\ info \in [Desc -> Request \cup {None}] /\ busy \in [Buf -> BOOLEAN]
      /\ at \in [Proc -> Points] /\ chain \in [Proc -> Desc \cup {None}]
      /\ valid \in [Buf -> BOOLEAN]
  BY DEF Types
<1>3. Waiting' = Waiting \cup {i} /\ Completed' = Completed
  BY SubmitRing
<1>4. /\ buf[p] \in Buf /\ blockno[buf[p]] \in Block
      /\ \A q \in Proc : at[q] \in Owning /\ q # p => buf[q] # buf[p] /\ buf[q] \in Buf
  BY <1>1, Alone, ZenonT(40) DEF Owning
<1>5. ASSUME NEW q \in Proc, Io(q)', q # p
      PROVE  /\ Io(q) /\ chain'[q] = chain[q] /\ chain[q] # i /\ chain[q] \in Desc
             /\ info'[chain[q]] = info[chain[q]] /\ busy'[buf[q]] = busy[buf[q]]
             /\ (q \in asleep' <=> q \in asleep)
  <2>1. Io(q) /\ chain'[q] = chain[q]
    BY <1>1, <1>2, <1>5, ZenonT(40) DEF Io
  <2>2. chain[q] \in Desc /\ chain[q] \notin free
    BY <2>1, ChainParts, ZenonT(40)
  <2>3. buf[q] # buf[p] /\ buf[q] \in Buf
    BY <1>4, <1>5, <2>1, ZenonT(40) DEF Io, Owning
  <2> QED
    BY <1>1, <1>2, <1>5, <2>1, <2>2, <2>3, ZenonT(40)
<1>6. /\ Io(p)' /\ ~Io(p) /\ chain'[p] = i /\ busy'[buf[p]] = TRUE /\ p \in asleep'
      /\ info'[i] = [b |-> buf[p], sector |-> blockno[buf[p]],
                     write |-> valid[buf[p]], done |-> FALSE]
  BY <1>1, <1>2, <1>4, ZenonT(40) DEF Io
<1>7. /\ info'[i] \in Request
      /\ info'[i].b = buf[p] /\ info'[i].sector = blockno[buf[p]]
      /\ info'[i].write = valid[buf[p]] /\ ~info'[i].done
  <2>1. valid[buf[p]] \in BOOLEAN
    BY <1>2, <1>4, Zenon
  <2>2. /\ buf[p] \in Buf /\ blockno[buf[p]] \in Block
        /\ info'[i] = [b |-> buf[p], sector |-> blockno[buf[p]],
                       write |-> valid[buf[p]], done |-> FALSE]
    BY <1>4, <1>6, Zenon
  <2> QED
    BY <2>1, <2>2, RequestMade
<1>8. ASSUME NEW q \in Proc, Io(q)'
      PROVE  /\ info'[chain'[q]] \in Request
             /\ info'[chain'[q]].b = buf'[q] /\ info'[chain'[q]].sector = blockno'[buf'[q]]
             /\ info'[chain'[q]].write = valid'[buf'[q]]
             /\ q \in asleep' <=> busy'[buf'[q]]
             /\ ~info'[chain'[q]].done => busy'[buf'[q]] /\ chain'[q] \in Waiting'
             /\ info'[chain'[q]].done /\ busy'[buf'[q]] => chain'[q] \in Completed'
  <2>1. CASE q = p
    <3>1. UNCHANGED <<blockno, valid, buf>> /\ i \in Waiting'
      BY <1>1, <1>3, ZenonT(40)
    <3>2. chain'[p] = i /\ busy'[buf[p]] = TRUE /\ p \in asleep'
      BY <1>6, ZenonT(40)
    <3> QED
      BY <1>7, <2>1, <3>1, <3>2, Zenon
  <2>2. CASE q # p
    <3>1. /\ Io(q) /\ chain'[q] = chain[q]
          /\ info'[chain[q]] = info[chain[q]] /\ busy'[buf[q]] = busy[buf[q]]
          /\ (q \in asleep' <=> q \in asleep) /\ buf'[q] = buf[q]
          /\ UNCHANGED <<blockno, valid>>
      BY <1>1, <1>5, <1>8, <2>2, Zenon
    <3> QED
      BY <1>3, <3>1, RequestSame, ZenonT(40)
  <2> QED
    BY <2>1, <2>2, Zenon
<1>9. ASSUME NEW e \in Waiting'
      PROVE  \E q \in Proc : Io(q)' /\ chain'[q] = e /\ ~info'[e].done
  <2>1. CASE e = i
    BY <1>6, <2>1
  <2>2. CASE e # i
    <3>1. PICK q \in Proc : Io(q) /\ chain[q] = e /\ ~info[e].done
      BY <1>3, <1>9, <2>2 DEF RequestInv
    <3>2. q # p /\ Io(q)'
      BY <1>1, <1>2, <1>6, <3>1, Zenon DEF Io
    <3> QED
      BY <1>5, <3>1, <3>2, ZenonT(40)
  <2> QED
    BY <2>1, <2>2, ZenonT(40)
<1>10. ASSUME NEW e \in Completed'
       PROVE  \E q \in Proc : Io(q)' /\ chain'[q] = e /\ info'[e].done /\ busy'[buf'[q]]
  <2>1. PICK q \in Proc : Io(q) /\ chain[q] = e /\ info[e].done /\ busy[buf[q]]
    BY <1>3, <1>10, ZenonT(40) DEF RequestInv
  <2>2. q # p /\ Io(q)'
    BY <1>1, <1>2, <1>6, <2>1, ZenonT(40) DEF Io
  <2>3. /\ chain'[q] = chain[q] /\ info'[chain[q]] = info[chain[q]]
        /\ busy'[buf[q]] = busy[buf[q]] /\ buf'[q] = buf[q]
    BY <1>1, <1>5, <2>2, ZenonT(40)
  <2> QED
    BY <2>1, <2>2, <2>3, Zenon
<1>11. Completed' # {} => irq' \/ handler'
  BY <1>1, <1>3, Zenon DEF RequestInv
<1> QED
  BY <1>8, <1>9, <1>10, <1>11, Zenon DEF RequestInv

\* Nothing is read or written yet.
LEMMA SubmitRest ==
    ASSUME Types, LockInv, CacheInv, ChainInv, DataInv, NEW p \in Proc,
           NEW i \in Desc, NEW j \in Desc, NEW k \in Desc, Submits(p, i, j, k), avail' \in Ring'
    PROVE  Types' /\ LockInv' /\ CacheInv' /\ DataInv'
<1>1. /\ at[p] = "rw" /\ at' = [at EXCEPT ![p] = "io"] /\ chain' = [chain EXCEPT ![p] = i]
      /\ info' = [info EXCEPT ![i] = [b |-> buf[p], sector |-> blockno[buf[p]],
                                      write |-> valid[buf[p]], done |-> FALSE]]
      /\ UNCHANGED <<NUM, blockno, refcnt, pinned, valid, fresh, synced, slock, buf, panic>>
      /\ i \in free
  BY Zenon DEF Submits
<1>2. /\ at \in [Proc -> Points] /\ chain \in [Proc -> Desc \cup {None}]
      /\ info \in [Desc -> Request \cup {None}] /\ valid \in [Buf -> BOOLEAN]
  BY DEF Types
<1>3. buf[p] \in Buf /\ blockno[buf[p]] \in Block
  BY <1>1, Alone, ZenonT(40) DEF Owning
<1>4. Types'
  <2>1. [b |-> buf[p], sector |-> blockno[buf[p]], write |-> valid[buf[p]], done |-> FALSE]
          \in Request
    BY <1>2, <1>3, ZenonT(40) DEF Request
  <2>2. Desc' = Desc /\ Ring' = Ring /\ IdxRange' = IdxRange
    BY <1>1 DEF Desc, Ring, IdxRange
  <2>3. info' \in [Desc -> Request \cup {None}]
    BY <1>1, <1>2, <2>1, ZenonT(40)
  <2>4. /\ free' \subseteq Desc /\ next' \in [Desc -> Desc \cup {None}]
        /\ busy' \in [Buf -> BOOLEAN] /\ asleep' \subseteq Proc
    BY ZenonT(40) DEF Types, Submits
  <2>5. chain' \in [Proc -> Desc \cup {None}] /\ at' \in [Proc -> Points]
    BY <1>1, <1>2, ZenonT(40) DEF Points
  <2>6. UNCHANGED <<used, used_idx, last_avail>>
    BY ZenonT(40) DEF Submits
  <2> QED
    BY <1>1, <2>2, <2>3, <2>4, <2>5, <2>6, ZenonT(40) DEF Types
<1>5. LockInv'
  <2>1. at[p] \in Owning /\ "io" \in Owning /\ slock \in [Buf -> Proc \cup {None}]
    BY <1>1, Zenon DEF Owning, Types
  <2> QED
    BY <1>1, <1>2, <2>1, LockMoves, ZenonT(40)
<1>6. CacheInv'
  BY <1>1, CacheSame, ZenonT(40)
<1>7. ValidInv'
  BY <1>1, <1>2, ZenonT(40) DEF DataInv, ValidInv
<1>8. SyncInv'
  <2>1. \A q \in Proc : at[q] \in {"rw", "io"} => at'[q] \in {"rw", "io"}
    BY <1>1, <1>2, Zenon
  <2>2. ASSUME NEW n \in Block, n \notin synced'
        PROVE  \E c \in Buf :
                  /\ blockno'[c] = n /\ valid'[c]
                  /\ c \in pinned' \/ \E q \in Proc : buf'[q] = c /\ at'[q] \in {"rw", "io"}
    <3>1. PICK c \in Buf : /\ blockno[c] = n /\ valid[c]
                           /\ c \in pinned \/ \E q \in Proc : buf[q] = c /\ at[q] \in {"rw", "io"}
      BY <1>1, <2>2, ZenonT(40) DEF DataInv, SyncInv
    <3> QED
      BY <1>1, <2>1, <3>1, ZenonT(40)
  <2> QED
    BY <2>2, ZenonT(40) DEF SyncInv
<1>9. DoneInv'
  <2>1. ASSUME NEW q \in Proc, Io(q)', info'[chain'[q]].done
        PROVE  IF valid[buf[q]] THEN blockno[buf[q]] \in synced ELSE buf[q] \in fresh
    <3>1. q # p
      BY <1>1, <1>2, <2>1, ZenonT(40)
    <3>2. Io(q) /\ chain'[q] = chain[q]
      BY <1>1, <1>2, <2>1, <3>1, ZenonT(40) DEF Io
    <3>3. chain[q] \in Desc /\ chain[q] # i
      BY <1>1, <3>2, ChainParts, ZenonT(40)
    <3> QED
      BY <1>1, <1>2, <2>1, <3>2, <3>3, ZenonT(40) DEF DataInv, DoneInv
  <2>2. \A q \in Proc : at'[q] = "bwritten" => blockno[buf[q]] \in synced
    BY <1>1, <1>2, Zenon DEF DataInv, DoneInv
  <2> QED
    BY <1>1, <2>1, <2>2, ZenonT(40) DEF DoneInv
<1> QED
  BY <1>4, <1>5, <1>6, <1>7, <1>8, <1>9, Zenon DEF DataInv

\* virtio_disk_rw keeps the invariant.
LEMMA SubmitStep ==
    ASSUME DInv, NEW p \in Proc, virtio_disk_rw(p), UNCHANGED NUM
    PROVE  DInv'
<1>1. PICK i \in Desc, j \in Desc, k \in Desc : Submits(p, i, j, k)
  BY SubmitEffect DEF DInv
<1>2. ChainInv'
  BY <1>1, SubmitChain, Zenon DEF DInv
<1>3. RingInv' /\ avail' \in Ring'
  BY <1>1, SubmitRing DEF DInv
<1>4. RequestInv'
  BY <1>1, SubmitRequests DEF DInv
<1>5. Types' /\ LockInv' /\ CacheInv' /\ DataInv'
  BY <1>1, <1>3, SubmitRest DEF DInv
<1> QED
  BY <1>2, <1>3, <1>4, <1>5 DEF DInv

-----------------------------------------------------------------------------
(* virtio_disk_rw returns.                                                  *)

Returns(p) ==
    /\ at[p] = "io" /\ ~busy[buf[p]]
    /\ info' = [info EXCEPT ![chain[p]] = None]
    /\ free' = free \cup Chain(chain[p])
    /\ next' = [i \in Desc |-> IF i \in Chain(chain[p]) THEN None ELSE next[i]]
    /\ chain' = [chain EXCEPT ![p] = None]
    /\ \A q \in Proc : at[q] # "rw" => (q \in asleep' <=> q \in asleep)
    /\ asleep' \subseteq asleep
    /\ valid' = [valid EXCEPT ![buf[p]] = TRUE]
    /\ at' = [at EXCEPT ![p] = IF valid[buf[p]] THEN "bwritten" ELSE "held"]
    /\ UNCHANGED <<NUM, blockno, refcnt, pinned, fresh, synced, slock, avail, busy, used,
                   last_avail, active, irq, used_idx, handler, buf, panic>>

\* free_desc finds no free descriptor in the chain.
LEMMA ReturnEffect ==
    ASSUME Types, ChainInv, NEW p \in Proc, rw_done(p), UNCHANGED NUM
    PROVE  Returns(p)
<1>1. free \cap Chain(chain[p]) = {}
  BY ZenonT(40) DEF rw_done, ChainInv, Io
<1>2. panic' = panic
  BY <1>1 DEF rw_done
<1> QED
  BY <1>2, ZenonT(40) DEF rw_done, Returns, Goto, WaitingDesc, bcache, device, intr

\* The other requests.
LEMMA ReturnOthers ==
    ASSUME Types, LockInv, CacheInv, ChainInv, NEW p \in Proc, Returns(p), NEW q \in Proc, Io(q)'
    PROVE  /\ q # p /\ Io(q) /\ chain'[q] = chain[q] /\ chain[q] \in Desc
           /\ info'[chain[q]] = info[chain[q]] /\ chain[q] # chain[p]
           /\ Chain(chain[p]) \cap Chain(chain[q]) = {}
           /\ buf[q] \in Buf /\ buf[q] # buf[p] /\ valid'[buf[q]] = valid[buf[q]]
           /\ (q \in asleep' <=> q \in asleep)
<1>1. /\ at \in [Proc -> Points] /\ chain \in [Proc -> Desc \cup {None}]
      /\ info \in [Desc -> Request \cup {None}] /\ valid \in [Buf -> BOOLEAN]
  BY DEF Types
<1>2. q # p
  BY <1>1, ZenonT(40) DEF Returns, Io
<1>3. Io(q) /\ Io(p) /\ chain'[q] = chain[q]
  BY <1>1, <1>2, ZenonT(40) DEF Returns, Io
<1>4. Chain(chain[p]) \cap Chain(chain[q]) = {}
  BY <1>2, <1>3, Zenon DEF ChainInv
<1>5. chain[q] \in Desc /\ chain[q] # chain[p]
  <2>1. chain[q] \in Chain(chain[q]) /\ chain[p] \in Chain(chain[p])
    BY DEF Chain
  <2> QED
    BY <1>3, <1>4, <2>1, ZenonT(40) DEF ChainInv
<1>6. buf[q] \in Buf /\ buf[q] # buf[p]
  BY <1>2, <1>3, Alone, ZenonT(40) DEF Io, Owning
<1>7. info'[chain[q]] = info[chain[q]] /\ valid'[buf[q]] = valid[buf[q]]
  BY <1>1, <1>5, <1>6, ZenonT(40) DEF Returns
<1>8. q \in asleep' <=> q \in asleep
  BY <1>3, ZenonT(40) DEF Returns, Io
<1> QED
  BY <1>2, <1>3, <1>4, <1>5, <1>6, <1>7, <1>8, ZenonT(40)

\* free_chain gives back the descriptors of one request and of no other.
LEMMA ReturnChain ==
    ASSUME Types, LockInv, CacheInv, ChainInv, NEW p \in Proc, Returns(p)
    PROVE  ChainInv'
<1>1. /\ Desc' = Desc /\ free' = free \cup Chain(chain[p]) /\ None \notin Desc
      /\ next' = [i \in Desc |-> IF i \in Chain(chain[p]) THEN None ELSE next[i]]
  BY Geometry, DiskAssumption DEF Returns, Desc, Types
<1>2. ASSUME NEW q \in Proc, Io(q)'
      PROVE  /\ chain'[q] \in Desc /\ next'[chain'[q]] \in Desc
             /\ next'[next'[chain'[q]]] \in Desc /\ next'[chain'[q]] # chain'[q]
             /\ (Chain(chain[q]))' = Chain(chain[q])
             /\ (Chain(chain[q]))' \cap free' = {}
  <2>1. Io(q) /\ chain'[q] = chain[q] /\ Chain(chain[p]) \cap Chain(chain[q]) = {}
    BY <1>2, ReturnOthers, Zenon
  <2>2. /\ chain[q] \in Desc /\ next[chain[q]] \in Desc /\ next[next[chain[q]]] \in Desc
        /\ Chain(chain[q]) = {chain[q], next[chain[q]], next[next[chain[q]]]}
        /\ chain[q] # next[chain[q]]
    BY <2>1, ChainParts, ZenonT(40)
  <2>3. next'[chain[q]] = next[chain[q]] /\ next'[next[chain[q]]] = next[next[chain[q]]]
    BY <1>1, <2>1, <2>2, Zenon
  <2>4. (Chain(chain[q]))' = {chain[q], next'[chain[q]], next'[next'[chain[q]]]}
    BY <1>1, <2>1, <2>2, <2>3, ZenonT(40) DEF Chain
  <2>5. (Chain(chain[q]))' = Chain(chain[q])
    BY <2>2, <2>3, <2>4, ZenonT(40)
  <2>6. Chain(chain[q]) \cap free = {}
    BY <2>1, ZenonT(40) DEF ChainInv
  <2>7. (Chain(chain[q]))' \cap free' = {}
    BY <1>1, <2>1, <2>5, <2>6
  <2> QED
    BY <2>1, <2>2, <2>3, <2>5, <2>7, ZenonT(40)
<1>3. ASSUME NEW q \in Proc, NEW q2 \in Proc, Io(q)', Io(q2)', q # q2
      PROVE  (Chain(chain[q]))' \cap (Chain(chain[q2]))' = {}
  <2>1. Io(q) /\ Io(q2)
    BY <1>3, ReturnOthers, ZenonT(40)
  <2> QED
    BY <1>2, <1>3, <2>1, ZenonT(40) DEF ChainInv
<1> QED
  BY <1>1, <1>2, <1>3, ZenonT(40) DEF ChainInv

\* What returns is done, and in no ring.
LEMMA ReturnDone ==
    ASSUME Types, ChainInv, RequestInv, NEW p \in Proc, Returns(p)
    PROVE  info[chain[p]].done /\ chain[p] \notin Waiting \cup Completed
<1>1. Io(p) /\ ~busy[buf[p]]
  BY ZenonT(40) DEF Returns, Io
<1>2. info[chain[p]].done
  BY <1>1, Zenon DEF RequestInv
<1>3. \A q \in Proc : Io(q) /\ chain[q] = chain[p] => q = p
  <2>1. \A q \in Proc : chain[q] \in Chain(chain[q])
    BY ZenonT(40) DEF Chain
  <2> QED
    BY <1>1, <2>1, ZenonT(40) DEF ChainInv
<1>4. chain[p] \notin Waiting
  BY <1>2, <1>3, ZenonT(40) DEF RequestInv
<1>5. chain[p] \notin Completed
  BY <1>1, <1>3 DEF RequestInv
<1> QED
  BY <1>2, <1>4, <1>5, Zenon

\* The other requests are as they were when virtio_disk_rw returns.
LEMMA ReturnRequests ==
    ASSUME Types, LockInv, CacheInv, ChainInv, RequestInv, NEW p \in Proc, Returns(p)
    PROVE  RequestInv'
<1>1. Waiting' = Waiting /\ Completed' = Completed
  BY ZenonT(40) DEF Returns, Waiting, Completed, Entries, Desc
<1>2. UNCHANGED <<busy, buf, blockno, irq, handler>>
  BY ZenonT(40) DEF Returns
<1>3. ASSUME NEW q \in Proc, Io(q)'
      PROVE  /\ info'[chain'[q]] \in Request
             /\ info'[chain'[q]].b = buf'[q] /\ info'[chain'[q]].sector = blockno'[buf'[q]]
             /\ info'[chain'[q]].write = valid'[buf'[q]]
             /\ q \in asleep' <=> busy'[buf'[q]]
             /\ ~info'[chain'[q]].done => busy'[buf'[q]] /\ chain'[q] \in Waiting'
             /\ info'[chain'[q]].done /\ busy'[buf'[q]] => chain'[q] \in Completed'
  <2>1. /\ Io(q) /\ chain'[q] = chain[q] /\ info'[chain[q]] = info[chain[q]]
        /\ valid'[buf[q]] = valid[buf[q]] /\ (q \in asleep' <=> q \in asleep)
    BY <1>3, ReturnOthers, Zenon
  <2> QED
    BY <1>1, <1>2, <2>1, RequestSame, ZenonT(40)
<1>4. \A q \in Proc : Io(q) /\ q # p => Io(q)'
  BY DEF Returns, Io, Types
<1>5. chain[p] \notin Waiting \cup Completed
  BY ReturnDone
<1>6. ASSUME NEW e \in Waiting'
      PROVE  \E q \in Proc : Io(q)' /\ chain'[q] = e /\ ~info'[e].done
  <2>1. PICK q \in Proc : Io(q) /\ chain[q] = e /\ ~info[e].done
    BY <1>1, <1>6, Zenon DEF RequestInv
  <2>2. Io(q)'
    BY <1>1, <1>4, <1>5, <1>6, <2>1, ZenonT(40)
  <2>3. chain'[q] = chain[q] /\ info'[chain[q]] = info[chain[q]]
    BY <2>2, ReturnOthers, Zenon
  <2> QED
    BY <2>1, <2>2, <2>3, ZenonT(40)
<1>7. ASSUME NEW e \in Completed'
      PROVE  \E q \in Proc : Io(q)' /\ chain'[q] = e /\ info'[e].done /\ busy'[buf'[q]]
  <2>1. PICK q \in Proc : Io(q) /\ chain[q] = e /\ info[e].done /\ busy[buf[q]]
    BY <1>1, <1>7, ZenonT(40) DEF RequestInv
  <2>2. Io(q)'
    BY <1>1, <1>4, <1>5, <1>7, <2>1, ZenonT(40)
  <2>3. chain'[q] = chain[q] /\ info'[chain[q]] = info[chain[q]]
    BY <2>2, ReturnOthers
  <2> QED
    BY <1>2, <2>1, <2>2, <2>3, Zenon
<1>8. Completed' # {} => irq' \/ handler'
  BY <1>1, <1>2, Zenon DEF RequestInv
<1> QED
  BY <1>3, <1>6, <1>7, <1>8, ZenonT(40) DEF RequestInv

\* A write is on the disk, and a read has what is there.
LEMMA ReturnRest ==
    ASSUME Types, LockInv, CacheInv, ChainInv, RingInv, RequestInv, DataInv,
           NEW p \in Proc, Returns(p)
    PROVE  Types' /\ LockInv' /\ CacheInv' /\ RingInv' /\ DataInv'
<1>1. /\ at[p] = "io" /\ valid' = [valid EXCEPT ![buf[p]] = TRUE]
      /\ at' = [at EXCEPT ![p] = IF valid[buf[p]] THEN "bwritten" ELSE "held"]
      /\ UNCHANGED <<NUM, blockno, refcnt, pinned, fresh, synced, slock, avail, used,
                     last_avail, used_idx, buf, panic>>
  BY Zenon DEF Returns
<1>2. /\ at \in [Proc -> Points] /\ valid \in [Buf -> BOOLEAN] /\ pinned \subseteq Buf
  BY DEF Types
<1>3. /\ buf[p] \in Buf /\ blockno[buf[p]] \in Block
      /\ \A q \in Proc : at[q] \in Owning /\ q # p => buf[q] # buf[p] /\ buf[q] \in Buf
      /\ \A b \in Buf : b # buf[p] => blockno[b] # blockno[buf[p]]
  BY <1>1, Alone, ZenonT(40) DEF Owning
<1>4. IF valid[buf[p]] THEN blockno[buf[p]] \in synced ELSE buf[p] \in fresh
  BY <1>1, ReturnDone, Zenon DEF DataInv, DoneInv, Io
<1>5. Types'
  <2>1. Desc' = Desc /\ Ring' = Ring /\ IdxRange' = IdxRange
    BY <1>1 DEF Desc, Ring, IdxRange
  <2>2. Chain(chain[p]) \subseteq Desc
    BY <1>1, ChainParts, ZenonT(40) DEF Io
  <2>3. /\ free' \subseteq Desc /\ next' \in [Desc -> Desc \cup {None}]
        /\ info' \in [Desc -> Request \cup {None}]
    BY <2>2, ZenonT(40) DEF Types, Returns
  <2>4. /\ chain' \in [Proc -> Desc \cup {None}] /\ asleep' \subseteq Proc
        /\ at' \in [Proc -> Points] /\ valid' \in [Buf -> BOOLEAN] /\ busy' = busy
    BY Zenon DEF Types, Returns, Points
  <2> QED
    BY <1>1, <2>1, <2>3, <2>4, ZenonT(40) DEF Types
<1>6. LockInv'
  <2>1. PICK l \in Owning : at' = [at EXCEPT ![p] = l]
    BY <1>1, Zenon DEF Owning
  <2>2. at[p] \in Owning /\ slock \in [Buf -> Proc \cup {None}]
    BY <1>1, Zenon DEF Owning, Types
  <2> QED
    BY <1>1, <1>2, <2>1, <2>2, LockMoves, ZenonT(40)
<1>7. CacheInv'
  BY <1>1, CacheSame, ZenonT(40)
<1>8. RingInv'
  BY <1>1, RingSame, ZenonT(40)
<1>9. ValidInv'
  <2>1. valid'[buf[p]] /\ \A b \in Buf : b # buf[p] => valid'[b] = valid[b]
    BY <1>1, <1>2, <1>3, ZenonT(40)
  <2>2. \A q \in Proc : q # p => at'[q] = at[q]
    BY <1>1, <1>2, ZenonT(40)
  <2>3. /\ \A b \in Buf : valid[b] => b \in fresh
        /\ \A b \in pinned : valid[b]
        /\ \A q \in Proc : at[q] \in {"held", "bwritten"} => valid[buf[q]] /\ at[q] \in Owning
    BY ZenonT(40) DEF DataInv, ValidInv, Owning
  <2>4. buf[p] \in fresh
    BY <1>3, <1>4, <2>3, ZenonT(40)
  <2>5. \A b \in Buf : valid'[b] => b \in fresh'
    BY <1>1, <2>1, <2>3, <2>4, ZenonT(40)
  <2>6. \A b \in pinned' : valid'[b]
    BY <1>1, <1>2, <2>1, <2>3, ZenonT(40)
  <2>7. \A q \in Proc : at'[q] \in {"held", "bwritten"} => valid'[buf'[q]]
    BY <1>1, <1>3, <2>1, <2>2, <2>3, ZenonT(40)
  <2> QED
    BY <2>5, <2>6, <2>7, Zenon DEF ValidInv
<1>10. ASSUME NEW n \in Block, n \notin synced'
       PROVE  \E c \in Buf :
                 /\ blockno'[c] = n /\ valid'[c]
                 /\ c \in pinned' \/ \E q \in Proc : buf'[q] = c /\ at'[q] \in {"rw", "io"}
  <2>1. PICK c \in Buf : /\ blockno[c] = n /\ valid[c]
                         /\ c \in pinned \/ \E q \in Proc : buf[q] = c /\ at[q] \in {"rw", "io"}
    BY <1>1, <1>10, ZenonT(40) DEF DataInv, SyncInv
  <2>2. c # buf[p]
    BY <1>1, <1>4, <1>10, <2>1, ZenonT(40)
  <2>3. \A q \in Proc : at[q] \in {"rw", "io"} /\ q # p => at'[q] = at[q]
    BY <1>1, <1>2, ZenonT(40)
  <2>4. valid'[c]
    BY <1>1, <1>2, <2>1, ZenonT(40)
  <2> QED
    BY <1>1, <2>1, <2>2, <2>3, <2>4, ZenonT(40)
<1>11. DoneInv'
  <2>1. ASSUME NEW q \in Proc, Io(q)', info'[chain'[q]].done
        PROVE  IF valid'[buf[q]] THEN blockno[buf[q]] \in synced ELSE buf[q] \in fresh
    <3>1. /\ Io(q) /\ chain'[q] = chain[q] /\ info'[chain[q]] = info[chain[q]]
          /\ valid'[buf[q]] = valid[buf[q]]
      BY <2>1, ReturnOthers, ZenonT(40)
    <3> QED
      BY <2>1, <3>1, ZenonT(40) DEF DataInv, DoneInv
  <2>2. \A q \in Proc : at'[q] = "bwritten" => blockno[buf[q]] \in synced
    BY <1>1, <1>2, <1>4, Zenon DEF DataInv, DoneInv
  <2> QED
    BY <1>1, <2>1, <2>2, Zenon DEF DoneInv
<1>12. SyncInv'
  BY <1>10, ZenonT(40) DEF SyncInv
<1> QED
  BY <1>5, <1>6, <1>7, <1>8, <1>9, <1>11, <1>12, Zenon DEF DataInv

\* The end of virtio_disk_rw keeps the invariant.
LEMMA ReturnStep ==
    ASSUME DInv, NEW p \in Proc, rw_done(p), UNCHANGED NUM
    PROVE  DInv'
<1>1. Returns(p)
  BY ReturnEffect DEF DInv
<1>2. ChainInv' /\ RequestInv'
  BY <1>1, ReturnChain, ReturnRequests, Zenon DEF DInv
<1>3. Types' /\ LockInv' /\ CacheInv' /\ RingInv' /\ DataInv'
  BY <1>1, ReturnRest, Zenon DEF DInv
<1> QED
  BY <1>2, <1>3 DEF DInv

-----------------------------------------------------------------------------
(* The interrupt.                                                           *)

\* The acknowledgement of an interrupt leaves it to the handler to look.
LEMMA AckStep ==
    ASSUME DInv, virtio_disk_intr, UNCHANGED NUM
    PROVE  DInv'
<1>1. /\ handler' = TRUE
      /\ UNCHANGED <<NUM, blockno, refcnt, pinned, valid, fresh, synced, slock, free, next, info,
                     avail, busy, chain, used, last_avail, active, used_idx, at, buf, asleep,
                     panic>>
  BY DEF virtio_disk_intr, bcache, vring
<1>2. Types'
  BY <1>1, TypesSame, ZenonT(40) DEF DInv
<1>3. LockInv' /\ CacheInv' /\ ChainInv' /\ RingInv'
  BY <1>1, LockSame, CacheSame, ChainSame, RingSame, ZenonT(40) DEF DInv
<1>4. RequestInv'
  <2>1. Waiting' = Waiting /\ Completed' = Completed
    BY <1>1, ZenonT(40) DEF Waiting, Completed, Entries, Desc
  <2> QED
    BY <1>1, <2>1, ZenonT(40) DEF DInv, RequestInv, Io
<1>5. DataInv'
  BY <1>1, DataFrame, ZenonT(40) DEF DInv
<1> QED
  BY <1>2, <1>3, <1>4, <1>5, ZenonT(40) DEF DInv

\* The loop of virtio_disk_intr handles the completions that it sees.
Finished(b) == \E id \in Completed : info[id].b = b

Handles ==
    /\ busy' = [b \in Buf |-> busy[b] /\ ~Finished(b)]
    /\ asleep' = asleep \ {q \in Proc : at[q] = "io" /\ Finished(buf[q])}
    /\ used' = [used EXCEPT !.ring = EmptyRing.ring]
    /\ used_idx' = used.idx /\ handler' = FALSE
    /\ UNCHANGED <<NUM, blockno, refcnt, pinned, valid, fresh, synced, slock, free, next, info,
                   avail, chain, last_avail, active, irq, at, buf, panic>>

\* It sees all of them, and never panics: the status of each is set.
LEMMA HandleEffect ==
    ASSUME Types, RingInv, RequestInv, intr_used, UNCHANGED NUM
    PROVE  Handles
<1>1. Unseen = Completed
  <2>1. /\ NUM \in Sizes /\ used \in Ring /\ used_idx \in 0..(IdxRange - 1)
        /\ RingOK(used, used_idx)
    BY DEF Types, RingInv
  <2>2. {used.ring[(used_idx + k) % NUM] : k \in 0..(((used.idx - used_idx) % IdxRange) - 1)}
          = Entries(used.ring)
    BY <2>1, RingSeen, ZenonT(40)
  <2> QED
    BY <2>2, ZenonT(40) DEF Unseen, Completed
<1>2. \A id \in Unseen : ~(id = None \/ info[id] = None \/ ~info[id].done)
  <2> SUFFICES ASSUME NEW id \in Completed
               PROVE  id # None /\ info[id] # None /\ info[id].done
    BY <1>1, ZenonT(40)
  <2>1. PICK p \in Proc : Io(p) /\ chain[p] = id /\ info[id].done
    BY ZenonT(40) DEF RequestInv
  <2>2. info[id] \in Request
    BY <2>1 DEF RequestInv
  <2> QED
    BY <2>1, <2>2, DiskAssumption, ZenonT(40) DEF Completed, Entries
<1>3. /\ busy' = [b \in Buf |-> busy[b] /\ b \notin {info[id].b : id \in Unseen}]
      /\ asleep' = asleep \ {q \in Proc : at[q] = "io" /\ buf[q] \in {info[id].b : id \in Unseen}}
      /\ used' = [used EXCEPT !.ring = EmptyRing.ring]
      /\ used_idx' = used.idx /\ handler' = FALSE /\ UNCHANGED panic
  BY <1>2, ZenonT(40) DEF intr_used
<1>4. \A b : b \in {info[id].b : id \in Unseen} <=> Finished(b)
  BY <1>1 DEF Finished
<1>5. /\ busy' = [b \in Buf |-> busy[b] /\ ~Finished(b)]
      /\ asleep' = asleep \ {q \in Proc : at[q] = "io" /\ Finished(buf[q])}
  BY <1>3, <1>4
<1>6. UNCHANGED <<NUM, blockno, refcnt, pinned, valid, fresh, synced, slock, free, next, info,
                  avail, chain, last_avail, active, irq, at, buf>>
  BY Zenon DEF intr_used, bcache
<1> QED
  BY <1>3, <1>5, <1>6, Zenon DEF Handles

\* The buffer of a request is finished when the request is completed.
LEMMA FinishedOwn ==
    ASSUME Types, LockInv, CacheInv, RequestInv, NEW q \in Proc, Io(q)
    PROVE  buf[q] \in Buf /\ (Finished(buf[q]) <=> chain[q] \in Completed)
<1>1. buf[q] \in Buf /\ \A p \in Proc : at[p] \in Owning /\ p # q => buf[p] # buf[q]
  BY Alone DEF Io, Owning
<1>2. ASSUME Finished(buf[q])
      PROVE  chain[q] \in Completed
  <2>1. PICK id \in Completed : info[id].b = buf[q]
    BY <1>2 DEF Finished
  <2>2. PICK p \in Proc : Io(p) /\ chain[p] = id
    BY ZenonT(40) DEF RequestInv
  <2>3. buf[p] = buf[q]
    BY <2>1, <2>2, ZenonT(40) DEF RequestInv
  <2>4. p = q
    BY <1>1, <2>2, <2>3, Zenon DEF Io, Owning
  <2> QED
    BY <2>2, <2>4, ZenonT(40)
<1>3. ASSUME chain[q] \in Completed
      PROVE  Finished(buf[q])
  <2>1. info[chain[q]].b = buf[q]
    BY Zenon DEF RequestInv
  <2> QED
    BY <1>3, <2>1, Zenon DEF Finished
<1> QED
  BY <1>1, <1>2, <1>3, ZenonT(40)

\* Exactly the processes whose request is completed go on.
LEMMA HandleRequests ==
    ASSUME Types, LockInv, CacheInv, RequestInv, Handles, Completed' = {}, Waiting' = Waiting
    PROVE  RequestInv'
<1>1. /\ UNCHANGED <<info, chain, blockno, valid, buf, at>>
      /\ busy' = [b \in Buf |-> busy[b] /\ ~Finished(b)]
      /\ asleep' = asleep \ {q \in Proc : at[q] = "io" /\ Finished(buf[q])}
  BY ZenonT(40) DEF Handles
<1>2. \A q \in Proc : Io(q)' <=> Io(q)
  BY <1>1 DEF Io
<1>3. ASSUME NEW q \in Proc, Io(q)
      PROVE  /\ busy'[buf[q]] <=> busy[buf[q]] /\ chain[q] \notin Completed
             /\ q \in asleep' <=> q \in asleep /\ chain[q] \notin Completed
  <2>1. buf[q] \in Buf /\ (Finished(buf[q]) <=> chain[q] \in Completed)
    BY <1>3, FinishedOwn
  <2>2. busy'[buf[q]] <=> busy[buf[q]] /\ ~Finished(buf[q])
    BY <1>1, <2>1, Zenon
  <2>3. q \in asleep' <=> q \in asleep /\ ~Finished(buf[q])
    BY <1>1, <1>3, ZenonT(40) DEF Io
  <2> QED
    BY <2>1, <2>2, <2>3, ZenonT(40)
<1>4. \A q \in Proc : Io(q) /\ chain[q] \in Completed => info[chain[q]].done
  BY DEF RequestInv
<1>5. ASSUME NEW q \in Proc, Io(q)'
      PROVE  /\ info'[chain'[q]] \in Request
             /\ info'[chain'[q]].b = buf'[q] /\ info'[chain'[q]].sector = blockno'[buf'[q]]
             /\ info'[chain'[q]].write = valid'[buf'[q]]
             /\ q \in asleep' <=> busy'[buf'[q]]
             /\ ~info'[chain'[q]].done => busy'[buf'[q]] /\ chain'[q] \in Waiting'
             /\ info'[chain'[q]].done /\ busy'[buf'[q]] => chain'[q] \in Completed'
  BY <1>1, <1>2, <1>3, <1>4, <1>5, ZenonT(40) DEF RequestInv
<1>6. \A i \in Waiting' : \E q \in Proc : Io(q)' /\ chain'[q] = i /\ ~info'[i].done
  BY <1>1, <1>2, Zenon DEF RequestInv
<1> QED
  BY <1>5, <1>6, Zenon DEF RequestInv

\* virtio_disk_intr, up to the release of vdisk_lock.
LEMMA HandleStep ==
    ASSUME DInv, intr_used, UNCHANGED NUM
    PROVE  DInv'
<1>1. Handles
  BY HandleEffect DEF DInv
<1>2. /\ UNCHANGED <<NUM, blockno, refcnt, pinned, valid, fresh, synced, slock, free, next, info,
                     avail, chain, last_avail, active, at, buf, panic>>
      /\ used_idx' = used.idx
  BY <1>1 DEF Handles
<1> DEFINE y == used'
<1>3. NUM \in Sizes /\ used \in Ring /\ y = [used EXCEPT !.ring = EmptyRing.ring]
  BY <1>1 DEF Handles, DInv, Types
<1> HIDE DEF y
<1>4. y \in Ring /\ y.idx = used.idx /\ RingOK(y, used.idx) /\ Entries(y.ring) = {}
  BY <1>3, RingCleared, Zenon
<1>5. Desc' = Desc /\ Ring' = Ring /\ IdxRange' = IdxRange
  BY <1>2 DEF Desc, Ring, IdxRange
<1>6. RingInv'
  BY <1>2, <1>4, <1>5, ZenonT(40) DEF y, DInv, RingInv, RingOK
<1>7. Completed' = {} /\ Waiting' = Waiting
  BY <1>2, <1>4, <1>5, Zenon DEF y, Completed, Waiting, Entries
<1>8. RequestInv'
  BY <1>1, <1>7, HandleRequests DEF DInv
<1>9. Types'
  <2>1. busy' \in [Buf -> BOOLEAN] /\ asleep' \subseteq Proc
    BY <1>1 DEF Handles, DInv, Types
  <2>2. used' \in Ring /\ used_idx' \in 0..(IdxRange - 1)
    BY <1>2, <1>3, <1>4 DEF y, Ring
  <2> QED
    BY <1>2, <1>5, <2>1, <2>2, ZenonT(40) DEF DInv, Types
<1>10. LockInv' /\ CacheInv' /\ ChainInv'
  BY <1>2, LockSame, CacheSame, ChainSame, ZenonT(40) DEF DInv
<1>11. DataInv'
  BY <1>2, DataFrame, ZenonT(40) DEF DInv
<1> QED
  BY <1>6, <1>8, <1>9, <1>10, <1>11, ZenonT(40) DEF DInv

-----------------------------------------------------------------------------
(* The device.                                                              *)

\* The device completes the request id of p.
Completes(p, id) ==
    /\ Io(p) /\ chain[p] = id /\ ~info[id].done
    /\ last_avail' = avail.idx /\ avail' = [avail EXCEPT !.ring = EmptyRing.ring]
    /\ active' = Waiting \ {id}
    /\ synced \subseteq synced' /\ fresh \subseteq fresh'
    /\ IF valid[buf[p]] THEN blockno[buf[p]] \in synced' ELSE buf[p] \in fresh'
    /\ info' = [info EXCEPT ![id].done = TRUE]
    /\ used' = [idx |-> Inc(used.idx), ring |-> [used.ring EXCEPT ![used.idx % NUM] = id]]
    /\ irq' = TRUE
    /\ UNCHANGED <<NUM, blockno, refcnt, pinned, valid, slock, free, next, busy, chain, used_idx,
                   handler, at, buf, asleep, panic>>

\* What is written is what the holder last put into the buffer, and what is read
\* is what is on the disk: nobody else has the block in a buffer.
LEMMA DeviceEffect ==
    ASSUME Types, LockInv, CacheInv, RingInv, RequestInv, DataInv, NEW id \in Desc,
           device_done(id), UNCHANGED NUM
    PROVE  \E p \in Proc : Completes(p, id)
<1>1. active \cup Unfetched = Waiting
  <2>1. /\ NUM \in Sizes /\ avail \in Ring /\ last_avail \in 0..(IdxRange - 1)
        /\ RingOK(avail, last_avail)
    BY DEF Types, RingInv
  <2>2. {avail.ring[(last_avail + k) % NUM] :
           k \in 0..(((avail.idx - last_avail) % IdxRange) - 1)} = Entries(avail.ring)
    BY <2>1, RingSeen, ZenonT(40)
  <2>3. Unfetched = Entries(avail.ring) \ {None}
    BY <2>2 DEF Unfetched
  <2> QED
    BY <2>3, ZenonT(40) DEF Waiting, Entries
<1>2. id \in Waiting
  BY <1>1 DEF device_done
<1>3. PICK p \in Proc : Io(p) /\ chain[p] = id /\ ~info[id].done
  BY <1>2, ZenonT(40) DEF RequestInv
<1>4. /\ info[id].b = buf[p] /\ info[id].sector = blockno[buf[p]]
      /\ info[id].write = valid[buf[p]]
  BY <1>3, ZenonT(40) DEF RequestInv
<1>5. /\ buf[p] \in Buf /\ blockno[buf[p]] \in Block
      /\ \A b \in Buf : b # buf[p] => blockno[b] # blockno[buf[p]]
  BY <1>3, Alone, ZenonT(40) DEF Io, Owning
<1>6. /\ synced \subseteq synced' /\ fresh \subseteq fresh'
      /\ IF valid[buf[p]] THEN blockno[buf[p]] \in synced' ELSE buf[p] \in fresh'
  <2>1. CASE valid[buf[p]]
    <3>1. buf[p] \in fresh
      BY <1>5, <2>1, Zenon DEF DataInv, ValidInv
    <3> QED
      BY <1>4, <2>1, <3>1, ZenonT(40) DEF device_done
  <2>2. CASE ~valid[buf[p]]
    <3>1. blockno[buf[p]] \in synced
      BY <1>5, <2>2, ZenonT(40) DEF DataInv, SyncInv
    <3> QED
      BY <1>4, <2>2, <3>1, ZenonT(40) DEF device_done
  <2> QED
    BY <2>1, <2>2, Zenon
<1>7. /\ last_avail' = avail.idx /\ avail' = [avail EXCEPT !.ring = EmptyRing.ring]
      /\ active' = Waiting \ {id}
      /\ info' = [info EXCEPT ![id].done = TRUE]
      /\ used' = [idx |-> Inc(used.idx), ring |-> [used.ring EXCEPT ![used.idx % NUM] = id]]
      /\ irq' = TRUE
      /\ UNCHANGED <<NUM, blockno, refcnt, pinned, valid, slock, free, next, busy, chain,
                     used_idx, handler, at, buf, asleep, panic>>
  BY <1>1 DEF device_done, bcache, intr
<1>8. Completes(p, id)
  BY <1>3, <1>6, <1>7, Zenon DEF Completes
<1> QED
  BY <1>8, Zenon

\* The requests of the others have other descriptors.
LEMMA DeviceOthers ==
    ASSUME Types, ChainInv, NEW p \in Proc, Io(p), NEW q \in Proc, Io(q), q # p
    PROVE  chain[q] # chain[p] /\ chain[q] # next[chain[p]] /\ chain[q] \in Desc
<1>1. Chain(chain[p]) \cap Chain(chain[q]) = {}
  BY Zenon DEF ChainInv
<1>2. /\ Chain(chain[p]) = {chain[p], next[chain[p]], next[next[chain[p]]]}
      /\ Chain(chain[q]) = {chain[q], next[chain[q]], next[next[chain[q]]]}
      /\ chain[q] \in Desc
  BY ChainParts, Zenon
<1> QED
  BY <1>1, <1>2, ZenonT(40)

\* The device empties avail, and finds a slot in used.
LEMMA DeviceRings ==
    ASSUME Types, ChainInv, RingInv, RequestInv, NEW id \in Desc, NEW p \in Proc, Completes(p, id)
    PROVE  /\ RingInv' /\ avail' \in Ring' /\ used' \in Ring' /\ last_avail' \in 0..(IdxRange' - 1)
           /\ Waiting' = Waiting \ {id} /\ Completed' = Completed \cup {id}
<1>1. /\ NUM \in Sizes /\ avail \in Ring /\ used \in Ring /\ used_idx \in 0..(IdxRange - 1)
      /\ Io(p) /\ chain[p] = id /\ ~info[id].done
      /\ active' = Waiting \ {id} /\ last_avail' = avail.idx
      /\ UNCHANGED <<NUM, used_idx>>
  BY DEF Types, Completes
<1>2. Completed \subseteq Desc \ {id, next[id]}
  <2> SUFFICES ASSUME NEW e \in Completed
               PROVE  e \in Desc /\ e # id /\ e # next[id]
    BY ZenonT(40)
  <2>1. PICK q \in Proc : Io(q) /\ chain[q] = e /\ info[e].done
    BY ZenonT(40) DEF RequestInv
  <2>2. q # p
    BY <1>1, <2>1, ZenonT(40)
  <2> QED
    BY <1>1, <2>1, <2>2, DeviceOthers, ZenonT(40)
<1>3. next[id] \in Desc /\ next[id] # id
  BY <1>1, ChainParts, Zenon
<1> DEFINE x == avail'
           y == used'
           j == next[id]
<1>4. x = [avail EXCEPT !.ring = EmptyRing.ring]
  BY DEF Completes
<1>5. y = [idx |-> Inc(used.idx), ring |-> [used.ring EXCEPT ![used.idx % NUM] = id]]
  BY ZenonT(40) DEF Completes
<1>6. j \in Desc /\ j # id /\ Entries(used.ring) \subseteq Desc \ {id, j}
  BY <1>2, <1>3 DEF Completed
<1> HIDE DEF x, y, j
<1>7. x \in Ring /\ x.idx = avail.idx /\ RingOK(x, avail.idx) /\ Entries(x.ring) = {}
  BY <1>1, <1>4, RingCleared, Zenon
<1>8. y \in Ring /\ RingOK(y, used_idx) /\ Entries(y.ring) = Entries(used.ring) \cup {id}
  BY <1>1, <1>5, <1>6, RingAdds, ZenonT(40) DEF RingInv
<1>9. Desc' = Desc /\ Ring' = Ring /\ IdxRange' = IdxRange
  BY <1>1 DEF Desc, Ring, IdxRange
<1>10. RingInv'
  BY <1>1, <1>7, <1>8, <1>9, ZenonT(40) DEF x, y, RingInv, RingOK
<1>11. Waiting' = Waiting \ {id} /\ Completed' = Completed \cup {id}
  BY <1>1, <1>7, <1>8, <1>9, ZenonT(40) DEF x, y, Waiting, Completed, Entries
<1>12. avail' \in Ring' /\ used' \in Ring' /\ last_avail' \in 0..(IdxRange' - 1)
  BY <1>1, <1>7, <1>8, <1>9, Zenon DEF x, y, Ring
<1> QED
  BY <1>10, <1>11, <1>12, ZenonT(40)

\* What the device does to disk.info.
LEMMA DeviceInfo ==
    ASSUME Types, RequestInv, NEW id \in Desc, NEW p \in Proc, Completes(p, id)
    PROVE  /\ info'[id] \in Request /\ info'[id].done
           /\ info'[id].b = info[id].b /\ info'[id].sector = info[id].sector
           /\ info'[id].write = info[id].write
           /\ \A e \in Desc : e # id => info'[e] = info[e]
           /\ info' \in [Desc -> Request \cup {None}]
<1>1. /\ info \in [Desc -> Request \cup {None}]
      /\ info' = [info EXCEPT ![id].done = TRUE] /\ Io(p) /\ chain[p] = id
  BY DEF Types, Completes
<1>2. info[id] \in Request
  BY <1>1 DEF RequestInv
<1>3. info'[id] = [info[id] EXCEPT !.done = TRUE] /\ \A e \in Desc : e # id => info'[e] = info[e]
  BY <1>1
<1>4. /\ info'[id] \in Request /\ info'[id].done
      /\ info'[id].b = info[id].b /\ info'[id].sector = info[id].sector
      /\ info'[id].write = info[id].write
  BY <1>2, <1>3, ZenonT(40) DEF Request
<1>5. info' \in [Desc -> Request \cup {None}]
  BY <1>1, <1>3, <1>4, Zenon
<1> QED
  BY <1>3, <1>4, <1>5, ZenonT(40)

\* The completed request waits for its interrupt.
LEMMA DeviceRequests ==
    ASSUME Types, ChainInv, RingInv, RequestInv, NEW id \in Desc, NEW p \in Proc, Completes(p, id)
    PROVE  RequestInv'
<1>1. /\ Io(p) /\ chain[p] = id /\ ~info[id].done /\ irq' = TRUE
      /\ UNCHANGED <<blockno, valid, busy, chain, at, buf, asleep>>
  BY DEF Completes
<1>2. Waiting' = Waiting \ {id} /\ Completed' = Completed \cup {id}
  BY DeviceRings
<1>3. /\ info'[id] \in Request /\ info'[id].done
      /\ info'[id].b = info[id].b /\ info'[id].sector = info[id].sector
      /\ info'[id].write = info[id].write
      /\ \A e \in Desc : e # id => info'[e] = info[e]
  BY DeviceInfo, ZenonT(40)
<1>4. \A q \in Proc : Io(q)' <=> Io(q)
  BY <1>1, ZenonT(40) DEF Io
<1>5. \A q \in Proc : Io(q) /\ q # p => chain[q] # id /\ info'[chain[q]] = info[chain[q]]
  BY <1>1, <1>3, DeviceOthers, ZenonT(40)
<1>6. ASSUME NEW q \in Proc, Io(q)'
      PROVE  /\ info'[chain'[q]] \in Request
             /\ info'[chain'[q]].b = buf'[q] /\ info'[chain'[q]].sector = blockno'[buf'[q]]
             /\ info'[chain'[q]].write = valid'[buf'[q]]
             /\ q \in asleep' <=> busy'[buf'[q]]
             /\ ~info'[chain'[q]].done => busy'[buf'[q]] /\ chain'[q] \in Waiting'
             /\ info'[chain'[q]].done /\ busy'[buf'[q]] => chain'[q] \in Completed'
  <2>1. CASE q = p
    BY <1>1, <1>2, <1>3, <2>1, ZenonT(40) DEF RequestInv
  <2>2. CASE q # p
    <3>1. /\ Io(q) /\ chain[q] # id /\ info'[chain[q]] = info[chain[q]]
          /\ chain'[q] = chain[q] /\ buf'[q] = buf[q] /\ busy'[buf[q]] = busy[buf[q]]
          /\ (q \in asleep' <=> q \in asleep)
      BY <1>1, <1>4, <1>5, <1>6, <2>2, ZenonT(40)
    <3>2. /\ chain[q] \in Waiting => chain[q] \in Waiting'
          /\ chain[q] \in Completed => chain[q] \in Completed'
      BY <1>2, <3>1, ZenonT(40)
    <3> QED
      BY <1>1, <3>1, <3>2, RequestSame, ZenonT(40)
  <2> QED
    BY <2>1, <2>2, ZenonT(40)
<1>7. ASSUME NEW e \in Waiting'
      PROVE  \E q \in Proc : Io(q)' /\ chain'[q] = e /\ ~info'[e].done
  <2>1. PICK q \in Proc : Io(q) /\ chain[q] = e /\ ~info[e].done
    BY <1>2, <1>7, ZenonT(40) DEF RequestInv
  <2>2. q # p
    BY <1>1, <1>2, <1>7, <2>1, ZenonT(40)
  <2> QED
    BY <1>1, <1>4, <1>5, <2>1, <2>2, Zenon
<1>8. ASSUME NEW e \in Completed'
      PROVE  \E q \in Proc : Io(q)' /\ chain'[q] = e /\ info'[e].done /\ busy'[buf'[q]]
  <2>1. CASE e = id
    <3>1. busy[buf[p]]
      BY <1>1, ZenonT(40) DEF RequestInv
    <3>2. busy'[buf'[p]]
      BY <1>1, <3>1, Zenon
    <3> QED
      BY <1>1, <1>3, <1>4, <2>1, <3>2, Zenon
  <2>2. CASE e # id
    <3>1. PICK q \in Proc : Io(q) /\ chain[q] = e /\ info[e].done /\ busy[buf[q]]
      BY <1>2, <1>8, <2>2, ZenonT(40) DEF RequestInv
    <3>2. q # p
      BY <1>1, <2>2, <3>1, ZenonT(40)
    <3>3. info'[e].done
      BY <1>5, <3>1, <3>2, ZenonT(40)
    <3>4. busy'[buf'[q]]
      BY <1>1, <3>1, Zenon
    <3> QED
      BY <1>1, <1>4, <3>1, <3>3, <3>4, Zenon
  <2> QED
    BY <2>1, <2>2, Zenon
<1> QED
  BY <1>1, <1>6, <1>7, <1>8, Zenon DEF RequestInv

\* One request of the device.
LEMMA DeviceStep ==
    ASSUME DInv, NEW id \in Desc, device_done(id), UNCHANGED NUM
    PROVE  DInv'
<1>1. PICK p \in Proc : Completes(p, id)
  BY DeviceEffect DEF DInv
<1>2. /\ Io(p) /\ chain[p] = id /\ ~info[id].done
      /\ synced \subseteq synced' /\ fresh \subseteq fresh'
      /\ IF valid[buf[p]] THEN blockno[buf[p]] \in synced' ELSE buf[p] \in fresh'
      /\ UNCHANGED <<NUM, blockno, refcnt, pinned, valid, slock, free, next, busy, chain,
                     used_idx, at, buf, asleep, panic>>
  BY <1>1, Zenon DEF Completes
<1>3. RingInv' /\ avail' \in Ring' /\ used' \in Ring' /\ last_avail' \in 0..(IdxRange' - 1)
  BY <1>1, DeviceRings, ZenonT(40) DEF DInv
<1>4. RequestInv'
  BY <1>1, DeviceRequests DEF DInv
<1>5. info' \in [Desc -> Request \cup {None}] /\ \A e \in Desc : e # id => info'[e] = info[e]
  BY <1>1, DeviceInfo, Zenon DEF DInv
<1>6. Types'
  <2>1. Desc' = Desc /\ IdxRange' = IdxRange
    BY <1>2, ZenonT(40) DEF Desc, IdxRange
  <2> QED
    BY <1>2, <1>3, <1>5, <2>1, ZenonT(40) DEF DInv, Types
<1>7. LockInv' /\ CacheInv' /\ ChainInv'
  BY <1>2, LockSame, CacheSame, ChainSame, ZenonT(40) DEF DInv
<1>8. ValidInv' /\ SyncInv'
  BY <1>2, ValidSame, SyncSame, ZenonT(40) DEF DInv, DataInv
<1>9. DoneInv'
  <2>1. ASSUME NEW q \in Proc, Io(q), info'[chain[q]].done
        PROVE  IF valid[buf[q]] THEN blockno[buf[q]] \in synced' ELSE buf[q] \in fresh'
    <3>1. CASE q = p
      BY <1>2, <3>1, ZenonT(40)
    <3>2. CASE q # p
      <4>1. chain[q] # id /\ chain[q] \in Desc
        BY <1>2, <2>1, <3>2, DeviceOthers, ZenonT(40) DEF DInv
      <4>2. info[chain[q]].done
        BY <1>5, <2>1, <4>1, ZenonT(40)
      <4> QED
        BY <1>2, <2>1, <4>2, ZenonT(40) DEF DInv, DataInv, DoneInv
    <3> QED
      BY <3>1, <3>2, ZenonT(40)
  <2>2. \A q \in Proc : at[q] = "bwritten" => blockno[buf[q]] \in synced'
    BY <1>2, Zenon DEF DInv, DataInv, DoneInv
  <2> QED
    BY <1>2, <2>1, <2>2, ZenonT(40) DEF DoneInv, Io
<1> QED
  BY <1>3, <1>4, <1>6, <1>7, <1>8, <1>9, ZenonT(40) DEF DInv, DataInv

-----------------------------------------------------------------------------
(* The theorems.                                                            *)

\* A step of the buffer cache.
LEMMA BufKeeps ==
    ASSUME DInv, NEW p \in Proc, BufStep(p), UNCHANGED NUM, panic = "none"
    PROVE  DInv'
<1>1. Quiet
  BY QuietStep DEF DInv
<1>2. ChainInv' /\ RingInv' /\ RequestInv'
  BY <1>1, QuietKeeps, Zenon DEF DInv
<1>3. Types' /\ LockInv' /\ CacheInv'
  BY BufTypes, BufLocks, BufCounts, Zenon DEF DInv
<1>4. DataInv'
  BY <1>1, BufData, Zenon DEF DInv
<1> QED
  BY <1>2, <1>3, <1>4, ZenonT(40) DEF DInv

\* binit and virtio_disk_init.
LEMMA InitKeeps == Init => DInv
<1> SUFFICES ASSUME Init
             PROVE  DInv
  BY Zenon
<1> USE DEF Init, binit
<1>1. /\ NUM \in Nat \ {0} /\ NUM >= 3 /\ IdxRange \in Nat \ {0} /\ None \notin Desc
  BY Geometry, DiskAssumption DEF Desc
<1>2. EmptyRing \in Ring /\ EmptyRing.idx = 0 /\ EmptyRing.ring = [i \in Desc |-> None]
  BY <1>1 DEF EmptyRing, Ring
<1>3. Types
  BY <1>1, <1>2 DEF Types, Points
<1>4. LockInv
  BY DiskAssumption, Zenon DEF LockInv, Owning
<1>5. CacheInv
  <2>1. ASSUME NEW b \in Buf
        PROVE  Cardinality(Users(b)) = 0
    <3>1. Users(b) = {}
      BY <2>1, DiskAssumption, Zenon DEF Users
    <3> QED
      BY <3>1, FS_EmptySet, Zenon
  <2> QED
    BY <2>1 DEF CacheInv, OneBufPerBlock
<1>6. ChainInv
  BY DEF ChainInv, Io
<1>7. RingInv
  <2>1. Dist(IdxRange, 0, 0) = 0 /\ Window(NUM, IdxRange, 0, 0) = {}
    <3>1. 0 \in 0..(IdxRange - 1)
      BY <1>1
    <3> QED
      BY <1>1, <3>1, WindowEmpty, Zenon
  <2>2. \A s \in Desc : EmptyRing.ring[s] = None /\ s \notin Window(NUM, IdxRange, 0, 0)
    BY <1>2, <2>1, ZenonT(40)
  <2>3. Dist(IdxRange, 0, 0) < NUM
    BY <1>1, <2>1
  <2>4. RingOK(EmptyRing, 0)
    BY <1>2, <2>2, <2>3, ZenonT(40) DEF RingOK
  <2> QED
    BY <2>4, Zenon DEF RingInv
<1>8. Waiting = {} /\ Completed = {}
  BY <1>2, Zenon DEF Waiting, Completed, Entries
<1>9. RequestInv
  BY <1>8, ZenonT(40) DEF RequestInv, Io
<1>10. ValidInv /\ SyncInv
  BY Zenon DEF ValidInv, SyncInv
<1>11. DoneInv
  BY DEF DoneInv, Io
<1> QED
  BY <1>3, <1>4, <1>5, <1>6, <1>7, <1>9, <1>10, <1>11, ZenonT(40) DEF DInv, DataInv

\* The inductive invariant of the buffer cache and the disk driver, for any
\* number of processes, blocks, buffers and descriptors.
THEOREM DiskInvariant == Spec => []DInv
<1>1. Init => DInv
  BY InitKeeps
<1>2. DInv /\ [Next]_vars => DInv'
  <2> SUFFICES ASSUME DInv, [Next]_vars
               PROVE  DInv'
    BY Zenon
  <2>1. ASSUME panic = "none", UNCHANGED NUM, NEW p \in Proc, ProcNext(p)
        PROVE  DInv'
    <3>1. CASE BufStep(p)
      BY <2>1, <3>1, BufKeeps, Zenon
    <3>2. CASE virtio_disk_rw(p)
      BY <2>1, <3>2, SubmitStep, Zenon
    <3>3. CASE rw_done(p)
      BY <2>1, <3>3, ReturnStep, Zenon
    <3> QED
      BY <2>1, <3>1, <3>2, <3>3, Zenon DEF ProcNext, BufStep
  <2>2. ASSUME UNCHANGED NUM, IntrNext
        PROVE  DInv'
    BY <2>2, AckStep, HandleStep, Zenon DEF IntrNext
  <2>3. ASSUME UNCHANGED NUM, DeviceNext
        PROVE  DInv'
    BY <2>3, DeviceStep, Zenon DEF DeviceNext
  <2>4. CASE UNCHANGED vars
    <3> USE <2>4 DEF vars, bcache, vring, device, intr
    <3>1. Types'
      BY TypesSame, ZenonT(40) DEF DInv
    <3>2. LockInv' /\ CacheInv' /\ ChainInv' /\ RingInv'
      BY LockSame, CacheSame, ChainSame, RingSame, ZenonT(40) DEF DInv
    <3>3. Waiting' = Waiting /\ Completed' = Completed
      BY Zenon DEF Waiting, Completed, Entries, Desc
    <3>4. RequestInv'
      BY <3>3, ZenonT(40) DEF DInv, RequestInv, Io
    <3>5. DataInv'
      BY DataFrame, ZenonT(40) DEF DInv
    <3> QED
      BY <3>1, <3>2, <3>4, <3>5, ZenonT(40) DEF DInv
  <2> QED
    BY <2>1, <2>2, <2>3, <2>4, Zenon DEF Next, Halted
<1> QED
  BY <1>1, <1>2, PTL DEF Spec

\* bget never gives a block to two buffers.
THEOREM BuffersUnique == Spec => []OneBufPerBlock
<1>1. DInv => OneBufPerBlock
  BY Zenon DEF DInv, CacheInv
<1> QED
  BY <1>1, DiskInvariant, PTL

\* What bread returns is what the last holder of the block left.
THEOREM CacheAgrees == Spec => []CacheCoherent
<1>1. DInv => CacheCoherent
  <2> SUFFICES ASSUME DInv, NEW p \in Proc, at[p] = "held"
               PROVE  buf[p] \in fresh
    BY Zenon DEF CacheCoherent
  <2>1. buf[p] \in Buf
    BY Alone, ZenonT(40) DEF DInv, Owning
  <2> QED
    BY <2>1, Zenon DEF DInv, DataInv, ValidInv
<1> QED
  BY <1>1, DiskInvariant, PTL

\* When bwrite returns, the block is on the disk.
THEOREM WritesReachDisk == Spec => []WriteThrough
<1>1. DInv => WriteThrough
  BY Zenon DEF DInv, DataInv, DoneInv, WriteThrough
<1> QED
  BY <1>1, DiskInvariant, PTL

\* Whoever sleeps in virtio_disk_rw has a request that the device will complete,
\* or a completion that an interrupt will announce.
THEOREM CompletionsSeen == Spec => []NoLostInterrupt
<1>1. DInv => NoLostInterrupt
  <2> SUFFICES ASSUME DInv, NEW p \in asleep, at[p] = "io"
               PROVE  /\ busy[buf[p]]
                      /\ \/ chain[p] \in active \/ \E i \in Desc : avail.ring[i] = chain[p]
                         \/ (\E i \in Desc : used.ring[i] = chain[p]) /\ (irq \/ handler)
    BY Zenon DEF NoLostInterrupt
  <2>1. p \in Proc /\ Io(p)
    BY DEF DInv, Types, Io
  <2>2. busy[buf[p]]
    BY <2>1, ZenonT(40) DEF DInv, RequestInv
  <2>3. chain[p] \in Waiting \/ (chain[p] \in Completed /\ (irq \/ handler))
    BY <2>1, <2>2, Zenon DEF DInv, RequestInv
  <2> QED
    BY <2>2, <2>3, Zenon DEF Waiting, Completed, Entries
<1> QED
  BY <1>1, DiskInvariant, PTL

\* The panics of free_desc and virtio_disk_intr are never reached.
THEOREM DriverNeverPanics == Spec => [](panic \notin {"free_desc", "intr"})
<1>1. DInv => panic \notin {"free_desc", "intr"}
  BY DEF DInv, Types
<1> QED
  BY <1>1, DiskInvariant, PTL

-----------------------------------------------------------------------------
(* Nobody waits for descriptors that are there.                             *)

\* A process sleeps only in virtio_disk_rw.  While one sleeps for descriptors,
\* there are fewer than three, and the others belong to requests.
DescInv ==
    /\ \A p \in asleep : at[p] \in {"rw", "io"}
    /\ \A p \in asleep : at[p] = "rw" => Cardinality(free) < 3
    /\ \A d \in Desc \ free : \E q \in Proc : Io(q) /\ d \in Chain(chain[q])

\* A request whose descriptors nobody touches keeps them.
LEMMA ChainKept ==
    ASSUME Types, ChainInv, NEW q \in Proc, Io(q), chain'[q] = chain[q],
           \A x \in Chain(chain[q]) : next'[x] = next[x]
    PROVE  (Chain(chain[q]))' = Chain(chain[q])
<1>1. /\ chain[q] \in Chain(chain[q]) /\ next[chain[q]] \in Chain(chain[q])
  BY ChainParts, Zenon
<1>2. next'[chain[q]] = next[chain[q]] /\ next'[next[chain[q]]] = next[next[chain[q]]]
  BY <1>1, Zenon
<1> QED
  BY <1>2, ZenonT(40) DEF Chain

\* A step after which no more descriptors are free and as many are in use.
LEMMA DescFrame ==
    ASSUME DescInv, UNCHANGED <<NUM, free, next, chain>>, \A q \in Proc : Io(q) => Io(q)'
    PROVE  \A d \in Desc' \ free' : \E q \in Proc : Io(q)' /\ d \in (Chain(chain[q]))'
<1>1. \A q \in Proc : (Chain(chain[q]))' = Chain(chain[q])
  BY ZenonT(40) DEF Chain
<1>2. Desc' = Desc
  BY Zenon DEF Desc
<1> QED
  BY <1>1, <1>2, ZenonT(40) DEF DescInv

\* The steps of the buffer cache move only processes that are awake.
LEMMA BufDesc ==
    ASSUME DInv, DescInv, UNCHANGED NUM, NEW p \in Proc, BufStep(p)
    PROVE  DescInv'
<1>1. at \in [Proc -> Points] /\ asleep \subseteq Proc
  BY Zenon DEF DInv, Types
<1>2. Quiet
  BY QuietStep, Zenon DEF DInv
<1>3. \A d \in Desc' \ free' : \E q \in Proc : Io(q)' /\ d \in (Chain(chain[q]))'
  BY <1>2, DescFrame, ZenonT(40) DEF Quiet, vring
<1>4. free' = free
  BY <1>2, Zenon DEF Quiet, vring
<1>5. CASE rw_sleep(p)
  <2>1. at' = at /\ asleep' \subseteq asleep \cup {p} /\ at[p] = "rw" /\ Cardinality(free) < 3
    BY <1>5 DEF rw_sleep
  <2> QED
    BY <1>3, <1>4, <2>1 DEF DescInv
<1>6. CASE ~rw_sleep(p)
  <2>1. /\ asleep' = asleep /\ at[p] \notin {"rw", "io"}
        /\ at' = at \/ \E l : at' = [at EXCEPT ![p] = l]
    BY <1>6 DEF BufStep, bget_panic, bget_hit, bget_recycle, bread, bwrite, log_write, bunpin,
                releasesleep, brelse, Goto
  <2>2. p \notin asleep
    BY <2>1, Zenon DEF DescInv
  <2>3. \A q \in asleep : at'[q] = at[q]
    BY <1>1, <2>1, <2>2
  <2> QED
    BY <1>3, <1>4, <2>1, <2>3 DEF DescInv
<1> QED
  BY <1>5, <1>6

\* virtio_disk_rw takes descriptors away for its request.
LEMMA SubmitDesc ==
    ASSUME DInv, DescInv, UNCHANGED NUM, NEW p \in Proc, virtio_disk_rw(p)
    PROVE  DescInv'
<1>1. PICK i \in Desc, j \in Desc, k \in Desc : Submits(p, i, j, k)
  BY SubmitEffect, Zenon DEF DInv
<1>2. /\ Types /\ ChainInv /\ at \in [Proc -> Points] /\ asleep \subseteq Proc
      /\ chain \in [Proc -> Desc \cup {None}] /\ next \in [Desc -> Desc \cup {None}]
      /\ free \subseteq Desc /\ NUM \in Sizes
  BY Zenon DEF DInv, Types
<1>3. /\ {i, j, k} \subseteq free /\ i # j /\ i # k /\ j # k /\ free' = free \ {i, j, k}
      /\ next' = [next EXCEPT ![i] = j, ![j] = k, ![k] = None]
      /\ chain' = [chain EXCEPT ![p] = i] /\ at' = [at EXCEPT ![p] = "io"]
      /\ asleep' = asleep \cup {p} /\ at[p] = "rw"
  BY <1>1, Zenon DEF Submits
<1>4. Cardinality(free') <= Cardinality(free)
  <2>1. IsFiniteSet(Desc)
    <3>1. 0 \in Int /\ NUM - 1 \in Int
      BY <1>2, Geometry
    <3> QED
      BY <3>1, FS_Interval, Zenon DEF Desc
  <2>2. IsFiniteSet(free)
    BY <1>2, <2>1, FS_Subset, Zenon
  <2>3. free' \subseteq free
    BY <1>3, Zenon
  <2> QED
    BY <2>2, <2>3, FS_Subset, Zenon
<1>5. \A q \in asleep' : at'[q] \in {"rw", "io"}
  BY <1>2, <1>3 DEF DescInv
<1>6. ASSUME NEW q \in asleep', at'[q] = "rw"
      PROVE  Cardinality(free') < 3
  <2>1. q \in asleep /\ at[q] = "rw"
    BY <1>2, <1>3, <1>6
  <2>2. Cardinality(free) < 3 /\ Cardinality(free) \in Nat /\ Cardinality(free') \in Nat
    <3>1. IsFiniteSet(free) /\ IsFiniteSet(free')
      <4>1. NUM - 1 \in Int /\ 0 \in Int
        BY <1>2, Geometry
      <4>2. IsFiniteSet(Desc)
        BY <4>1, FS_Interval, Zenon DEF Desc
      <4> QED
        BY <1>2, <1>3, <4>2, FS_Subset
    <3> QED
      BY <2>1, <3>1, FS_CardinalityType DEF DescInv
  <2> QED
    BY <1>4, <2>2
<1>7. ASSUME NEW d \in Desc' \ free'
      PROVE  \E q \in Proc : Io(q)' /\ d \in (Chain(chain[q]))'
  <2>1. CASE d \in {i, j, k}
    <3>1. None \notin Desc
      BY <1>2, Geometry, DiskAssumption DEF Desc
    <3>2. chain'[p] = i /\ next'[i] = j /\ next'[j] = k /\ Io(p)'
      BY <1>2, <1>3 DEF Io
    <3>3. (Chain(chain[p]))' = {i, j, k}
      BY <3>1, <3>2, Zenon DEF Chain
    <3> QED
      BY <2>1, <3>2, <3>3, Zenon
  <2>2. CASE d \notin {i, j, k}
    <3>1. d \in Desc \ free
      BY <1>3, <2>2, Zenon DEF Desc
    <3>2. PICK q \in Proc : Io(q) /\ d \in Chain(chain[q])
      BY <3>1, Zenon DEF DescInv
    <3>3. q # p
      BY <1>3, <3>2 DEF Io
    <3>4. chain'[q] = chain[q] /\ Io(q)'
      BY <1>2, <1>3, <3>2, <3>3 DEF Io
    <3>5. \A x \in Chain(chain[q]) : next'[x] = next[x]
      <4>1. Chain(chain[q]) \subseteq Desc \ free
        BY <1>2, <3>2, ChainParts
      <4> QED
        BY <1>2, <1>3, <4>1
    <3> QED
      BY <1>2, <3>2, <3>4, <3>5, ChainKept, Zenon
  <2> QED
    BY <2>1, <2>2, Zenon
<1> QED
  BY <1>5, <1>6, <1>7, ZenonT(40) DEF DescInv

\* free_chain wakes whoever waits for descriptors.
LEMMA ReturnDesc ==
    ASSUME DInv, DescInv, UNCHANGED NUM, NEW p \in Proc, rw_done(p)
    PROVE  DescInv'
<1>1. /\ Types /\ LockInv /\ CacheInv /\ ChainInv /\ at \in [Proc -> Points] /\ asleep \subseteq Proc
      /\ chain \in [Proc -> Desc \cup {None}] /\ next \in [Desc -> Desc \cup {None}]
  BY Zenon DEF DInv, Types
<1>2. Returns(p)
  BY <1>1, ReturnEffect, Zenon
<1>3. /\ asleep' = {q \in asleep : at[q] # "rw"} /\ p \notin asleep
  BY Zenon DEF rw_done, WaitingDesc, Awake
<1>4. /\ free' = free \cup Chain(chain[p]) /\ chain' = [chain EXCEPT ![p] = None]
      /\ next' = [i \in Desc |-> IF i \in Chain(chain[p]) THEN None ELSE next[i]]
      /\ at' = [at EXCEPT ![p] = IF valid[buf[p]] THEN "bwritten" ELSE "held"] /\ Io(p)
  BY <1>2, Zenon DEF Returns, Io
<1>5. \A q \in asleep' : at'[q] = "io"
  BY <1>1, <1>3, <1>4 DEF DescInv
<1>6. ASSUME NEW d \in Desc' \ free'
      PROVE  \E q \in Proc : Io(q)' /\ d \in (Chain(chain[q]))'
  <2>1. d \in Desc \ free /\ d \notin Chain(chain[p])
    BY <1>4, <1>6, Zenon DEF Desc
  <2>2. PICK q \in Proc : Io(q) /\ d \in Chain(chain[q])
    BY <2>1, Zenon DEF DescInv
  <2>3. q # p
    BY <2>1, <2>2, Zenon
  <2>4. chain'[q] = chain[q] /\ Io(q)'
    BY <1>1, <1>4, <2>2, <2>3 DEF Io
  <2>5. \A x \in Chain(chain[q]) : next'[x] = next[x]
    <3>1. Chain(chain[q]) \subseteq Desc
      BY <1>1, <2>2, ChainParts
    <3>2. Chain(chain[p]) \cap Chain(chain[q]) = {}
      BY <1>1, <1>4, <2>2, <2>3, Zenon DEF ChainInv
    <3> QED
      BY <1>4, <3>1, <3>2
  <2> QED
    BY <1>1, <2>2, <2>4, <2>5, ChainKept, Zenon
<1> QED
  BY <1>5, <1>6 DEF DescInv

\* Nobody waits for descriptors that are there: rw_done wakes all waiters, and
\* as long as too few descriptors are free a request has the others.
THEOREM DescriptorsSeen == Spec => []NoLostDescriptor
<1>1. Init => DescInv
  BY Zenon DEF Init, DescInv
<1>2. DInv /\ DescInv /\ [Next]_vars => DescInv'
  <2> SUFFICES ASSUME DInv, DescInv, [Next]_vars
               PROVE  DescInv'
    BY Zenon
  <2>1. ASSUME UNCHANGED NUM, NEW p \in Proc, ProcNext(p)
        PROVE  DescInv'
    BY <2>1, BufDesc, SubmitDesc, ReturnDesc, ZenonT(40) DEF ProcNext, BufStep
  <2>2. ASSUME UNCHANGED <<NUM, free, next, chain, at>>, asleep' \subseteq asleep
        PROVE  DescInv'
    <3>1. \A d \in Desc' \ free' : \E q \in Proc : Io(q)' /\ d \in (Chain(chain[q]))'
      BY <2>2, DescFrame, ZenonT(40) DEF Io
    <3> QED
      BY <2>2, <3>1, ZenonT(40) DEF DescInv
  <2>3. ASSUME UNCHANGED NUM, IntrNext \/ DeviceNext
        PROVE  DescInv'
    <3>1. UNCHANGED <<free, next, chain, at>> /\ asleep' \subseteq asleep
      BY <2>3 DEF IntrNext, DeviceNext, virtio_disk_intr, intr_used, device_done, vring
    <3> QED
      BY <2>2, <2>3, <3>1, ZenonT(40)
  <2>4. CASE UNCHANGED vars
    <3>1. UNCHANGED <<NUM, free, next, chain, at, asleep>>
      BY <2>4, Zenon DEF vars, vring
    <3> QED
      BY <2>2, <3>1, ZenonT(40)
  <2> QED
    BY <2>1, <2>3, <2>4, ZenonT(40) DEF Next, Halted
<1>3. DInv /\ DescInv => NoLostDescriptor
  <2> SUFFICES ASSUME DInv, DescInv, NEW p \in asleep, at[p] = "rw"
               PROVE  Cardinality(free) < 3 /\ \E q \in Proc : at[q] = "io"
    BY Zenon DEF NoLostDescriptor
  <2>1. Cardinality(free) < 3
    BY Zenon DEF DescInv
  <2>2. NUM \in Sizes /\ free \subseteq Desc
    BY Zenon DEF DInv, Types
  <2>3. Cardinality(Desc) = NUM
    <3>1. 0 \in Int /\ NUM - 1 \in Int /\ NUM - 1 >= 0 /\ (NUM - 1) - 0 + 1 = NUM
      BY <2>2, Geometry
    <3>2. Cardinality(Desc) = (NUM - 1) - 0 + 1
      BY <3>1, FS_Interval DEF Desc
    <3> QED
      BY <3>1, <3>2
  <2>4. free # Desc
    BY <2>1, <2>2, <2>3, Geometry
  <2>5. PICK q \in Proc : Io(q)
    BY <2>2, <2>4, Zenon DEF DescInv
  <2> QED
    BY <2>1, <2>5, Zenon DEF Io
<1> QED
  BY <1>1, <1>2, <1>3, DiskInvariant, PTL DEF Spec

=============================================================================
