-------------------------------- MODULE Mkfs --------------------------------
(***************************************************************************)
(* The program that makes the file system image (mkfs/mkfs.c): the layout  *)
(* of the disk, the inodes and their blocks, and the bitmap.               *)
(*                                                                         *)
(* Sizes count directory entries.  The contents of blocks are left out,    *)
(* but for indirect blocks.                                                *)
(***************************************************************************)
EXTENDS Integers, Sequences, FiniteSets, FiniteSetsExt, SequencesExt

CONSTANTS
    FSSIZE, NLOG, NINODES, BSIZE,
    IPB,            \* inodes per block
    BPB,            \* bits per block
    NDIRECT, NINDIRECT,
    FileSizes,      \* the sizes of the files that are put in
    MAXFILES        \* bound: how many there are

ROOTINO == 1

(***************************************************************************)
(* The layout.                                                             *)
(***************************************************************************)

nbitmap == FSSIZE \div BPB + 1
ninodeblocks == NINODES \div IPB + 1
nmeta == 2 + NLOG + ninodeblocks + nbitmap

sb == [logstart |-> 2, inodestart |-> 2 + NLOG, bmapstart |-> 2 + NLOG + ninodeblocks]

\* IBLOCK and BBLOCK of kernel/fs.h.
IBLOCK(i) == i \div IPB + sb.inodestart
BBLOCK(b) == b \div BPB + sb.bmapstart

VARIABLES
    din,        \* the inodes written: [size, addrs]
    indirect,   \* the entries of the indirect blocks
    freeblock,
    bitmap,     \* the blocks whose bit is set
    todo        \* the state of main: "files", "fixed" or "done"

mkfsVars == <<din, indirect, freeblock, bitmap, todo>>

(***************************************************************************)
(* iappend.                                                                *)
(***************************************************************************)

\* Mutant: a new entry of the indirect block is not written back.
NewIndirect_lost(m, i, fbn) == [m EXCEPT !.freeblock = @ + 1]

\* Entry fbn of the indirect block of i is a new block.
NewIndirect(m, i, fbn) ==
    [m EXCEPT !.indirect[m.din[i].addrs[NDIRECT]][fbn - NDIRECT] = m.freeblock, !.freeblock = @ + 1]

NewAddr(m, i, k) == [m EXCEPT !.din[i].addrs[k] = m.freeblock, !.freeblock = @ + 1]
NoEntries == [e \in 0..(NINDIRECT - 1) |-> 0]

\* m with a block for fbn, the block number of i.
Mapped(m, i, fbn) ==
    IF fbn < NDIRECT
    THEN IF m.din[i].addrs[fbn] = 0 THEN NewAddr(m, i, fbn) ELSE m
    ELSE LET m1 == IF m.din[i].addrs[NDIRECT] # 0 THEN m
                   ELSE [NewAddr(m, i, NDIRECT) EXCEPT !.indirect = [b \in DOMAIN @ \cup {m.freeblock} |->
                                                                 IF b = m.freeblock THEN NoEntries ELSE @[b]]]
         IN IF m1.indirect[m1.din[i].addrs[NDIRECT]][fbn - NDIRECT] = 0 THEN NewIndirect(m1, i, fbn) ELSE m1

Fbn(off) == off \div BSIZE

\* The loop of iappend, one unit at a time.
iappend(m, i, n) ==
    FoldLeft(LAMBDA acc, u : [Mapped(acc, i, Fbn(acc.din[i].size)) EXCEPT !.din[i].size = @ + 1], m, [u \in 1..n |-> u])

ialloc(m) ==
    [m EXCEPT !.din = Append(@, [size |-> 0, addrs |-> [k \in 0..NDIRECT |-> 0]])]

Image == [din |-> din, indirect |-> indirect, freeblock |-> freeblock]
SetImage(m) == din' = m.din /\ indirect' = m.indirect /\ freeblock' = m.freeblock

(***************************************************************************)
(* main.                                                                   *)
(***************************************************************************)

\* The root directory, with "." and "..".
MkfsInit ==
    LET m == iappend(ialloc([din |-> <<>>, indirect |-> [b \in {} |-> 0], freeblock |-> nmeta]), ROOTINO, 2)
    IN /\ din = m.din /\ indirect = m.indirect /\ freeblock = m.freeblock
       /\ bitmap = {} /\ todo = "files"

MkfsTypeOK ==
    /\ \A i \in DOMAIN din : DOMAIN din[i].addrs = 0..NDIRECT /\ din[i].size \in 0..(BSIZE * (NDIRECT + NINDIRECT))
    /\ freeblock \in nmeta..FSSIZE /\ bitmap \subseteq 0..(FSSIZE - 1)
    /\ todo \in {"files", "fixed", "done"}

\* One file: its inode, its entry in the root, and its contents.
AddFile(n) ==
    LET i == Len(din) + 1 IN
    /\ todo = "files" /\ Len(din) <= MAXFILES
    /\ SetImage(iappend(iappend(ialloc(Image), ROOTINO, 1), i, n))
    /\ UNCHANGED <<bitmap, todo>>

\* The size of the root directory goes up to the next multiple of BSIZE.
FixRoot ==
    /\ todo = "files" /\ todo' = "fixed"
    /\ din' = [din EXCEPT ![ROOTINO].size = (@ \div BSIZE + 1) * BSIZE]
    /\ UNCHANGED <<indirect, freeblock, bitmap>>

balloc ==
    /\ todo = "fixed" /\ freeblock < BPB /\ todo' = "done"
    /\ bitmap' = 0..(freeblock - 1)
    /\ UNCHANGED <<din, indirect, freeblock>>

MkfsNext == (\E n \in FileSizes : AddFile(n)) \/ FixRoot \/ balloc

(***************************************************************************)
(* Properties.                                                             *)
(***************************************************************************)

\* The blocks of inode i, its indirect block included, with what refers to
\* them.
References(i) ==
    LET a == din[i].addrs IN
    {<<i, k, a[k]>> : k \in {k \in 0..NDIRECT : a[k] # 0}} \cup
    (IF a[NDIRECT] = 0 THEN {}
     ELSE LET e == indirect[a[NDIRECT]] IN
          {<<i, NDIRECT + 1 + k, e[k]>> : k \in {k \in DOMAIN e : e[k] # 0}})

\* Every block from the first data block to freeblock belongs to exactly one
\* inode, in one place: iappend neither loses a block nor uses one twice.
ImageBlocks ==
    LET refs == UNION {References(i) : i \in DOMAIN din} IN
    /\ {r[3] : r \in refs} = nmeta..(freeblock - 1)
    /\ Cardinality(refs) = freeblock - nmeta

\* The bitmap of the image marks what is in use, the metadata included: the
\* kernel's balloc hands out none of it.
ImageBitmap ==
    todo = "done" =>
        bitmap = (0..(nmeta - 1)) \cup {r[3] : r \in UNION {References(i) : i \in DOMAIN din}}

\* The data blocks an inode has.
DataBlocks(i) == Cardinality({r \in References(i) : r[2] # NDIRECT})

\* Every block below an inode's size is there.  The exception is the root
\* once its size is fixed, when its entries filled its blocks exactly: it then
\* claims one block more than it has.
SizesCovered ==
    \A i \in DOMAIN din :
        \/ din[i].size <= DataBlocks(i) * BSIZE /\ din[i].size > (DataBlocks(i) - 1) * BSIZE
        \/ /\ i = ROOTINO /\ todo # "files" /\ (Len(din) + 1) % BSIZE = 0
           /\ din[i].size = (DataBlocks(i) + 1) * BSIZE

\* Every inode that is written and every block that is used has its place in
\* the inode blocks and in the bitmap, between the log and the data.
LayoutFits ==
    /\ \A i \in DOMAIN din : IBLOCK(i) \in sb.inodestart..(sb.bmapstart - 1)
    /\ \A b \in 0..(freeblock - 1) : BBLOCK(b) \in sb.bmapstart..(nmeta - 1)

\* The image is one that the kernel can start from: iappend has given every
\* block to one inode, the bitmap that balloc writes marks them, sizes and
\* blocks agree, and the regions of the layout hold what is put into them.
ImageConsistent == ImageBlocks /\ ImageBitmap /\ SizesCovered /\ LayoutFits
=============================================================================
