-------------------------------- MODULE MCTx --------------------------------
EXTENDS Tx, TLC

CONSTANTS f1, bd, b1

Sym == Permutations(Proc)

\* Transactions and plain readers; and unlink inside transactions, with plain
\* opens and writes of the same file.
MCMixes == {[tx |-> {"open", "read", "write"}, plain |-> {"open", "read"}],
            [tx |-> {"open", "unlink"}, plain |-> {"open", "write"}]}

\* A file that is opened before the transaction, and unlink inside another.
LateMixes == {[tx |-> {"write", "unlink"}, plain |-> {"open"}]}

MCInode == {cwd, f1}
MCBuf == {bd, b1}
MCDataBuf == [i \in MCInode |-> IF i = cwd THEN bd ELSE b1]

\* bio.o comes before fs.o on the linker's command line (Makefile, OBJS), so
\* every buffer header has a lower address than every inode.
MCAddr == [o \in MCInode \cup MCBuf |->
              CASE o = bd -> 1 [] o = b1 -> 2 [] o = cwd -> 3 [] o = f1 -> 4]
=============================================================================
