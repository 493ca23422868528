---------------------------- MODULE GroupCommit ----------------------------
(***************************************************************************)
(* What the log promises to the file system: the file-system calls that    *)
(* run between two quiescent moments reach the disk together, or not at    *)
(* all.  A crash throws the memory image away and leaves the image of the  *)
(* last commit, and a commit only ever happens while no call is active.    *)
(***************************************************************************)
CONSTANTS Proc, Block, Value, MkfsValue

VARIABLES
    mem,     \* the contents file-system calls read and write
    dur,     \* the contents a reboot would find
    active   \* the processes between begin_op and end_op

gcVars == <<mem, dur, active>>

GCInit ==
    /\ mem = [b \in Block |-> MkfsValue]
    /\ dur = mem
    /\ active = {}

Begin(p) ==
    /\ p \notin active
    /\ active' = active \cup {p}
    /\ UNCHANGED <<mem, dur>>

Write(p, b, v) ==
    /\ p \in active
    /\ mem' = [mem EXCEPT ![b] = v]
    /\ UNCHANGED <<dur, active>>

End(p) ==
    /\ p \in active
    /\ active' = active \ {p}
    /\ UNCHANGED <<mem, dur>>

Commit ==
    /\ active = {}
    /\ dur' = mem
    /\ UNCHANGED <<mem, active>>

PowerLoss ==
    /\ mem' = dur
    /\ active' = {}
    /\ UNCHANGED dur

GCNext ==
    \/ \E p \in Proc : Begin(p) \/ End(p)
    \/ \E p \in Proc, b \in Block, v \in Value : Write(p, b, v)
    \/ Commit
    \/ PowerLoss

GCSpec == GCInit /\ [][GCNext]_gcVars
=============================================================================
