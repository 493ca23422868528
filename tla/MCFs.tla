-------------------------------- MODULE MCFs --------------------------------
\* Instances of Fs for TLC.
EXTENDS Fs

CONSTANTS p1, p2

C(fn, abs, path) == [fn |-> fn, abs |-> abs, path |-> path, new |-> <<>>]

\* p1 makes and removes a and a/b; p2 moves into a/b, and makes files there.
MCCalls ==
    [p \in Proc |->
       IF p = p1
       THEN {C("mkdir", TRUE, <<"a">>), C("mkdir", TRUE, <<"a", "b">>),
             C("unlink", TRUE, <<"a">>), C("unlink", TRUE, <<"a", "b">>)}
       ELSE {C("chdir", TRUE, <<"a", "b">>), C("create", FALSE, <<"b">>), C("trunc", FALSE, <<"..">>),
             C("mknod", TRUE, <<>>),
             [fn |-> "link", abs |-> FALSE, path |-> <<"b">>, new |-> <<"a">>]}]
=============================================================================
