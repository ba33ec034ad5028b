-------------------- MODULE MCFileMoldItchRecoverySource --------------------
(* A file that grows from nothing, past an incomplete record, to three     *)
(* messages, and another one with the size that the first ends with.       *)
EXTENDS FileMoldItchRecoverySource
M(at, body) == [at |-> at, body |-> body]
F(messages, size) == [messages |-> messages, size |-> size]
MCFiles == {F(<<>>, 0),
            F(<<M(0, "a"), M(10, "b")>>, 25),
            F(<<M(0, "a"), M(10, "b"), M(20, "huge")>>, 40),
            F(<<M(0, "b"), M(15, "a"), M(30, "a")>>, 40)}
MCRequests == {<<0, 1>>, <<2, 2>>, <<1, 2>>, <<1, 3>>, <<2, 3>>, <<2, 4>>, <<3, 4>>}
MCGarbage == {<<>>, <<"b", "b", "b">>}
=============================================================================
