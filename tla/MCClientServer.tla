---------------------------- MODULE MCClientServer ----------------------------
EXTENDS ClientServer

\* A moment and an earlier one of the next second.
MCTimes == {<<1, 1>>, <<2, 0>>}

\* The first client sends a transaction, the second only comes and goes.
MCMaxReq == [c \in Clients |-> IF c = 1 THEN 2 ELSE 1]

\* The last one lacks an argument.
MCLines == {[op |-> "READ", args |-> 1], [op |-> "WRITE", args |-> 2],
            [op |-> "RMW", args |-> 2], [op |-> "INSERT", args |-> 1]}
=============================================================================
