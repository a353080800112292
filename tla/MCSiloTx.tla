------------------------------- MODULE MCSiloTx -------------------------------
(***************************************************************************)
(* Workloads for SiloTx: three workers, each with a list of transactions.  *)
(* Keys 1, 2 and 3 have records, key 4 does not.                           *)
(***************************************************************************)
EXTENDS SiloTx

R(k) == [op |-> "READ", key |-> k]
W(k) == [op |-> "WRITE", key |-> k]
I(k) == [op |-> "INSERT", key |-> k]
D(k) == [op |-> "DELETE", key |-> k]
S(k, j) == [op |-> "SCAN", key |-> k, to |-> j]

Workload(a, b, c) == [w \in Workers |-> CASE w = 0 -> a [] w = 1 -> b [] w = 2 -> c]

\* No two workers write the same record, no transaction that inserts also reads.
WriteSkew == Workload(<< <<R(1), W(2)>>, <<R(2)>> >>, << <<R(2), W(1)>> >>, << <<R(1), R(2)>> >>)
Triangle == Workload(<< <<R(1), W(2)>> >>, << <<R(2), W(3)>> >>, << <<R(3), W(1)>> >>)
FracturedRead == Workload(<< <<W(1), W(2)>>, <<R(1), W(1)>> >>, << <<R(1), R(2)>>, <<R(2), R(1)>> >>, <<>>)
ReadInsert == Workload(<< <<I(4), W(1)>> >>, << <<R(1), R(4)>> >>, << <<R(4), W(2)>> >>)
ReadDelete == Workload(<< <<R(2), D(1)>>, <<I(1)>> >>, << <<R(1), W(2)>>, <<D(2)>> >>, <<>>)
Rewrite == Workload(<< <<W(1)>>, <<R(2), W(1)>> >>, << <<W(2)>>, <<R(1)>> >>, <<>>)
FailingOps == Workload(<< <<W(1), R(2)>>, <<W(1), I(1)>> >>,
                       << <<I(4), D(4)>>, <<W(4)>>, <<R(1), D(4)>>, <<W(2), R(2)>> >>, <<>>)
\* A scan of a record read before, one written, one deleted and one inserted.
Scans == Workload(<< <<R(3), W(1)>>, <<D(2)>> >>, << <<R(1), W(3), S(1, 4)>> >>, << <<I(4)>> >>)

DisjointLoads == {WriteSkew, Triangle, FracturedRead, ReadInsert, ReadDelete,
                  Rewrite, FailingOps, Scans}

ASSUME DisjointLoadsAssumption == \A ld \in DisjointLoads : NoConflicts(ld)

\* A transaction writes a record and reads it, and reads two records and one again.
RereadLoads == {Workload(<< <<W(1), R(1)>> >>, <<>>, << <<R(2), R(3), R(2)>> >>)}

\* A transaction inserts a record and fails, another one reads that record.
DeletedLoads == {Workload(<< <<I(4), D(4)>> >>, << <<R(1), R(4)>> >>, << <<W(1)>> >>)}

\* Two workers increment the same record.
ConflictLoads == {Workload(<< <<R(1), W(1)>> >>, << <<R(1), W(1)>> >>, <<>>)}
=============================================================================
