----------------------------- MODULE MCMasstree -----------------------------
EXTENDS Masstree

K(a) == [slices |-> <<a>>, last |-> 1]                \* a short key
L(a, b) == [slices |-> <<a, b>>, last |-> 1]          \* a key of two slices
X(a, b, c) == [slices |-> <<a, b, c>>, last |-> 1]    \* and one of three

call(o, k) == [op |-> o, key |-> k, rng |-> Absent]
ins(k) == call("insert", k)
rem(k) == call("remove", k)
get(k) == call("get", k)
scan(l, le, r, re) ==
  [op |-> "scan", key |-> l, rng |-> [right |-> r, l_exclusive |-> le, r_exclusive |-> re]]

each(o, ks) == {call(o, k) : k \in ks}
anyOf(cs, n) == [1 .. n -> cs]
ascending(n) == [i \in 1 .. n |-> ins(K(i))]

workload(pre, scripts) == [first |-> 1, pre |-> pre, open |-> FALSE, scripts |-> scripts]
alone(cs) == [t \in Threads |-> IF t = 1 THEN cs ELSE {}]
trio(a, b, c) == [t \in Threads |-> CASE t = 1 -> a [] t = 2 -> b [] OTHER -> c]

Short == {K(1), K(2), K(3), K(4)}

\* One thread, short keys: a border node fills, splits and empties again.
Solo == workload(<<ins(K(2)), ins(K(4))>>,
                 alone(anyOf(each("insert", Short) \cup each("remove", Short)
                             \cup {get(K(3)), scan(K(1), FALSE, K(3), TRUE)}, 3)))

\* Five border nodes under two interior nodes, which go again.
Deep == workload(ascending(13) \o <<rem(K(4)), rem(K(5)), rem(K(13))>>,
                 alone(anyOf({rem(K(6)), ins(K(0)), rem(K(7)), get(K(10))}, 2)
                       \cup {<<rem(K(6)), rem(K(1)), rem(K(2)), rem(K(3)), ins(K(5)),
                              scan(K(0), FALSE, K(9), FALSE)>>}))

\* Down: from 13 to 1, so that the nodes split at their low end.
Down == workload([i \in 1 .. 13 |-> ins(K(14 - i))],
                 alone(anyOf({rem(K(1)), rem(K(2)), ins(K(0)), get(K(10))}, 2)))

\* Keys that share slices: layers come and go.
Layers == workload(<<ins(L(1, 1)), ins(L(1, 2)), ins(K(1))>>,
                   alone({<<rem(L(1, 1)), rem(L(1, 2)), get(K(1))>>,
                          <<rem(L(1, 1)), ins(L(1, 3)), rem(L(1, 2)), rem(L(1, 3))>>,
                          <<rem(L(1, 1)), ins(X(1, 2, 1)), get(L(1, 2)), rem(X(1, 2, 1)), rem(L(1, 2))>>,
                          <<ins(X(1, 5, 1)), ins(X(1, 5, 2)), rem(X(1, 5, 2)), get(X(1, 5, 1)), rem(X(1, 5, 1))>>,
                          <<ins(X(1, 5, 5)), ins(L(1, 0)), ins(L(1, 4)), get(X(1, 5, 5)), rem(L(1, 0)), rem(L(1, 1))>>}))

\* Writers and readers in one border node, whose slots are used again.
OneNode == workload(<<ins(K(2)), ins(K(4))>>,
                    trio({<<rem(K(2)), ins(K(3))>>}, {<<get(K(2))>>, <<get(K(3))>>}, {<<rem(K(4))>>}))

\* A scan beside a writer that uses no slot twice.
Scanned == workload(<<ins(K(2)), ins(K(4))>>,
                    trio({<<ins(K(3)), rem(K(2))>>}, {<<scan(K(1), TRUE, K(4), FALSE)>>}, {}))

\* Scans from and to keys of one and two slices, over keys with a suffix.
Suffixes == workload(<<ins(L(1, 2)), ins(K(2)), ins(L(4, 1))>>,
                     alone({<<scan(l, le, r, re), get(L(1, 2))>> :
                              l \in {K(1), L(1, 2), L(1, 3)}, r \in {L(4, 0), L(4, 1), K(4)},
                              le \in BOOLEAN, re \in BOOLEAN}))

\* Readers and writers of different border nodes of one tree.
TwoNodes == workload(ascending(5) \o <<rem(K(2))>>,
                     trio({<<ins(K(2))>>, <<rem(K(1))>>}, {<<ins(K(6))>>, <<get(K(2))>>, <<get(K(1))>>}, {}))

\* A border node with siblings becomes empty while slices left of it are
\* looked for.
Emptied == workload(ascending(7) \o <<rem(K(2)), rem(K(5)), rem(K(6))>>,
                    trio({<<rem(K(4))>>}, {<<ins(K(2))>>, <<get(K(3))>>, <<rem(K(3))>>}, {}))

\* A layer is made for two new keys at once ...
NewLayer == workload(<<ins(L(1, 1))>>,
                     trio({<<ins(L(1, 2))>>}, {<<ins(L(1, 3))>>, <<get(L(1, 2))>>}, {<<ins(K(1))>>}))

\* ... and goes while others look for keys in it and beside it.
OldLayer == workload(<<ins(L(1, 1)), ins(L(1, 2)), rem(L(1, 1))>>,
                     trio({<<rem(L(1, 2))>>}, {<<rem(L(1, 1))>>, <<ins(K(1))>>, <<ins(L(2, 1))>>}, {}))

\* The root splits under a reader, or a remover of a key that stays ...
RootSplit == workload(ascending(3),
                      trio({<<ins(K(4))>>}, {<<get(K(1))>>, <<get(K(4))>>, <<rem(K(1))>>}, {}))

\* ... and under readers of keys that move to the new node.
Moved == workload(<<ins(K(2)), ins(K(3)), ins(K(4))>>,
                  trio({<<ins(K(1))>>}, {<<get(K(2))>>, <<get(K(4))>>, <<get(K(1))>>}, {}))

\* A node with a parent splits while slices left of it are looked for.
Beside == workload(ascending(6),
                   trio({<<ins(K(7))>>}, {<<get(K(1))>>, <<rem(K(2))>>, <<rem(K(1)), ins(K(0))>>}, {}))

\* The last key goes, and the tree with it, while a key is inserted.
LastKey == workload(<<ins(K(1))>>,
                    trio({<<rem(K(1))>>}, {<<ins(K(2))>>, <<rem(K(1))>>, <<get(K(1))>>}, {}))

AllWorkloads == {Solo, Deep, Down, Layers, OneNode, Scanned, Suffixes, TwoNodes, Emptied, NewLayer, OldLayer,
                 RootSplit, Moved, Beside, LastKey}

\* Two inserts, the second of which waits for the lock of the node the first
\* one splits.
SplitRace == {workload(ascending(3), trio({<<ins(K(4))>>}, {<<ins(K(5))>>}, {}))}

\* A reader of a slice right of a border node that becomes empty.
ShiftRace == {workload(ascending(7) \o <<rem(K(2)), rem(K(5)), rem(K(6))>>,
                       trio({<<rem(K(4))>>}, {<<get(K(7))>>}, {}))}

\* A reader of a key of a node with a parent, which splits.
MoveRace == {workload(ascending(6), trio({<<ins(K(7))>>}, {<<get(K(4))>>}, {}))}

\* A reader of the key for which a layer is made.
LayerRace == {workload(<<ins(L(1, 1))>>, trio({<<ins(L(1, 2))>>}, {<<get(L(1, 1))>>}, {}))}

\* The second insert of a key of two slices, by a thread alone.
Twice == {workload(<<ins(L(1, 1)), ins(L(1, 2))>>, alone({<<ins(L(1, 2))>>}))}

\* A scan over keys with a common slice, by a thread alone.
LayerScan == {workload(<<ins(L(1, 1)), ins(L(1, 2)), ins(K(2)), ins(K(3))>>,
                       alone({<<scan(K(1), FALSE, K(4), FALSE)>>}))}
=============================================================================
