---------------------------- MODULE SiloTxProofs ----------------------------
(***************************************************************************)
(* Proofs about SiloTx, for every number of workers, every set of keys and *)
(* every bound.                                                            *)
(***************************************************************************)
EXTENDS SiloTx, FiniteSetTheorems, SequenceTheorems, WellFoundedInduction, TLAPS

-----------------------------------------------------------------------------
(* The inductive invariant                                                 *)

\* Where a worker stands in its transaction.
PlaceOf(w) ==
  /\ pc[w] \in {"retry", "idle"} => tx[w] = NewTx
  /\ pc[w] \notin {"retry", "idle"} => done[w] < Len(load[w])
  /\ tx[w].ip >= 1
  /\ pc[w] \in {"load", "recheck", "body", "scan"} => tx[w].ip <= Len(Program(w))
  /\ pc[w] \in {"load", "recheck", "body"} => tx[w].found \in Values
  /\ pc[w] \in {"writing", "unlockstore"} => tx[w].todo # {}
  /\ tx[w].todo \subseteq DOMAIN tx[w].wset

Place == \A w \in Workers : PlaceOf(w)

\* No TID is of an epoch that is still to come.
TidEpochs == \A v \in Values : tidword[v].epoch <= GlobalEpoch

\* Nor is one that a worker holds; the TIDs a commit is made of are not of a later
\* epoch than the one the worker took between its phases.
EpochsOf(w) ==
  /\ ThLocalEpoch[w] <= GlobalEpoch
  /\ mrctid[w].epoch <= ThLocalEpoch[w]
  /\ tx[w].expected.epoch <= GlobalEpoch
  /\ tx[w].maxR.epoch <= GlobalEpoch
  /\ tx[w].maxW.epoch <= GlobalEpoch
  /\ tx[w].maxtid.epoch <= GlobalEpoch
  /\ \A i \in 1 .. Len(tx[w].rset) : tx[w].rset[i].tid.epoch <= GlobalEpoch
  /\ pc[w] = "validate" =>
       /\ tx[w].maxR.epoch <= ThLocalEpoch[w]
       /\ tx[w].maxW.epoch <= ThLocalEpoch[w]
       /\ \A i \in 1 .. Len(tx[w].rset) : tx[w].rset[i].tid.epoch <= ThLocalEpoch[w]

Epochs == \A w \in Workers : EpochsOf(w)

TInv == TypeOK /\ Place /\ TidEpochs /\ Epochs /\ CommitInLocalEpoch

-----------------------------------------------------------------------------
(* The operators                                                           *)

\* A nonempty set of natural numbers has a least element.
LEMMA LeastExists ==
  ASSUME NEW S \in SUBSET Nat, S # {}
  PROVE  \E x \in S : \A y \in S : x <= y
<1> DEFINE R == {p \in Nat \X Nat : p[1] < p[2]}
<1>1. IsWellFoundedOn(R, Nat)
  BY NatLessThanWellFounded DEF OpToRel
<1>2. \E x \in S : \A y \in S : <<y, x>> \notin R
  BY <1>1, WFMin
<1>3. \A x, y \in Nat : <<y, x>> \notin R => x <= y
  OBVIOUS
<1> HIDE DEF R
<1> QED
  BY <1>2, <1>3

\* Least finds the least key.
LEMMA LeastIn ==
  ASSUME NEW S \in SUBSET Keys, S # {}
  PROVE  Least(S) \in S /\ \A y \in S : Least(S) <= y
<1>1. S \in SUBSET Nat
  BY TxAssumption
<1>2. \E x \in S : \A y \in S : x <= y
  BY <1>1, LeastExists
<1> QED
  BY <1>2 DEF Least

\* q lists the pairs of S in the order of their first components.
Lists(q, S) ==
  /\ q \in [1 .. Cardinality(S) -> S]
  /\ \A i, j \in 1 .. Cardinality(S) : i < j => q[i][1] < q[j][1]

\* A nonempty set has such a list if it has one without its first pair.
LEMMA ListFromRest ==
  ASSUME NEW S, IsFiniteSet(S), NEW x \in S, \A y \in S : y[1] \in Nat,
         \A y \in S \ {x} : x[1] < y[1],
         NEW q, Lists(q, S \ {x})
  PROVE  \E p : Lists(p, S)
<1> DEFINE n == Cardinality(S)
           p == [i \in 1 .. n |-> IF i = 1 THEN x ELSE q[i - 1]]
<1>1. n \in Nat /\ Cardinality(S \ {x}) = n - 1 /\ n # 0
  BY FS_CardinalityType, FS_RemoveElement, FS_EmptySet
<1> HIDE DEF n
<1>2. /\ q \in [1 .. n - 1 -> S \ {x}]
      /\ \A i, j \in 1 .. n - 1 : i < j => q[i][1] < q[j][1]
  BY <1>1 DEF Lists
<1>3. ASSUME NEW i \in 1 .. n, i # 1 PROVE i - 1 \in 1 .. n - 1 /\ p[i] = q[i - 1]
  BY <1>1, <1>3
<1>4. \A i \in 1 .. n : i = 1 => p[i] = x
  OBVIOUS
<1>5. \A i \in 1 .. n : p[i] \in S
  BY <1>2, <1>3, <1>4
<1>6. ASSUME NEW i \in 1 .. n, NEW j \in 1 .. n, i < j PROVE p[i][1] < p[j][1]
  <2>1. j # 1
    BY <1>6, <1>1
  <2>2. CASE i = 1
    <3>1. p[j] \in S \ {x} /\ p[i] = x
      BY <1>2, <1>3, <1>4, <2>1, <2>2
    <3> HIDE DEF p
    <3> QED
      BY <3>1
  <2>3. CASE i # 1
    <3>1. p[i] = q[i - 1] /\ p[j] = q[j - 1] /\ i - 1 \in 1 .. n - 1 /\ j - 1 \in 1 .. n - 1 /\ i - 1 < j - 1
      BY <1>3, <1>6, <2>1, <2>3
    <3> HIDE DEF p
    <3> QED
      BY <1>2, <3>1
  <2> QED
    BY <2>2, <2>3
<1>7. p \in [1 .. n -> S]
  BY <1>5
<1> HIDE DEF p
<1> QED
  BY <1>6, <1>7 DEF Lists, n

\* The records of a finite tree can be listed in the order of their keys.
LEMMA ListExists ==
  ASSUME NEW S, IsFiniteSet(S), \A y \in S : y[1] \in Nat,
         \A x, y \in S : x[1] = y[1] => x = y
  PROVE  \E q : Lists(q, S)
<1> DEFINE Bad == {n \in Nat : \E U \in SUBSET S : Cardinality(U) = n /\ ~\E q : Lists(q, U)}
<1> SUFFICES ASSUME Bad # {} PROVE FALSE
  <2>1. Cardinality(S) \in Nat
    BY FS_CardinalityType
  <2> QED
    BY <2>1
<1>1. PICK n \in Bad : \A m \in Bad : n <= m
  <2>1. Bad \in SUBSET Nat
    OBVIOUS
  <2> HIDE DEF Bad
  <2> QED
    BY <2>1, LeastExists
<1>2. PICK U \in SUBSET S : Cardinality(U) = n /\ ~\E q : Lists(q, U)
  BY <1>1
<1>3. IsFiniteSet(U) /\ n \in Nat
  BY <1>1, FS_Subset
<1>4. U # {}
  <2>1. SUFFICES ASSUME U = {} PROVE FALSE
    OBVIOUS
  <2>2. Cardinality(U) = 0
    BY <2>1, FS_EmptySet
  <2>3. Lists([i \in 1 .. 0 |-> 0], U)
    BY <2>1, <2>2 DEF Lists
  <2> QED
    BY <1>2, <2>3
<1>5. PICK x \in U : \A y \in U : x[1] <= y[1]
  <2> DEFINE F == {y[1] : y \in U}
  <2>1. F \in SUBSET Nat /\ F # {}
    BY <1>4
  <2>2. PICK f \in F : \A g \in F : f <= g
    <3> HIDE DEF F
    <3> QED
      BY <2>1, LeastExists
  <2> QED
    BY <2>2
<1>6. \A y \in U \ {x} : x[1] < y[1]
  <2> SUFFICES ASSUME NEW y \in U \ {x} PROVE x[1] < y[1]
    OBVIOUS
  <2>1. x[1] \in Nat /\ y[1] \in Nat /\ x[1] <= y[1] /\ x[1] # y[1]
    BY <1>5
  <2> QED
    BY <2>1
<1>7. Cardinality(U \ {x}) = n - 1 /\ n - 1 \in Nat
  BY <1>2, <1>3, <1>4, FS_RemoveElement, FS_EmptySet, FS_CardinalityType
<1>8. \E q : Lists(q, U \ {x})
  <2>1. n - 1 \notin Bad
    <3> HIDE DEF Bad
    <3> QED
      BY <1>1, <1>3
  <2>2. U \ {x} \in SUBSET S
    BY <1>2
  <2> QED
    BY <1>7, <2>1, <2>2
<1>9. \A y \in U : y[1] \in Nat
  BY <1>2
<1>10. \E q : Lists(q, U)
  BY <1>3, <1>6, <1>8, <1>9, ListFromRest
<1> QED
  BY <1>2, <1>10

\* The larger of two TIDs is one of them, its epoch is the larger one, and neither
\* of the two is newer.
LEMMA MaxTidIsLarger ==
  ASSUME NEW a \in Tids, NEW b \in Tids
  PROVE  /\ MaxTid(a, b) \in {a, b}
         /\ MaxTid(a, b) \in Tids
         /\ a.epoch <= MaxTid(a, b).epoch
         /\ b.epoch <= MaxTid(a, b).epoch
         /\ ~Newer(a, MaxTid(a, b))
         /\ ~Newer(b, MaxTid(a, b))
BY DEF MaxTid, Less, Newer, Tids

\* The next TID of the same epoch.
LEMMA NextTidType ==
  ASSUME NEW a \in Tids
  PROVE  NextTid(a) \in Tids /\ NextTid(a).epoch = a.epoch /\ Newer(NextTid(a), a)
<1>1. a.epoch \in Nat /\ a.tid \in Nat /\ a.absent \in BOOLEAN /\ a.lock \in BOOLEAN
  BY DEF Tids
<1>2. NextTid(a).epoch = a.epoch /\ NextTid(a).tid = a.tid + 1
  BY DEF NextTid, Tids
<1>3. NextTid(a) \in Tids
  <2>1. ASSUME NEW n \in Nat PROVE [a EXCEPT !.tid = n, !.lock = FALSE] \in Tids
    BY DEF Tids
  <2>2. a.tid + 1 \in Nat
    BY <1>1
  <2> QED
    BY <2>1, <2>2 DEF NextTid
<1> QED
  BY <1>1, <1>2, <1>3 DEF Newer

\* Not being newer is transitive.
LEMMA NewerTransitive ==
  ASSUME NEW a \in Tids, NEW b \in Tids, NEW c \in Tids, ~Newer(a, b), ~Newer(b, c)
  PROVE  ~Newer(a, c)
BY DEF Newer, Tids

\* What [a], [b] and [c] of writePhase make the TID of a commit: its epoch is the
\* largest of the four, and no record read or written is newer.
LEMMA CommitTidIsLargest ==
  ASSUME NEW w \in Workers, tx[w].maxR \in Tids, tx[w].maxW \in Tids, mrctid[w] \in Tids,
         ThLocalEpoch[w] \in Nat
  PROVE  /\ CommitTid(w) \in Tids
         /\ CommitTid(w).epoch \in {tx[w].maxR.epoch, tx[w].maxW.epoch, mrctid[w].epoch, ThLocalEpoch[w]}
         /\ CommitTid(w).epoch >= ThLocalEpoch[w]
         /\ ~Newer(tx[w].maxW, CommitTid(w))
<1> DEFINE a == MaxTid(tx[w].maxR, tx[w].maxW)
           b == MaxTid(NextTid(a), NextTid(mrctid[w]))
           c == Tid(ThLocalEpoch[w], 0, FALSE, FALSE)
<1>0. c \in Tids /\ c.epoch = ThLocalEpoch[w]
  BY DEF Tid, Tids
<1>1. a \in Tids /\ a \in {tx[w].maxR, tx[w].maxW} /\ ~Newer(tx[w].maxW, a)
  BY MaxTidIsLarger
<1>2. /\ NextTid(a) \in Tids /\ NextTid(a).epoch = a.epoch /\ Newer(NextTid(a), a)
      /\ NextTid(mrctid[w]) \in Tids /\ NextTid(mrctid[w]).epoch = mrctid[w].epoch
  <2> HIDE DEF a
  <2> QED
    BY <1>1, NextTidType
<1>3. b \in Tids /\ b \in {NextTid(a), NextTid(mrctid[w])} /\ ~Newer(NextTid(a), b)
  <2> HIDE DEF a
  <2> QED
    BY <1>2, MaxTidIsLarger
<1>4. /\ MaxTid(b, c) \in Tids /\ MaxTid(b, c) \in {b, c} 
      /\ c.epoch <= MaxTid(b, c).epoch /\ ~Newer(b, MaxTid(b, c))
  <2> HIDE DEF b, c
  <2> QED
    BY <1>0, <1>3, MaxTidIsLarger
<1>5. CommitTid(w) = MaxTid(b, c)
  BY DEF CommitTid
<1>6. ~Newer(a, NextTid(a))
  <2> HIDE DEF a
  <2> QED
    BY <1>1, <1>2 DEF Newer, Tids
<1>7. ~Newer(tx[w].maxW, MaxTid(b, c))
  <2> HIDE DEF a, b, c
  <2> QED
    BY <1>1, <1>2, <1>3, <1>4, <1>6, NewerTransitive
<1>8. ThLocalEpoch[w] <= MaxTid(b, c).epoch
  <2> HIDE DEF b
  <2> QED
    BY <1>0, <1>4
<1>9. MaxTid(b, c).epoch \in {tx[w].maxR.epoch, tx[w].maxW.epoch, mrctid[w].epoch, ThLocalEpoch[w]}
  <2> HIDE DEF a, b, c
  <2> QED
    BY <1>0, <1>1, <1>2, <1>3, <1>4
<1> HIDE DEF b, c
<1> QED
  BY <1>4, <1>5, <1>7, <1>8, <1>9 DEF Tids

\* masstree.scan returns records of the tree, each under its key.
LEMMA ScanListed ==
  ASSUME tree \in [Keys -> Values \cup {NULL}], NEW K \in SUBSET Keys, \A k \in K : tree[k] # NULL
  PROVE  /\ InOrder({<<k, tree[k]>> : k \in K}) \in Seq(Keys \X Values)
         /\ \A i \in 1 .. Len(InOrder({<<k, tree[k]>> : k \in K})) :
              \E j \in K : InOrder({<<k, tree[k]>> : k \in K})[i] = <<j, tree[j]>>
<1> DEFINE S == {<<k, tree[k]>> : k \in K}
           f == [k \in K |-> <<k, tree[k]>>]
<1>1. IsFiniteSet(K)
  BY TxAssumption, FS_Subset
<1>2. \A k \in K : f[k] \in S
  OBVIOUS
<1>3. \A y \in S : \E k \in K : f[k] = y
  OBVIOUS
<1>4. f \in Surjection(K, S)
  <2>1. f \in [K -> S]
    BY <1>2
  <2> HIDE DEF f, S
  <2> QED
    BY <1>3, <2>1 DEF Surjection
<1>5. IsFiniteSet(S)
  <2> HIDE DEF f, S
  <2> QED
    BY <1>1, <1>4, FS_Surjection
<1>6. /\ \A y \in S : y[1] \in Nat
      /\ \A x, y \in S : x[1] = y[1] => x = y
      /\ S \subseteq Keys \X Values
  BY TxAssumption
<1>7. \E q : Lists(q, S)
  <2> HIDE DEF S
  <2> QED
    BY <1>5, <1>6, ListExists
<1>8. \E q \in [1 .. Cardinality(S) -> S] : \A i, j \in DOMAIN q : i < j => q[i][1] < q[j][1]
  <2> HIDE DEF S
  <2>1. PICK q : Lists(q, S)
    BY <1>7
  <2>2. q \in [1 .. Cardinality(S) -> S] /\ DOMAIN q = 1 .. Cardinality(S)
    BY <2>1 DEF Lists
  <2> QED
    BY <2>1, <2>2 DEF Lists
<1>9. InOrder(S) \in [1 .. Cardinality(S) -> S]
  <2> HIDE DEF S
  <2> QED
    BY <1>8 DEF InOrder
<1>10. Cardinality(S) \in Nat
  <2> HIDE DEF S
  <2> QED
    BY <1>5, FS_CardinalityType
<1>11. InOrder(S) \in Seq(S)
  <2> HIDE DEF S
  <2> QED
    BY <1>9, <1>10
<1>12. InOrder(S) \in Seq(Keys \X Values) /\ \A i \in 1 .. Len(InOrder(S)) : InOrder(S)[i] \in S
  <2> HIDE DEF S
  <2> QED
    BY <1>6, <1>11, <1>9, <1>10
<1> QED
  BY <1>12

-----------------------------------------------------------------------------
(* Types                                                                   *)

\* A transaction record of the right type.
TxOK(t) == DOMAIN t.wset \subseteq Keys /\ t \in TxTypes(DOMAIN t.wset)

\* The transaction a worker is in, and its operations.
LEMMA ProgramType ==
  ASSUME TypeOK, NEW w \in Workers, PlaceOf(w), done[w] < Len(load[w])
  PROVE  /\ load[w] \in Seq(Seq(Ops))
         /\ done[w] + 1 \in 1 .. Len(load[w])
         /\ Program(w) \in Seq(Ops)
         /\ \A i \in Nat : 1 <= i /\ i <= Len(Program(w)) => Program(w)[i] \in Ops
<1>1. load[w] \in Seq(Seq(Ops)) /\ done[w] \in Nat
  BY TxAssumption DEF TypeOK, WorkerTypes
<1>2. done[w] + 1 \in 1 .. Len(load[w])
  BY <1>1
<1>3. Program(w) \in Seq(Ops)
  BY <1>1, <1>2 DEF Program
<1> QED
  BY <1>1, <1>2, <1>3

\* The key of the operation a worker is in.
LEMMA KeyType ==
  ASSUME TypeOK, NEW w \in Workers, PlaceOf(w), done[w] < Len(load[w]),
         tx[w].ip <= Len(Program(w))
  PROVE  /\ Program(w)[tx[w].ip] \in Ops
         /\ KeyOf(w) \in Keys
<1>1. tx[w].ip \in Nat /\ 1 <= tx[w].ip
  BY DEF TypeOK, WorkerTypes, TxTypes, PlaceOf
<1>2. Program(w)[tx[w].ip] \in Ops
  BY <1>1, ProgramType
<1> QED
  BY <1>2 DEF KeyOf, Ops

\* The parts of a transaction record.
LEMMA TxFields ==
  ASSUME NEW t, TxOK(t)
  PROVE  /\ t.ip \in Nat /\ t.found \in Values \cup {NULL} /\ t.expected \in Tids
         /\ t.readValue \in Bodies /\ t.scan \in Seq(Keys \X Values) /\ t.bodies \in Nat
         /\ t.reads \in Reports /\ t.rereads \in Reports /\ t.rset \in Seq(ReadEntries)
         /\ DOMAIN t.wset \subseteq Keys /\ t.wset \in [DOMAIN t.wset -> WriteEntries]
         /\ t.todo \in SUBSET Keys /\ t.itr \in Nat \ {0} /\ t.after \in {"none", "epoch", "abort"}
         /\ t.maxR \in Tids /\ t.maxW \in Tids /\ t.maxtid \in Tids
         /\ t.conflict \in BOOLEAN /\ t.failed \in BOOLEAN
BY DEF TxOK, TxTypes

\* begin makes a record of the type.
LEMMA NewTxOK == TxOK(NewTx) /\ DOMAIN NewTx.wset = {}
<1>1. <<>> \in Seq(Keys \X Values) /\ <<>> \in Seq(ReadEntries) /\ DOMAIN <<>> = {}
  OBVIOUS
<1>2. ZeroTid \in Tids
  BY DEF ZeroTid, Tid, Tids
<1>3. EMPTY \in Bodies /\ {} \in Reports
  BY DEF Bodies, Reports
<1>4. NewTx.wset = <<>>
  BY DEF NewTx
<1>5. <<>> \in [{} -> WriteEntries]
  OBVIOUS
<1>6. NewTx \in TxTypes({})
  BY <1>1, <1>2, <1>3, <1>5 DEF NewTx, TxTypes
<1> QED
  BY <1>1, <1>4, <1>6 DEF TxOK

\* Assignments to the members of TxExecutor.
LEMMA TxUpdate ==
  ASSUME NEW t, TxOK(t)
  PROVE  /\ \A x \in Nat : TxOK([t EXCEPT !.ip = x])
         /\ \A x \in Values : TxOK([t EXCEPT !.found = x])
         /\ \A x \in Tids : TxOK([t EXCEPT !.expected = x])
         /\ \A x \in SUBSET Keys : TxOK([t EXCEPT !.todo = x])
         /\ \A x \in Seq(Keys \X Values) : TxOK([t EXCEPT !.scan = x])
         /\ \A x \in Seq(ReadEntries) : TxOK([t EXCEPT !.rset = x])
<1> USE DEF TxOK, TxTypes
<1>1. \A x \in Nat : TxOK([t EXCEPT !.ip = x])
  OBVIOUS
<1>2. \A x \in Values : TxOK([t EXCEPT !.found = x])
  OBVIOUS
<1>3. \A x \in Tids : TxOK([t EXCEPT !.expected = x])
  OBVIOUS
<1>4. \A x \in SUBSET Keys : TxOK([t EXCEPT !.todo = x])
  OBVIOUS
<1>5. \A x \in Seq(Keys \X Values) : TxOK([t EXCEPT !.scan = x])
  OBVIOUS
<1>6. \A x \in Seq(ReadEntries) : TxOK([t EXCEPT !.rset = x])
  OBVIOUS
<1> QED
  BY <1>1, <1>2, <1>3, <1>4, <1>5, <1>6

\* The operations of a transaction, and the rest of its life.
OperationStep(w) ==
  \/ Insert(w) \/ Write(w) \/ Delete(w) \/ Read(w) \/ LoadTid(w) \/ Recheck(w) \/ ReadBody(w)
  \/ Scan(w) \/ ScanRecord(w) \/ ScanBodies(w)

\* A step of w leaves the other workers alone.
Frame(w) ==
  /\ GlobalEpoch' = GlobalEpoch /\ load' = load
  /\ DOMAIN tx' = Workers /\ DOMAIN pc' = Workers
  /\ \A u \in Workers \ {w} : tx'[u] = tx[u] /\ pc'[u] = pc[u]
  /\ DOMAIN done' = Workers /\ DOMAIN mrctid' = Workers /\ DOMAIN ThLocalEpoch' = Workers
  /\ \A u \in Workers \ {w} :
       done'[u] = done[u] /\ mrctid'[u] = mrctid[u] /\ ThLocalEpoch'[u] = ThLocalEpoch[u]

\* The step of a worker assigns its own entries.
LEMMA OwnStep ==
  ASSUME NEW w \in Workers, WorkerStep(w)
  PROVE  /\ GlobalEpoch' = GlobalEpoch /\ load' = load
         /\ ThLocalEpoch' = ThLocalEpoch \/ ThLocalEpoch' = [ThLocalEpoch EXCEPT ![w] = GlobalEpoch]
         /\ mrctid' = mrctid \/ (Commit(w) /\ mrctid' = [mrctid EXCEPT ![w] = CommitTid(w)])
         /\ done' = done \/ done' = [done EXCEPT ![w] = done[w] + 1]
         /\ pc' = pc \/ \E l : pc' = [pc EXCEPT ![w] = l]
<1>1. /\ GlobalEpoch' = GlobalEpoch /\ load' = load
      /\ ThLocalEpoch' = ThLocalEpoch \/ ThLocalEpoch' = [ThLocalEpoch EXCEPT ![w] = GlobalEpoch]
      /\ mrctid' = mrctid \/ (Commit(w) /\ mrctid' = [mrctid EXCEPT ![w] = CommitTid(w)])
      /\ done' = done \/ done' = [done EXCEPT ![w] = done[w] + 1]
  BY DEF WorkerStep, Begin, Insert, Write, Delete, Read, LoadTid, Recheck, ReadBody, Scan,
         ScanRecord, ScanBodies, StartValidation, LockOne, UnlockLoad, UnlockStore, Unlocked,
         TakeEpoch, ValidateOne, Commit, WriteBody, StoreTid, WriteDone, RemoveInserted,
         AbortDone, NextTransaction, epochVars
<1>2. pc' = pc \/ \E l : pc' = [pc EXCEPT ![w] = l]
  BY DEF WorkerStep, Begin, Insert, Write, Delete, Read, LoadTid, Recheck, ReadBody, Scan,
         ScanRecord, ScanBodies, StartValidation, LockOne, UnlockLoad, UnlockStore, Unlocked,
         TakeEpoch, ValidateOne, Commit, WriteBody, StoreTid, WriteDone, RemoveInserted,
         AbortDone, NextTransaction, Goto, OpFails, Expect
<1> QED
  BY <1>1, <1>2

\* Every step is one of w alone.
LEMMA FrameStep ==
  ASSUME TypeOK, NEW w \in Workers, WorkerStep(w)
  PROVE  Frame(w)
<1>0. /\ DOMAIN tx = Workers /\ DOMAIN pc = Workers /\ DOMAIN done = Workers
      /\ DOMAIN mrctid = Workers /\ DOMAIN ThLocalEpoch = Workers
  BY DEF TypeOK, WorkerTypes
<1>3. DOMAIN tx' = Workers /\ \A u \in Workers \ {w} : tx'[u] = tx[u]
  <2>1. CASE Insert(w) \/ Write(w) \/ Delete(w)
    BY <1>0, <2>1 DEF Insert, Write, Delete, OpFails
  <2>2. CASE Read(w) \/ LoadTid(w) \/ Recheck(w) \/ ReadBody(w)
    BY <1>0, <2>2 DEF Read, LoadTid, Recheck, ReadBody, OpFails, Expect
  <2>3. CASE Scan(w) \/ ScanRecord(w) \/ ScanBodies(w) \/ Begin(w)
    BY <1>0, <2>3 DEF Scan, ScanRecord, ScanBodies, Begin
  <2>4. CASE StartValidation(w) \/ LockOne(w) \/ UnlockLoad(w) \/ UnlockStore(w) \/ Unlocked(w)
    BY <1>0, <2>4 DEF StartValidation, LockOne, UnlockLoad, UnlockStore, Unlocked
  <2>5. CASE TakeEpoch(w) \/ ValidateOne(w) \/ Commit(w) \/ WriteBody(w) \/ StoreTid(w)
    BY <1>0, <2>5 DEF TakeEpoch, ValidateOne, Commit, WriteBody, StoreTid
  <2>6. CASE WriteDone(w) \/ RemoveInserted(w) \/ AbortDone(w)
    BY <1>0, <2>6 DEF WriteDone, RemoveInserted, AbortDone, NextTransaction
  <2> QED
    BY <2>1, <2>2, <2>3, <2>4, <2>5, <2>6 DEF WorkerStep
<1> QED
  BY <1>0, <1>3, OwnStep DEF Frame

-----------------------------------------------------------------------------
(* What the operations do                                                  *)

SameSets(w) == tx'[w].rset = tx[w].rset /\ tx'[w].wset = tx[w].wset
SamePlace(w) == tx'[w].ip = tx[w].ip /\ tx'[w].found = tx[w].found /\ tx'[w].scan = tx[w].scan
SameTodo(w) == tx'[w].todo = tx[w].todo /\ tx'[w].expected = tx[w].expected
SameControl(w) ==
  /\ tx'[w].maxR = tx[w].maxR /\ tx'[w].maxW = tx[w].maxW /\ tx'[w].maxtid = tx[w].maxtid
  /\ tx'[w].after = tx[w].after /\ tx'[w].conflict = tx[w].conflict

\* An operation returns a warning.
Fails(w) ==
  /\ pc[w] \in {"op", "load", "recheck"} /\ pc'[w] = "abort"
  /\ pc[w] # "op" => tx[w].scan = <<>>
  /\ tx'[w].todo = Inserted(tx[w].wset) /\ tx'[w].expected = tx[w].expected
  /\ SameSets(w) /\ SamePlace(w) /\ UNCHANGED store

\* An operation is over.
Steps(w) ==
  /\ pc[w] \in {"op", "body", "scan"} /\ pc'[w] = "op"
  /\ pc[w] = "scan" => tx[w].scan = <<>>
  /\ tx'[w].ip = tx[w].ip + 1 /\ tx'[w].found = tx[w].found /\ tx'[w].scan = tx[w].scan
  /\ SameSets(w) /\ SameTodo(w) /\ UNCHANGED store

\* read_internal is called.
Finds(w) ==
  /\ pc'[w] = "load"
  /\ \/ pc[w] = "op" /\ tx[w].ip <= Len(Program(w)) /\ tx'[w].found = tree[KeyOf(w)]
     \/ pc[w] = "scan" /\ tx[w].scan # <<>> /\ tx'[w].found = Head(tx[w].scan)[2]
  /\ tx'[w].found \in Values
  /\ tx'[w].ip = tx[w].ip /\ tx'[w].scan = tx[w].scan
  /\ SameSets(w) /\ SameTodo(w) /\ UNCHANGED store

\* It looks at the TID word.
Expects(w) ==
  /\ pc[w] \in {"load", "recheck"} /\ pc'[w] = "recheck"
  /\ tx'[w].expected = tidword[tx[w].found] /\ tx'[w].todo = tx[w].todo
  /\ SameSets(w) /\ SamePlace(w) /\ UNCHANGED store

\* It starts again.
Reloads(w) ==
  /\ pc[w] = "recheck" /\ pc'[w] = "load"
  /\ SameSets(w) /\ SamePlace(w) /\ SameTodo(w) /\ UNCHANGED store

\* A scan is done with a record.
Passes(w) ==
  /\ pc[w] \in {"load", "recheck", "scan"} /\ pc'[w] = "scan"
  /\ tx[w].scan # <<>> /\ tx'[w].scan = Tail(tx[w].scan)
  /\ tx'[w].ip = tx[w].ip
  /\ SameSets(w) /\ SameTodo(w) /\ UNCHANGED store

\* read_internal returns, and the record is put into the read set.
Enters(w) ==
  /\ pc[w] = "recheck"
  /\ \E k \in Keys :
       /\ tx'[w].rset = Append(tx[w].rset, [op |-> "READ", key |-> k, v |-> tx[w].found,
                                            tid |-> tidword[tx[w].found]])
       /\ \/ /\ tx[w].scan = <<>> /\ k = KeyOf(w)
             /\ tx'[w].scan = <<>> /\ pc'[w] = "body"
          \/ /\ tx[w].scan # <<>> /\ k = Head(tx[w].scan)[1]
             /\ tx'[w].scan = Tail(tx[w].scan) /\ pc'[w] = "scan"
  /\ tidword[tx[w].found] = tx[w].expected
  /\ tx'[w].ip = tx[w].ip /\ tx'[w].found = tx[w].found /\ tx'[w].wset = tx[w].wset
  /\ SameTodo(w) /\ UNCHANGED store

\* masstree.scan.
Scans(w) ==
  /\ pc[w] = "op" /\ pc'[w] = "scan" /\ tx[w].ip <= Len(Program(w))
  /\ \A i \in 1 .. Len(tx'[w].scan) :
       tx'[w].scan[i][1] \in Keys /\ tx'[w].scan[i][2] = tree[tx'[w].scan[i][1]]
  /\ tx'[w].ip = tx[w].ip
  /\ SameSets(w) /\ SameTodo(w) /\ UNCHANGED store

\* A body is read.
Collects(w) ==
  /\ pc[w] = "scan" /\ pc'[w] = "scan"
  /\ SameSets(w) /\ SamePlace(w) /\ SameTodo(w) /\ UNCHANGED store

\* k is put into the write set.
Added(w, k, v, op) ==
  /\ pc[w] = "op" /\ pc'[w] = "op" /\ tx[w].ip <= Len(Program(w))
  /\ Program(w)[tx[w].ip].op = op /\ Program(w)[tx[w].ip].key = k
  /\ k \in Keys /\ v \in Values /\ k \notin DOMAIN tx[w].wset
  /\ DOMAIN tx'[w].wset = DOMAIN tx[w].wset \cup {k}
  /\ \A j \in DOMAIN tx[w].wset : tx'[w].wset[j] = tx[w].wset[j]
  /\ tx'[w].wset[k] = [v |-> v, op |-> op]
  /\ tx'[w].ip = tx[w].ip + 1 /\ tx'[w].found = tx[w].found /\ tx'[w].scan = tx[w].scan
  /\ SameTodo(w)

Adds(w) ==
  \E k \in Keys : \E op \in {"WRITE", "DELETE"} :
     Added(w, k, LookUp(w, k), op) /\ tx'[w].rset = tx[w].rset /\ UNCHANGED store

Inserts(w) ==
  \E k \in Keys :
    /\ Added(w, k, <<k, w>>, "INSERT")
    /\ tx'[w].rset = Append(tx[w].rset, [op |-> "READ", key |-> k, v |-> <<k, w>>,
                                         tid |-> Tid(0, 0, TRUE, TRUE)])
    /\ tree[k] = NULL /\ tree' = [tree EXCEPT ![k] = <<k, w>>]
    /\ tidword' = [tidword EXCEPT ![<<k, w>>] = Tid(0, 0, TRUE, TRUE)]
    /\ body' = [body EXCEPT ![<<k, w>>] = Me(w)]
    /\ freed' = freed \ {<<k, w>>}

OperationView(w) ==
  /\ TxOK(tx'[w]) /\ SameControl(w)
  /\ pc'[w] \in Pcs
  /\ UNCHANGED <<epochVars, load, done, mrctid, commits>>
  /\ \/ Fails(w) \/ Steps(w) \/ Finds(w) \/ Expects(w) \/ Reloads(w) \/ Passes(w)
     \/ Enters(w) \/ Scans(w) \/ Collects(w) \/ Adds(w) \/ Inserts(w)

\* The types a step starts from.
LEMMA Typed ==
  ASSUME TypeOK, NEW w \in Workers
  PROVE  /\ DOMAIN tx = Workers /\ TxOK(tx[w])
         /\ pc \in [Workers -> Pcs] /\ done[w] \in Nat
         /\ tree \in [Keys -> Values \cup {NULL}] /\ tidword \in [Values -> Tids]
         /\ body \in [Values -> Bodies]
BY DEF TypeOK, WorkerTypes, StoreTypes, TxOK

\* A worker's own assignment.
LEMMA Assign ==
  ASSUME TypeOK, NEW w \in Workers, NEW t, tx' = [tx EXCEPT ![w] = t]
  PROVE  tx'[w] = t
BY Typed

\* Where a worker goes next.
LEMMA GotoIs ==
  ASSUME TypeOK, NEW w \in Workers, NEW l, Goto(w, l)
  PROVE  pc'[w] = l
BY Typed DEF Goto

\* Keys that are inserted are keys.
LEMMA InsertedKeys ==
  ASSUME NEW t, TxOK(t)
  PROVE  Inserted(t.wset) \in SUBSET Keys /\ Lockable(t.wset) \in SUBSET Keys
BY TxFields DEF Inserted, Lockable

\* A warning leads to abort.
LEMMA FailsView ==
  ASSUME TypeOK, NEW w \in Workers, OpFails(w),
         pc[w] \in {"op", "load", "recheck"}, pc[w] # "op" => tx[w].scan = <<>>,
         UNCHANGED store, UNCHANGED <<epochVars, load, done, mrctid, commits>>
  PROVE  OperationView(w)
<1>1. TxOK(tx[w])
  BY Typed
<1>2. PICK t : t = [tx[w] EXCEPT !.failed = TRUE, !.todo = Inserted(tx[w].wset)]
  OBVIOUS
<1>3. tx' = [tx EXCEPT ![w] = t]
  BY <1>2 DEF OpFails
<1>4. tx'[w] = t
  BY <1>3, Assign
<1>5. TxOK(t)
  BY <1>1, <1>2, InsertedKeys DEF TxOK, TxTypes
<1>6. /\ tx'[w].todo = Inserted(tx[w].wset) /\ tx'[w].expected = tx[w].expected
      /\ SameSets(w) /\ SamePlace(w) /\ SameControl(w)
  BY <1>1, <1>2, <1>4 DEF TxOK, TxTypes, SameSets, SamePlace, SameControl
<1>7. pc'[w] = "abort"
  BY GotoIs DEF OpFails
<1> QED
  BY <1>4, <1>5, <1>6, <1>7 DEF OperationView, Fails, Pcs

\* r differs from t in the other parts only.
SameRest(t, r) ==
  /\ r.found = t.found /\ r.scan = t.scan /\ r.todo = t.todo /\ r.expected = t.expected
  /\ r.maxR = t.maxR /\ r.maxW = t.maxW /\ r.maxtid = t.maxtid
  /\ r.after = t.after /\ r.conflict = t.conflict

\* r is t with an entry of the write set more.
AddedTo(t, r, k, v, op) ==
  /\ DOMAIN r.wset = DOMAIN t.wset \cup {k}
  /\ \A j \in DOMAIN t.wset : r.wset[j] = t.wset[j]
  /\ r.wset[k] = [v |-> v, op |-> op]

\* read of a key of the local sets: the client is given read_value as it is.
Reread(t, k) == [t EXCEPT !.rereads = @ \cup {<<k, t.readValue>>}, !.ip = @ + 1]

LEMMA RereadView ==
  ASSUME NEW t, TxOK(t), NEW k \in Keys, NEW r, r = Reread(t, k)
  PROVE  TxOK(r) /\ r.ip = t.ip + 1 /\ r.rset = t.rset /\ r.wset = t.wset /\ SameRest(t, r)
<1>1. t.rereads \cup {<<k, t.readValue>>} \in Reports /\ t.ip + 1 \in Nat
  BY TxFields DEF Reports
<1>2. TxOK(r)
  BY <1>1 DEF Reread, TxOK, TxTypes
<1> QED
  BY <1>2 DEF Reread, TxOK, TxTypes, SameRest

\* The client is given a value.
LEMMA ReportView ==
  ASSUME NEW t, TxOK(t), NEW k \in Keys, NEW x \in Bodies, NEW r, r = Report(t, k, x)
  PROVE  TxOK(r) /\ r.ip = t.ip + 1 /\ r.rset = t.rset /\ r.wset = t.wset /\ SameRest(t, r)
<1>1. t.reads \cup {<<k, x>>} \in Reports /\ t.ip + 1 \in Nat
  BY TxFields DEF Reports
<1>2. TxOK(r)
  BY <1>1 DEF Report, TxOK, TxTypes
<1> QED
  BY <1>2 DEF Report, TxOK, TxTypes, SameRest

\* An entry of the write set.
LEMMA AddWriteView ==
  ASSUME NEW t, TxOK(t), NEW k \in Keys, NEW v \in Values, NEW op \in {"INSERT", "WRITE", "DELETE"},
         k \notin DOMAIN t.wset, NEW r, r = AddWrite(t, k, v, op)
  PROVE  /\ TxOK(r) /\ r.ip = t.ip + 1 /\ r.rset = t.rset /\ SameRest(t, r)
         /\ AddedTo(t, r, k, v, op)
<1> DEFINE D == DOMAIN t.wset \cup {k}
           W == [j \in D |-> IF j = k THEN [v |-> v, op |-> op] ELSE t.wset[j]]
<1>1. t.wset \in [DOMAIN t.wset -> WriteEntries] /\ DOMAIN t.wset \subseteq Keys /\ t.ip + 1 \in Nat
  BY TxFields
<1>2. [v |-> v, op |-> op] \in WriteEntries
  BY DEF WriteEntries
<1>3. W \in [D -> WriteEntries] /\ D \subseteq Keys /\ DOMAIN W = D
  BY <1>1, <1>2
<1>4. \A j \in DOMAIN t.wset : W[j] = t.wset[j]
  OBVIOUS
<1>5. W[k] = [v |-> v, op |-> op]
  OBVIOUS
<1>6. AddWrite(t, k, v, op) = [t EXCEPT !.wset = W, !.ip = t.ip + 1]
  BY DEF AddWrite
<1> HIDE DEF W, D
<1>7. r = [t EXCEPT !.wset = W, !.ip = t.ip + 1]
  BY <1>6
<1>8. r.wset = W
  BY <1>7 DEF TxOK, TxTypes
<1>9. r \in TxTypes(D)
  BY <1>1, <1>3, <1>7 DEF TxOK, TxTypes
<1>10. TxOK(r)
  BY <1>3, <1>8, <1>9 DEF TxOK
<1>11. r.ip = t.ip + 1 /\ r.rset = t.rset /\ SameRest(t, r)
  BY <1>7 DEF TxOK, TxTypes, SameRest
<1>12. DOMAIN r.wset = DOMAIN t.wset \cup {k}
  BY <1>3, <1>8 DEF D
<1>13. (\A j \in DOMAIN t.wset : r.wset[j] = t.wset[j]) /\ r.wset[k] = [v |-> v, op |-> op]
  BY <1>4, <1>5, <1>8
<1> QED
  BY <1>10, <1>11, <1>12, <1>13 DEF AddedTo

\* The Value that write and tx_delete find.
LEMMA LookUpType ==
  ASSUME TypeOK, NEW w \in Workers, NEW k \in Keys, LookUp(w, k) # NULL
  PROVE  LookUp(w, k) \in Values
<1>1. tree[k] \in Values \cup {NULL} /\ tx[w].rset \in Seq(ReadEntries)
  BY Typed, TxFields
<1>2. CASE ReadsOf(w, k) = {}
  BY <1>1, <1>2 DEF LookUp
<1>3. CASE ReadsOf(w, k) # {}
  <2>1. ReadsOf(w, k) \in SUBSET Nat /\ ReadsOf(w, k) \subseteq 1 .. Len(tx[w].rset)
    BY DEF ReadsOf
  <2>2. Least(ReadsOf(w, k)) \in 1 .. Len(tx[w].rset)
    BY <1>3, <2>1, LeastExists DEF Least
  <2>3. tx[w].rset[Least(ReadsOf(w, k))] \in ReadEntries
    BY <1>1, <2>2
  <2> QED
    BY <1>3, <2>3 DEF LookUp, ReadEntries
<1> QED
  BY <1>2, <1>3

\* The types an operation starts from.
LEMMA DoingType ==
  ASSUME TypeOK, Place, NEW w \in Workers, NEW op, Doing(w, op)
  PROVE  /\ Program(w)[tx[w].ip] \in Ops /\ KeyOf(w) \in Keys
         /\ pc[w] = "op" /\ tx[w].ip <= Len(Program(w))
         /\ Program(w)[tx[w].ip].op = op /\ Program(w)[tx[w].ip].key = KeyOf(w)
BY KeyType DEF Place, PlaceOf, Doing, KeyOf

\* The records of an unsuccessful or repeated write.
LEMMA IpView ==
  ASSUME TypeOK, NEW w \in Workers, tx' = [tx EXCEPT ![w].ip = @ + 1],
         pc[w] \in {"op", "scan"}, pc'[w] = "op", pc[w] = "scan" => tx[w].scan = <<>>,
         UNCHANGED store, UNCHANGED <<epochVars, load, done, mrctid, commits>>
  PROVE  OperationView(w)
<1>1. TxOK(tx[w]) /\ tx[w].ip + 1 \in Nat
  BY Typed, TxFields
<1>2. PICK t : t = [tx[w] EXCEPT !.ip = tx[w].ip + 1]
  OBVIOUS
<1>3. tx' = [tx EXCEPT ![w] = t]
  BY <1>2
<1>4. tx'[w] = t
  BY <1>3, Assign
<1>5. TxOK(t)
  BY <1>1, <1>2, TxUpdate
<1>6. /\ tx'[w].ip = tx[w].ip + 1 /\ tx'[w].found = tx[w].found /\ tx'[w].scan = tx[w].scan
      /\ SameSets(w) /\ SameTodo(w) /\ SameControl(w)
  BY <1>1, <1>2, <1>4 DEF TxOK, TxTypes, SameSets, SameTodo, SameControl
<1> QED
  BY <1>4, <1>5, <1>6 DEF OperationView, Steps, Pcs

\* WRITE and DELETE of a record that is not in the write set yet.
LEMMA AddView ==
  ASSUME TypeOK, Place, NEW w \in Workers, NEW op \in {"WRITE", "DELETE"}, Doing(w, op),
         ~InWriteSet(w, KeyOf(w)), LookUp(w, KeyOf(w)) # NULL,
         tx' = [tx EXCEPT ![w] = AddWrite(@, KeyOf(w), LookUp(w, KeyOf(w)), op)],
         UNCHANGED pc, UNCHANGED store, UNCHANGED <<epochVars, load, done, mrctid, commits>>
  PROVE  OperationView(w)
<1>1. /\ KeyOf(w) \in Keys /\ pc[w] = "op" /\ tx[w].ip <= Len(Program(w))
      /\ Program(w)[tx[w].ip].op = op /\ Program(w)[tx[w].ip].key = KeyOf(w)
  BY DoingType
<1>2. PICK k \in Keys : k = KeyOf(w)
  BY <1>1
<1>3. LookUp(w, k) \in Values /\ TxOK(tx[w]) /\ k \notin DOMAIN tx[w].wset
  BY <1>2, LookUpType, Typed DEF InWriteSet
<1>4. PICK v \in Values : v = LookUp(w, k)
  BY <1>3
<1>5. PICK t : t = AddWrite(tx[w], k, v, op)
  OBVIOUS
<1>6. tx' = [tx EXCEPT ![w] = t]
  BY <1>2, <1>4, <1>5
<1>7. tx'[w] = t
  BY <1>6, Assign
<1>8. /\ TxOK(t) /\ t.ip = tx[w].ip + 1 /\ t.rset = tx[w].rset /\ SameRest(tx[w], t)
      /\ AddedTo(tx[w], t, k, v, op)
  <2>1. op \in {"INSERT", "WRITE", "DELETE"}
    OBVIOUS
  <2> QED
    BY <1>3, <1>5, <2>1, AddWriteView
<1>9. SameControl(w) /\ SameTodo(w) /\ tx'[w].found = tx[w].found /\ tx'[w].scan = tx[w].scan
  BY <1>7, <1>8 DEF SameControl, SameTodo, SameRest
<1>10. Added(w, k, v, op)
  BY <1>1, <1>2, <1>3, <1>7, <1>8, <1>9 DEF Added, AddedTo
<1>11. Adds(w)
  BY <1>4, <1>7, <1>8, <1>10 DEF Adds
<1> QED
  BY <1>1, <1>7, <1>8, <1>9, <1>11 DEF OperationView, Pcs

\* write and tx_delete fail, find the key in the write set already, or add an entry to it.
LEMMA WriteView ==
  ASSUME TypeOK, Place, NEW w \in Workers, Write(w) \/ Delete(w)
  PROVE  OperationView(w)
<1>1. pc[w] = "op" /\ UNCHANGED <<epochVars, load, done, mrctid, commits>> /\ UNCHANGED store
  BY DEF Write, Delete, Doing
<1>2. \/ OpFails(w)
      \/ tx' = [tx EXCEPT ![w].ip = @ + 1] /\ UNCHANGED pc
      \/ \E op \in {"WRITE", "DELETE"} :
           /\ Doing(w, op) /\ ~InWriteSet(w, KeyOf(w)) /\ LookUp(w, KeyOf(w)) # NULL
           /\ tx' = [tx EXCEPT ![w] = AddWrite(@, KeyOf(w), LookUp(w, KeyOf(w)), op)]
           /\ UNCHANGED pc
  BY DEF Write, Delete
<1>3. CASE OpFails(w)
  BY <1>1, <1>3, FailsView
<1>4. CASE tx' = [tx EXCEPT ![w].ip = @ + 1] /\ UNCHANGED pc
  BY <1>1, <1>4, IpView
<1>5. ASSUME NEW op \in {"WRITE", "DELETE"},
             Doing(w, op), ~InWriteSet(w, KeyOf(w)), LookUp(w, KeyOf(w)) # NULL,
             tx' = [tx EXCEPT ![w] = AddWrite(@, KeyOf(w), LookUp(w, KeyOf(w)), op)],
             UNCHANGED pc
      PROVE  OperationView(w)
  BY <1>1, <1>5, AddView
<1> QED
  BY <1>2, <1>3, <1>4, <1>5

\* insert fails, or puts a locked and absent record into the tree and adds it to the write set.
LEMMA InsertView ==
  ASSUME TypeOK, Place, NEW w \in Workers, Insert(w)
  PROVE  OperationView(w)
<1> DEFINE k == KeyOf(w)
<1>1. /\ k \in Keys /\ pc[w] = "op" /\ tx[w].ip <= Len(Program(w))
      /\ Program(w)[tx[w].ip].op = "INSERT" /\ Program(w)[tx[w].ip].key = k
  BY DoingType DEF Insert
<1>3. UNCHANGED <<epochVars, load, done, mrctid, commits>>
  BY DEF Insert
<1>4. CASE InWriteSet(w, k) \/ tree[k] # NULL
  <2>1. OpFails(w) /\ UNCHANGED store
    BY <1>4 DEF Insert
  <2> QED
    BY <1>1, <1>3, <2>1, FailsView
<1>5. CASE ~(InWriteSet(w, k) \/ tree[k] # NULL)
  <2> DEFINE v == <<k, w>>
             locked == Tid(0, 0, TRUE, TRUE)
             r == [op |-> "READ", key |-> k, v |-> v, tid |-> locked]
             a == AddWrite(tx[w], k, v, "INSERT")
  <2>1. ~InWriteSet(w, k) /\ tree[k] = NULL
    BY <1>5
  <2>a. /\ tree' = [tree EXCEPT ![k] = v]
        /\ tidword' = [tidword EXCEPT ![v] = locked]
        /\ body' = [body EXCEPT ![v] = Me(w)]
        /\ freed' = freed \ {v}
        /\ UNCHANGED pc
    BY <2>1 DEF Insert
  <2>b. tx' = [tx EXCEPT ![w] = [a EXCEPT !.rset = Append(@, r)]]
    BY <2>1 DEF Insert
  <2> HIDE DEF k
  <2>2. v \in Values /\ locked \in Tids
    BY <1>1 DEF Values, Tid, Tids
  <2>3. r \in ReadEntries
    BY <1>1, <2>2 DEF ReadEntries
  <2> HIDE DEF v, locked
  <2>4. TxOK(tx[w]) /\ k \notin DOMAIN tx[w].wset
    BY <2>1, Typed DEF InWriteSet
  <2>5. /\ TxOK(a) /\ a.ip = tx[w].ip + 1 /\ a.rset = tx[w].rset /\ SameRest(tx[w], a)
        /\ AddedTo(tx[w], a, k, v, "INSERT")
    BY <1>1, <2>2, <2>4, AddWriteView
  <2> HIDE DEF r, a
  <2>6. PICK t : t = [a EXCEPT !.rset = Append(a.rset, r)]
    OBVIOUS
  <2>7. tx'[w] = t
    <3>1. tx' = [tx EXCEPT ![w] = t]
      BY <2>b, <2>6
    <3> QED
      BY <3>1, Assign
  <2>8. Append(a.rset, r) \in Seq(ReadEntries)
    <3>1. a.rset \in Seq(ReadEntries)
      BY <2>5, TxFields
    <3> QED
      BY <2>3, <3>1
  <2>9. TxOK(t)
    BY <2>5, <2>6, <2>8, TxUpdate
  <2>10. t.rset = Append(a.rset, r) /\ t.ip = a.ip /\ t.wset = a.wset /\ SameRest(a, t)
    BY <2>5, <2>6 DEF TxOK, TxTypes, SameRest
  <2>11. SameControl(w) /\ SameTodo(w) /\ tx'[w].found = tx[w].found /\ tx'[w].scan = tx[w].scan
    BY <2>5, <2>7, <2>10 DEF SameControl, SameTodo, SameRest
  <2>12. Added(w, k, v, "INSERT")
    BY <1>1, <2>a, <2>2, <2>4, <2>5, <2>7, <2>10, <2>11 DEF Added, AddedTo
  <2>13. Inserts(w)
    BY <1>1, <2>1, <2>a, <2>5, <2>7, <2>10, <2>12 DEF Inserts, v, locked, r
  <2> QED
    BY <1>1, <1>3, <2>a, <2>7, <2>9, <2>11, <2>13 DEF OperationView, Pcs
<1> QED
  BY <1>4, <1>5

\* A value is reported and the operation is over.
LEMMA ReportedView ==
  ASSUME TypeOK, NEW w \in Workers, NEW k \in Keys, NEW x \in Bodies,
         tx' = [tx EXCEPT ![w] = Report(tx[w], k, x)], pc[w] \in {"op", "body"}, pc'[w] = "op",
         UNCHANGED store, UNCHANGED <<epochVars, load, done, mrctid, commits>>
  PROVE  OperationView(w)
<1>1. TxOK(tx[w])
  BY Typed
<1>2. tx'[w] = Report(tx[w], k, x)
  BY Assign
<1>3. PICK t : t = Report(tx[w], k, x)
  OBVIOUS
<1>4. TxOK(t) /\ t.ip = tx[w].ip + 1 /\ t.rset = tx[w].rset /\ t.wset = tx[w].wset /\ SameRest(tx[w], t)
  BY <1>1, <1>3, ReportView
<1>5. /\ tx'[w].ip = tx[w].ip + 1 /\ tx'[w].found = tx[w].found /\ tx'[w].scan = tx[w].scan
      /\ SameSets(w) /\ SameTodo(w) /\ SameControl(w) /\ TxOK(tx'[w])
  BY <1>2, <1>3, <1>4 DEF SameRest, SameSets, SameTodo, SameControl
<1> QED
  BY <1>5 DEF OperationView, Steps, Pcs

\* A record is handed to read_internal.
LEMMA FoundView ==
  ASSUME TypeOK, NEW w \in Workers, NEW v \in Values, tx' = [tx EXCEPT ![w].found = v], pc'[w] = "load",
         \/ pc[w] = "op" /\ tx[w].ip <= Len(Program(w)) /\ v = tree[KeyOf(w)]
         \/ pc[w] = "scan" /\ tx[w].scan # <<>> /\ v = Head(tx[w].scan)[2],
         UNCHANGED store, UNCHANGED <<epochVars, load, done, mrctid, commits>>
  PROVE  OperationView(w)
<1>1. TxOK(tx[w])
  BY Typed
<1>2. PICK t : t = [tx[w] EXCEPT !.found = v]
  OBVIOUS
<1>3. tx'[w] = t
  <2>1. tx' = [tx EXCEPT ![w] = t]
    BY <1>2
  <2> QED
    BY <2>1, Assign
<1>4. TxOK(t)
  BY <1>1, <1>2, TxUpdate
<1>5. /\ tx'[w].found = v /\ tx'[w].ip = tx[w].ip /\ tx'[w].scan = tx[w].scan
      /\ SameSets(w) /\ SameTodo(w) /\ SameControl(w)
  BY <1>1, <1>2, <1>3 DEF TxOK, TxTypes, SameSets, SameTodo, SameControl
<1>6. Finds(w)
  BY <1>5 DEF Finds
<1> QED
  BY <1>3, <1>4, <1>5, <1>6 DEF OperationView, Pcs

\* read answers from its own sets, fails, or goes to read_internal with the record it found.
LEMMA ReadView ==
  ASSUME TypeOK, Place, NEW w \in Workers, Read(w)
  PROVE  OperationView(w)
<1>1. /\ KeyOf(w) \in Keys /\ pc[w] = "op" /\ tx[w].ip <= Len(Program(w))
  BY DoingType DEF Read
<1>2. UNCHANGED <<epochVars, load, done, mrctid, commits>> /\ UNCHANGED store
  BY DEF Read
<1>3. \/ tx' = [tx EXCEPT ![w] = Reread(tx[w], KeyOf(w))] /\ UNCHANGED pc
      \/ tree[KeyOf(w)] # NULL /\ tx' = [tx EXCEPT ![w].found = tree[KeyOf(w)]] /\ Goto(w, "load")
      \/ OpFails(w)
  BY DEF Read, Reread
<1>4. CASE tx' = [tx EXCEPT ![w] = Reread(tx[w], KeyOf(w))] /\ UNCHANGED pc
  <2>1. PICK t : t = Reread(tx[w], KeyOf(w))
    OBVIOUS
  <2>2. TxOK(t) /\ t.ip = tx[w].ip + 1 /\ t.rset = tx[w].rset /\ t.wset = tx[w].wset /\ SameRest(tx[w], t)
    BY <1>1, <2>1, Typed, RereadView
  <2>3. tx'[w] = t
    BY <1>4, <2>1, Typed, Assign
  <2>4. /\ tx'[w].ip = tx[w].ip + 1 /\ tx'[w].found = tx[w].found /\ tx'[w].scan = tx[w].scan
        /\ SameSets(w) /\ SameTodo(w) /\ SameControl(w) /\ TxOK(tx'[w])
    BY <2>2, <2>3 DEF SameRest, SameSets, SameTodo, SameControl
  <2> QED
    BY <1>1, <1>2, <1>4, <2>4 DEF OperationView, Steps, Pcs
<1>5. CASE tree[KeyOf(w)] # NULL /\ tx' = [tx EXCEPT ![w].found = tree[KeyOf(w)]] /\ Goto(w, "load")
  <2>1. tree[KeyOf(w)] \in Values /\ pc'[w] = "load"
    BY <1>1, <1>5, Typed, GotoIs
  <2>2. PICK v \in Values : v = tree[KeyOf(w)]
    BY <2>1
  <2> QED
    BY <1>1, <1>2, <1>5, <2>1, <2>2, FoundView
<1>6. CASE OpFails(w)
  BY <1>1, <1>2, <1>6, FailsView
<1> QED
  BY <1>3, <1>4, <1>5, <1>6

\* read reports the body, the TID word of the record being in the read set by then.
LEMMA ReadBodyView ==
  ASSUME TypeOK, Place, NEW w \in Workers, ReadBody(w)
  PROVE  OperationView(w)
<1>1. pc[w] = "body" /\ pc'[w] = "op"
  BY GotoIs DEF ReadBody
<1>2. PlaceOf(w)
  BY DEF Place
<1>3. KeyOf(w) \in Keys
  BY <1>1, <1>2, KeyType DEF PlaceOf
<1>4. body[tx[w].found] \in Bodies
  BY <1>1, <1>2, Typed DEF PlaceOf
<1>5. UNCHANGED <<epochVars, load, done, mrctid, commits>> /\ UNCHANGED store
  BY DEF ReadBody
<1>6. tx' = [tx EXCEPT ![w] = Report(tx[w], KeyOf(w), body[tx[w].found])]
  BY DEF ReadBody
<1> QED
  BY <1>1, <1>3, <1>4, <1>5, <1>6, ReportedView

\* A record of the scan is left behind.
LEMMA PassView ==
  ASSUME TypeOK, NEW w \in Workers, NEW R \in Reports,
         tx' = [tx EXCEPT ![w].scan = Tail(@), ![w].reads = R], tx[w].scan # <<>>,
         pc[w] \in {"load", "recheck", "scan"}, pc'[w] = "scan",
         UNCHANGED store, UNCHANGED <<epochVars, load, done, mrctid, commits>>
  PROVE  OperationView(w)
<1>1. TxOK(tx[w]) /\ tx[w].scan \in Seq(Keys \X Values)
  BY Typed, TxFields
<1>2. PICK q \in Seq(Keys \X Values) : q = Tail(tx[w].scan)
  BY <1>1, HeadTailProperties
<1>3. PICK t : t = [tx[w] EXCEPT !.scan = q, !.reads = R]
  OBVIOUS
<1>4. tx'[w] = t
  <2>1. tx' = [tx EXCEPT ![w] = t]
    BY <1>2, <1>3
  <2> QED
    BY <2>1, Assign
<1>5. TxOK(t)
  BY <1>1, <1>3 DEF TxOK, TxTypes
<1>6. tx'[w].scan = q /\ tx'[w].ip = tx[w].ip /\ SameSets(w) /\ SameTodo(w) /\ SameControl(w)
  <2>1. t.scan = q /\ t.ip = tx[w].ip /\ t.rset = tx[w].rset /\ t.wset = tx[w].wset
    BY <1>1, <1>3 DEF TxOK, TxTypes
  <2>2. t.todo = tx[w].todo /\ t.expected = tx[w].expected
    BY <1>1, <1>3 DEF TxOK, TxTypes
  <2>3. /\ t.maxR = tx[w].maxR /\ t.maxW = tx[w].maxW /\ t.maxtid = tx[w].maxtid
        /\ t.after = tx[w].after /\ t.conflict = tx[w].conflict
    BY <1>1, <1>3 DEF TxOK, TxTypes
  <2> QED
    BY <1>4, <2>1, <2>2, <2>3 DEF SameSets, SameTodo, SameControl
<1>7. Passes(w)
  BY <1>2, <1>6 DEF Passes
<1> QED
  BY <1>4, <1>5, <1>6, <1>7 DEF OperationView, Pcs

\* A scan passes over a record that is absent.
LEMMA AbsentView ==
  ASSUME TypeOK, NEW w \in Workers,
         tx' = [tx EXCEPT ![w].scan = Tail(@)], tx[w].scan # <<>>,
         pc[w] \in {"load", "recheck", "scan"}, pc'[w] = "scan",
         UNCHANGED store, UNCHANGED <<epochVars, load, done, mrctid, commits>>
  PROVE  OperationView(w)
<1>1. TxOK(tx[w]) /\ tx[w].scan \in Seq(Keys \X Values)
  BY Typed, TxFields
<1>2. PICK q \in Seq(Keys \X Values) : q = Tail(tx[w].scan)
  BY <1>1, HeadTailProperties
<1>3. PICK t : t = [tx[w] EXCEPT !.scan = q]
  OBVIOUS
<1>4. tx'[w] = t
  <2>1. tx' = [tx EXCEPT ![w] = t]
    BY <1>2, <1>3
  <2> QED
    BY <2>1, Assign
<1>5. TxOK(t)
  BY <1>1, <1>3, TxUpdate
<1>6. tx'[w].scan = q /\ tx'[w].ip = tx[w].ip /\ SameSets(w) /\ SameTodo(w) /\ SameControl(w)
  <2>1. t.scan = q /\ t.ip = tx[w].ip /\ t.rset = tx[w].rset /\ t.wset = tx[w].wset
    BY <1>1, <1>3 DEF TxOK, TxTypes
  <2>2. t.todo = tx[w].todo /\ t.expected = tx[w].expected
    BY <1>1, <1>3 DEF TxOK, TxTypes
  <2>3. /\ t.maxR = tx[w].maxR /\ t.maxW = tx[w].maxW /\ t.maxtid = tx[w].maxtid
        /\ t.after = tx[w].after /\ t.conflict = tx[w].conflict
    BY <1>1, <1>3 DEF TxOK, TxTypes
  <2> QED
    BY <1>4, <2>1, <2>2, <2>3 DEF SameSets, SameTodo, SameControl
<1>7. Passes(w)
  BY <1>2, <1>6 DEF Passes
<1> QED
  BY <1>4, <1>5, <1>6, <1>7 DEF OperationView, Pcs

\* read_internal with the TID word of the record it was given.
LEMMA ExpectView ==
  ASSUME TypeOK, Place, NEW w \in Workers, Expect(w, tidword[tx[w].found]),
         pc[w] \in {"load", "recheck"},
         UNCHANGED store, UNCHANGED <<epochVars, load, done, mrctid, commits>>
  PROVE  OperationView(w)
<1>1. TxOK(tx[w])
  BY Typed
<1>2. tidword[tx[w].found] \in Tids
  BY Typed DEF Place, PlaceOf
<1>3. CASE tidword[tx[w].found].absent /\ tx[w].scan = <<>>
  <2>1. OpFails(w)
    BY <1>3 DEF Expect
  <2> QED
    BY <1>3, <2>1, FailsView
<1>4. CASE tidword[tx[w].found].absent /\ tx[w].scan # <<>>
  <2>1. tx' = [tx EXCEPT ![w].scan = Tail(@)] /\ Goto(w, "scan")
    BY <1>4 DEF Expect
  <2>2. pc'[w] = "scan"
    BY <2>1, GotoIs
  <2> QED
    BY <1>4, <2>1, <2>2, AbsentView
<1>5. CASE ~tidword[tx[w].found].absent
  <2>1. tx' = [tx EXCEPT ![w].expected = tidword[tx[w].found]] /\ Goto(w, "recheck")
    BY <1>5 DEF Expect
  <2>2. pc'[w] = "recheck"
    BY <2>1, GotoIs
  <2>3. PICK x \in Tids : x = tidword[tx[w].found]
    BY <1>2
  <2>4. PICK t : t = [tx[w] EXCEPT !.expected = x]
    OBVIOUS
  <2>5. tx'[w] = t
    <3>1. tx' = [tx EXCEPT ![w] = t]
      BY <2>1, <2>3, <2>4
    <3> QED
      BY <3>1, Assign
  <2>6. TxOK(t)
    BY <1>1, <2>4, TxUpdate
  <2>7. /\ tx'[w].expected = x /\ tx'[w].todo = tx[w].todo /\ SameSets(w) /\ SamePlace(w)
        /\ SameControl(w)
    BY <1>1, <2>4, <2>5 DEF TxOK, TxTypes, SameSets, SamePlace, SameControl
  <2>8. Expects(w)
    BY <2>2, <2>3, <2>7 DEF Expects
  <2> QED
    BY <2>2, <2>5, <2>6, <2>7, <2>8 DEF OperationView, Pcs
<1> QED
  BY <1>3, <1>4, <1>5

\* The first load of the TID word in read_internal: wait for the lock or expect the word.
LEMMA LoadTidView ==
  ASSUME TypeOK, Place, NEW w \in Workers, LoadTid(w)
  PROVE  OperationView(w)
<1>1. /\ pc[w] = "load" /\ Expect(w, tidword[tx[w].found])
      /\ UNCHANGED <<epochVars, load, done, mrctid, commits>> /\ UNCHANGED store
  BY DEF LoadTid
<1> QED
  BY <1>1, ExpectView

\* The record goes into the read set.
LEMMA EnterView ==
  ASSUME TypeOK, NEW w \in Workers, NEW k \in Keys, tx[w].found \in Values,
         tidword[tx[w].found] = tx[w].expected, NEW e,
         e = [op |-> "READ", key |-> k, v |-> tx[w].found, tid |-> tidword[tx[w].found]],
         pc[w] = "recheck",
         \/ /\ tx[w].scan = <<>> /\ k = KeyOf(w) /\ pc'[w] = "body"
            /\ tx' = [tx EXCEPT ![w].rset = Append(@, e)]
         \/ /\ tx[w].scan # <<>> /\ k = Head(tx[w].scan)[1] /\ pc'[w] = "scan"
            /\ tx' = [tx EXCEPT ![w].rset = Append(@, e), ![w].scan = Tail(@)],
         UNCHANGED store, UNCHANGED <<epochVars, load, done, mrctid, commits>>
  PROVE  OperationView(w)
<1>1. TxOK(tx[w]) /\ tx[w].scan \in Seq(Keys \X Values) /\ tx[w].rset \in Seq(ReadEntries)
  BY Typed, TxFields
<1>2. e \in ReadEntries
  BY Typed DEF ReadEntries
<1>3. PICK r \in Seq(ReadEntries) : r = Append(tx[w].rset, e)
  BY <1>1, <1>2, AppendProperties
<1>4. PICK q \in Seq(Keys \X Values) : q = IF tx[w].scan = <<>> THEN <<>> ELSE Tail(tx[w].scan)
  <2>1. CASE tx[w].scan = <<>>
    BY <1>1, <2>1
  <2>2. CASE tx[w].scan # <<>>
    BY <1>1, <2>2, HeadTailProperties
  <2> QED
    BY <2>1, <2>2
<1>5. \/ tx[w].scan = <<>> /\ q = <<>> /\ tx'[w] = [tx[w] EXCEPT !.rset = r]
      \/ tx[w].scan # <<>> /\ q = Tail(tx[w].scan) /\ tx'[w] = [tx[w] EXCEPT !.rset = r, !.scan = q]
  <2>1. CASE tx[w].scan = <<>>
    <3>1. tx' = [tx EXCEPT ![w] = [tx[w] EXCEPT !.rset = r]]
      BY <1>3, <2>1
    <3> QED
      BY <1>4, <2>1, <3>1, Assign
  <2>2. CASE tx[w].scan # <<>>
    <3>1. q = Tail(tx[w].scan)
      BY <1>4, <2>2
    <3>2. tx' = [tx EXCEPT ![w] = [tx[w] EXCEPT !.rset = r, !.scan = q]]
      BY <1>3, <2>2, <3>1
    <3> QED
      BY <2>2, <3>1, <3>2, Assign
  <2> QED
    BY <2>1, <2>2
<1>6. PICK t : t = tx'[w]
  OBVIOUS
<1>7. /\ TxOK(t) /\ t.rset = r /\ t.scan = q /\ t.ip = tx[w].ip /\ t.found = tx[w].found
      /\ t.wset = tx[w].wset /\ t.todo = tx[w].todo /\ t.expected = tx[w].expected
      /\ t.maxR = tx[w].maxR /\ t.maxW = tx[w].maxW /\ t.maxtid = tx[w].maxtid
      /\ t.after = tx[w].after /\ t.conflict = tx[w].conflict
  <2>1. CASE tx[w].scan = <<>> /\ q = <<>> /\ t = [tx[w] EXCEPT !.rset = r]
    BY <1>1, <2>1 DEF TxOK, TxTypes
  <2>2. CASE q = Tail(tx[w].scan) /\ t = [tx[w] EXCEPT !.rset = r, !.scan = q]
    BY <1>1, <2>2 DEF TxOK, TxTypes
  <2> QED
    BY <1>5, <1>6, <2>1, <2>2
<1>8. SameControl(w) /\ SameTodo(w) /\ TxOK(tx'[w])
  BY <1>6, <1>7 DEF SameControl, SameTodo
<1>9. Enters(w)
  BY <1>3, <1>5, <1>6, <1>7, <1>8 DEF Enters
<1> QED
  BY <1>8, <1>9 DEF OperationView, Pcs

\* The second load: the word is accepted, expected anew, or its record is absent.
LEMMA RecheckView ==
  ASSUME TypeOK, Place, NEW w \in Workers, Recheck(w)
  PROVE  OperationView(w)
<1> DEFINE check == tidword[tx[w].found]
<1>1. /\ pc[w] = "recheck"
      /\ UNCHANGED <<epochVars, load, done, mrctid, commits>> /\ UNCHANGED store
  BY DEF Recheck
<1>2. PlaceOf(w) /\ TxOK(tx[w])
  BY Typed DEF Place
<1>3. tx[w].found \in Values
  BY <1>1, <1>2 DEF PlaceOf
<1>4. CASE check = tx[w].expected /\ tx[w].scan = <<>>
  <2>1. PICK k \in Keys : k = KeyOf(w)
    BY <1>1, <1>2, KeyType DEF PlaceOf
  <2>2. PICK e : e = [op |-> "READ", key |-> k, v |-> tx[w].found, tid |-> check]
    OBVIOUS
  <2>3. tx' = [tx EXCEPT ![w].rset = Append(@, e)] /\ Goto(w, "body")
    BY <1>4, <2>1, <2>2 DEF Recheck
  <2>4. pc'[w] = "body"
    BY <2>3, GotoIs
  <2> QED
    BY <1>1, <1>3, <1>4, <2>1, <2>2, <2>3, <2>4, EnterView
<1>5. CASE check = tx[w].expected /\ tx[w].scan # <<>>
  <2>1. PICK k \in Keys : k = Head(tx[w].scan)[1]
    <3>1. tx[w].scan \in Seq(Keys \X Values)
      BY <1>2, TxFields
    <3>2. Head(tx[w].scan) \in Keys \X Values
      BY <1>5, <3>1, HeadTailProperties
    <3> QED
      BY <3>2
  <2>2. PICK e : e = [op |-> "READ", key |-> k, v |-> tx[w].found, tid |-> check]
    OBVIOUS
  <2>3. tx' = [tx EXCEPT ![w].rset = Append(@, e), ![w].scan = Tail(@)] /\ Goto(w, "scan")
    BY <1>5, <2>1, <2>2 DEF Recheck
  <2>4. pc'[w] = "scan"
    BY <2>3, GotoIs
  <2> QED
    BY <1>1, <1>3, <1>5, <2>1, <2>2, <2>3, <2>4, EnterView
<1>6. CASE check # tx[w].expected /\ check.lock
  <2>1. tx' = tx /\ Goto(w, "load")
    BY <1>6 DEF Recheck
  <2>2. pc'[w] = "load"
    BY <2>1, GotoIs
  <2>3. tx'[w] = tx[w]
    BY <2>1
  <2>4. SameSets(w) /\ SamePlace(w) /\ SameTodo(w) /\ SameControl(w) /\ TxOK(tx'[w])
    BY <1>2, <2>3 DEF SameSets, SamePlace, SameTodo, SameControl
  <2> QED
    BY <1>1, <2>2, <2>4 DEF OperationView, Reloads, Pcs
<1>7. CASE check # tx[w].expected /\ ~check.lock
  <2>1. Expect(w, tidword[tx[w].found])
    BY <1>7 DEF Recheck
  <2> QED
    BY <1>1, <2>1, ExpectView
<1> QED
  BY <1>4, <1>5, <1>6, <1>7

\* scan takes the records of its range from the tree.
LEMMA ScanView ==
  ASSUME TypeOK, Place, NEW w \in Workers, Scan(w)
  PROVE  OperationView(w)
<1>1. pc[w] = "op" /\ tx[w].ip <= Len(Program(w))
  BY DEF Scan, Doing
<1>2. UNCHANGED <<epochVars, load, done, mrctid, commits>> /\ UNCHANGED store
  BY DEF Scan
<1>3. PICK K \in SUBSET Keys : K = {j \in Keys : /\ KeyOf(w) <= j /\ j <= Program(w)[tx[w].ip].to
                                                 /\ tree[j] # NULL}
  OBVIOUS
<1>4. PICK S : S = {<<k, tree[k]>> : k \in K}
  OBVIOUS
<1>5. /\ tx' = [tx EXCEPT ![w].scan = InOrder(S), ![w].bodies = Len(tx[w].rset)]
      /\ Goto(w, "scan")
  BY <1>3, <1>4 DEF Scan
<1>6. TxOK(tx[w]) /\ Len(tx[w].rset) \in Nat
  BY Typed, TxFields
<1>7. /\ InOrder(S) \in Seq(Keys \X Values)
      /\ \A i \in 1 .. Len(InOrder(S)) : \E j \in K : InOrder(S)[i] = <<j, tree[j]>>
  <2>1. tree \in [Keys -> Values \cup {NULL}] /\ \A k \in K : tree[k] # NULL
    BY <1>3, Typed
  <2> QED
    BY <1>4, <2>1, ScanListed
<1>8. PICK q \in Seq(Keys \X Values) : q = InOrder(S)
  BY <1>7
<1>9. PICK n \in Nat : n = Len(tx[w].rset)
  BY <1>6
<1>10. PICK t : t = [tx[w] EXCEPT !.scan = q, !.bodies = n]
  OBVIOUS
<1>11. tx'[w] = t
  <2>1. tx' = [tx EXCEPT ![w] = t]
    BY <1>5, <1>8, <1>9, <1>10
  <2> QED
    BY <2>1, Assign
<1>12. TxOK(t) /\ t.scan = q
  BY <1>6, <1>10 DEF TxOK, TxTypes
<1>13. tx'[w].ip = tx[w].ip /\ SameSets(w) /\ SameTodo(w) /\ SameControl(w)
  BY <1>6, <1>10, <1>11 DEF TxOK, TxTypes, SameSets, SameTodo, SameControl
<1>14. \A i \in 1 .. Len(q) : q[i][1] \in Keys /\ q[i][2] = tree[q[i][1]]
  <2> SUFFICES ASSUME NEW i \in 1 .. Len(q) PROVE q[i][1] \in Keys /\ q[i][2] = tree[q[i][1]]
    OBVIOUS
  <2>1. PICK j \in K : q[i] = <<j, tree[j]>>
    BY <1>7, <1>8
  <2>2. q[i][1] = j /\ q[i][2] = tree[j]
    BY <2>1
  <2> QED
    BY <1>3, <2>2
<1>15. pc'[w] = "scan"
  BY <1>5, GotoIs
<1>16. Scans(w)
  BY <1>1, <1>2, <1>11, <1>12, <1>13, <1>14, <1>15 DEF Scans
<1> QED
  BY <1>2, <1>11, <1>12, <1>13, <1>15, <1>16 DEF OperationView, Pcs

\* scan answers one record from its own sets, or goes to read_internal with it.
LEMMA ScanRecordView ==
  ASSUME TypeOK, Place, NEW w \in Workers, ScanRecord(w)
  PROVE  OperationView(w)
<1>1. /\ pc[w] = "scan" /\ tx[w].scan # <<>>
      /\ UNCHANGED <<epochVars, load, done, mrctid, commits>> /\ UNCHANGED store
  BY DEF ScanRecord
<1>2. TxOK(tx[w]) /\ tx[w].scan \in Seq(Keys \X Values) /\ tx[w].reads \in Reports
  BY Typed, TxFields
<1>3. Head(tx[w].scan) \in Keys \X Values
  BY <1>1, <1>2, HeadTailProperties
<1>4. PICK k \in Keys : k = Head(tx[w].scan)[1]
  BY <1>3
<1>5. ASSUME NEW x \in Bodies,
             tx' = [tx EXCEPT ![w].scan = Tail(@), ![w].reads = @ \cup {<<k, x>>}], UNCHANGED pc
      PROVE  OperationView(w)
  <2>0. <<k, x>> \in Keys \X Bodies
    OBVIOUS
  <2>1. PICK R \in Reports : R = tx[w].reads \cup {<<k, x>>}
    BY <1>2, <2>0 DEF Reports
  <2>2. tx' = [tx EXCEPT ![w].scan = Tail(@), ![w].reads = R]
    BY <1>5, <2>1
  <2>3. pc'[w] = "scan"
    BY <1>1, <1>5
  <2> QED
    BY <1>1, <2>2, <2>3, PassView
<1>6. CASE ReadsOf(w, k) # {}
  <2>1. PICK x : x = body[LookUp(w, k)]
    OBVIOUS
  <2>2. tx' = [tx EXCEPT ![w].scan = Tail(@), ![w].reads = @ \cup {<<k, x>>}] /\ UNCHANGED pc
    BY <1>4, <1>6, <2>1 DEF ScanRecord
  <2>3. LookUp(w, k) \in Values
    <3>1. tx[w].rset \in Seq(ReadEntries) /\ ReadsOf(w, k) \in SUBSET Nat
          /\ ReadsOf(w, k) \subseteq 1 .. Len(tx[w].rset)
      BY <1>2, TxFields DEF ReadsOf
    <3>2. Least(ReadsOf(w, k)) \in 1 .. Len(tx[w].rset)
      BY <1>6, <3>1, LeastExists DEF Least
    <3>3. tx[w].rset[Least(ReadsOf(w, k))] \in ReadEntries
      BY <3>1, <3>2
    <3> QED
      BY <1>6, <3>3 DEF LookUp, ReadEntries
  <2>4. x \in Bodies
    BY <2>1, <2>3, Typed
  <2> QED
    BY <1>5, <2>2, <2>4
<1>7. CASE ReadsOf(w, k) = {} /\ InWriteSet(w, k)
  <2>1. PICK x : x = Me(w)
    OBVIOUS
  <2>2. tx' = [tx EXCEPT ![w].scan = Tail(@), ![w].reads = @ \cup {<<k, x>>}] /\ UNCHANGED pc
    BY <1>4, <1>7, <2>1 DEF ScanRecord
  <2>3. done[w] + 1 \in Nat
    BY Typed
  <2>4. x \in Bodies
    BY <2>1, <2>3 DEF Me, Bodies
  <2> QED
    BY <1>5, <2>2, <2>4
<1>8. CASE ReadsOf(w, k) = {} /\ ~InWriteSet(w, k)
  <2>1. PICK v \in Values : v = Head(tx[w].scan)[2]
    BY <1>3
  <2>2. tx' = [tx EXCEPT ![w].found = v] /\ Goto(w, "load")
    BY <1>4, <1>8, <2>1 DEF ScanRecord
  <2>3. pc'[w] = "load"
    BY <2>2, GotoIs
  <2> QED
    BY <1>1, <2>1, <2>2, <2>3, FoundView
<1> QED
  BY <1>6, <1>7, <1>8

\* The bodies of a scan are reported after its last record.
LEMMA ScanBodiesView ==
  ASSUME TypeOK, Place, NEW w \in Workers, ScanBodies(w)
  PROVE  OperationView(w)
<1>1. /\ pc[w] = "scan" /\ tx[w].scan = <<>>
      /\ UNCHANGED <<epochVars, load, done, mrctid, commits>> /\ UNCHANGED store
  BY DEF ScanBodies
<1>2. /\ TxOK(tx[w]) /\ tx[w].rset \in Seq(ReadEntries) /\ tx[w].reads \in Reports
      /\ tx[w].bodies \in Nat /\ Len(tx[w].rset) \in Nat
  BY Typed, TxFields
<1>3. CASE tx[w].bodies < Len(tx[w].rset)
  <2>1. tx[w].bodies + 1 \in 1 .. Len(tx[w].rset)
    BY <1>2, <1>3
  <2>2. PICK r \in ReadEntries : r = tx[w].rset[tx[w].bodies + 1]
    BY <1>2, <2>1
  <2>3. r.key \in Keys /\ r.v \in Values
    BY DEF ReadEntries
  <2>4. <<r.key, body[r.v]>> \in Keys \X Bodies
    BY <2>3, Typed
  <2>5. PICK R \in Reports : R = tx[w].reads \cup {<<r.key, body[r.v]>>}
    BY <1>2, <2>4 DEF Reports
  <2>6. PICK n \in Nat : n = tx[w].bodies + 1
    BY <1>2
  <2>7. PICK t : t = [tx[w] EXCEPT !.bodies = n, !.reads = R]
    OBVIOUS
  <2>8. tx' = [tx EXCEPT ![w].bodies = @ + 1, ![w].reads = @ \cup {<<r.key, body[r.v]>>}] /\ UNCHANGED pc
    BY <1>3, <2>2 DEF ScanBodies
  <2>9. tx'[w] = t
    <3>1. tx' = [tx EXCEPT ![w] = t]
      BY <2>5, <2>6, <2>7, <2>8
    <3> QED
      BY <3>1, Assign
  <2>10. TxOK(t)
    BY <1>2, <2>7 DEF TxOK, TxTypes
  <2>11. SameSets(w) /\ SamePlace(w) /\ SameTodo(w) /\ SameControl(w)
    BY <1>2, <2>7, <2>9 DEF TxOK, TxTypes, SameSets, SamePlace, SameTodo, SameControl
  <2> QED
    BY <1>1, <2>8, <2>9, <2>10, <2>11 DEF OperationView, Collects, Pcs
<1>4. CASE ~(tx[w].bodies < Len(tx[w].rset))
  <2>1. tx' = [tx EXCEPT ![w].ip = @ + 1] /\ Goto(w, "op")
    BY <1>4 DEF ScanBodies
  <2>2. pc'[w] = "op"
    BY <2>1, GotoIs
  <2> QED
    BY <1>1, <2>1, <2>2, IpView
<1> QED
  BY <1>3, <1>4

\* Every step of an operation is one of these kinds.
LEMMA OperationViews ==
  ASSUME TypeOK, Place, NEW w \in Workers, OperationStep(w)
  PROVE  OperationView(w)
BY InsertView, WriteView, ReadView, LoadTidView, RecheckView, ReadBodyView, ScanView,
   ScanRecordView, ScanBodiesView DEF OperationStep

-----------------------------------------------------------------------------
(* What validation, commit and abort do                                    *)

SameMax(w) == tx'[w].maxR = tx[w].maxR /\ tx'[w].maxW = tx[w].maxW /\ tx'[w].maxtid = tx[w].maxtid

\* The write set as it is locked, unlocked and stored: key by key.
LEMMA FirstKey ==
  ASSUME TypeOK, Place, NEW w \in Workers, tx[w].todo # {}
  PROVE  /\ Least(tx[w].todo) \in tx[w].todo
         /\ Least(tx[w].todo) \in Keys
         /\ \A j \in tx[w].todo : Least(tx[w].todo) <= j
         /\ Least(tx[w].todo) \in DOMAIN tx[w].wset
         /\ tx[w].wset[Least(tx[w].todo)] \in WriteEntries
         /\ tx[w].wset[Least(tx[w].todo)].v \in Values
         /\ tidword[tx[w].wset[Least(tx[w].todo)].v] \in Tids
<1>1. TxOK(tx[w]) /\ tidword \in [Values -> Tids]
  BY Typed
<1>2. tx[w].todo \in SUBSET Keys /\ tx[w].wset \in [DOMAIN tx[w].wset -> WriteEntries]
  BY <1>1, TxFields
<1>3. Least(tx[w].todo) \in tx[w].todo /\ \A j \in tx[w].todo : Least(tx[w].todo) <= j
  BY <1>2, LeastIn
<1>4. Least(tx[w].todo) \in DOMAIN tx[w].wset
  BY <1>3 DEF Place, PlaceOf
<1>5. tx[w].wset[Least(tx[w].todo)] \in WriteEntries
  BY <1>2, <1>4
<1>6. tx[w].wset[Least(tx[w].todo)].v \in Values
  BY <1>5 DEF WriteEntries
<1> QED
  BY <1>1, <1>2, <1>3, <1>4, <1>5, <1>6

\* An assignment to todo alone.
LEMMA TodoView ==
  ASSUME TypeOK, NEW w \in Workers, NEW S \in SUBSET Keys, tx' = [tx EXCEPT ![w].todo = S]
  PROVE  /\ TxOK(tx'[w]) /\ tx'[w].todo = S /\ tx'[w].expected = tx[w].expected
         /\ SameSets(w) /\ SamePlace(w) /\ SameControl(w)
<1>1. TxOK(tx[w])
  BY Typed
<1>2. PICK t : t = [tx[w] EXCEPT !.todo = S]
  OBVIOUS
<1>3. tx'[w] = t
  <2>1. tx' = [tx EXCEPT ![w] = t]
    BY <1>2
  <2> QED
    BY <2>1, Assign
<1>4. TxOK(t)
  BY <1>1, <1>2, TxUpdate
<1>5. t.todo = S /\ t.expected = tx[w].expected /\ SameSets(w) /\ SamePlace(w)
  BY <1>1, <1>2, <1>3 DEF TxOK, TxTypes, SameSets, SamePlace
<1>6. SameControl(w)
  BY <1>1, <1>2, <1>3 DEF TxOK, TxTypes, SameControl
<1> QED
  BY <1>3, <1>4, <1>5, <1>6

\* validationPhase begins with every record that lockWriteSet has to lock.
LEMMA StartValidationView ==
  ASSUME TypeOK, NEW w \in Workers, StartValidation(w)
  PROVE  /\ TxOK(tx'[w]) /\ SameSets(w) /\ SamePlace(w) /\ SameControl(w)
         /\ tx'[w].todo = Lockable(tx[w].wset) /\ tx'[w].expected = tx[w].expected
         /\ pc[w] = "op" /\ pc'[w] = "lock"
         /\ UNCHANGED <<epochVars, load, done, mrctid, store, commits>>
<1>1. PICK S \in SUBSET Keys : S = Lockable(tx[w].wset)
  BY Typed, InsertedKeys
<1>2. tx' = [tx EXCEPT ![w].todo = S]
  BY <1>1 DEF StartValidation
<1>3. pc'[w] = "lock"
  BY GotoIs DEF StartValidation
<1> QED
  BY <1>1, <1>2, <1>3, TodoView DEF StartValidation

\* lockWriteSet meets a lock: it sets out to unlock the records before it.
LEMMA LockConflictView ==
  ASSUME TypeOK, Place, NEW w \in Workers, LockOne(w), NEW k, k = Least(tx[w].todo),
         tidword[tx[w].wset[k].v].lock
  PROVE  /\ TxOK(tx'[w]) /\ SameSets(w) /\ SamePlace(w) /\ SameMax(w)
         /\ tx'[w].todo = {j \in Lockable(tx[w].wset) : j < k} /\ tx'[w].expected = tx[w].expected
         /\ tx'[w].after = "epoch" /\ tx'[w].conflict = TRUE
         /\ pc[w] = "lock" /\ pc'[w] = "unlock" /\ tx[w].todo # {}
         /\ UNCHANGED <<epochVars, load, done, mrctid, store, commits>>
<1>1. TxOK(tx[w]) /\ Lockable(tx[w].wset) \in SUBSET Keys
  BY Typed, InsertedKeys
<1>2. PICK S \in SUBSET Keys : S = {j \in Lockable(tx[w].wset) : j < k}
  BY <1>1
<1>3. PICK t : t = [tx[w] EXCEPT !.conflict = TRUE, !.todo = S, !.after = "epoch"]
  OBVIOUS
<1>4. /\ tx' = [tx EXCEPT ![w].conflict = TRUE, ![w].todo = S, ![w].after = "epoch"]
      /\ pc[w] = "lock" /\ Goto(w, "unlock") /\ tx[w].todo # {}
      /\ UNCHANGED <<epochVars, load, done, mrctid, store, commits>>
  BY <1>2 DEF LockOne, store
<1>5. tx'[w] = t
  <2>1. tx' = [tx EXCEPT ![w] = t]
    BY <1>3, <1>4
  <2> QED
    BY <2>1, Assign
<1>6. TxOK(t)
  BY <1>1, <1>3 DEF TxOK, TxTypes
<1>7. /\ SameSets(w) /\ SamePlace(w) /\ SameMax(w) /\ tx'[w].todo = S
      /\ tx'[w].expected = tx[w].expected /\ tx'[w].after = "epoch" /\ tx'[w].conflict = TRUE
  BY <1>1, <1>3, <1>5 DEF TxOK, TxTypes, SameSets, SamePlace, SameMax
<1>8. pc'[w] = "unlock"
  BY <1>4, GotoIs
<1> QED
  BY <1>2, <1>4, <1>5, <1>6, <1>7, <1>8

\* The worker locks the Value v of key k.
Takes(w, k, v) ==
  /\ TxOK(tx'[w]) /\ SameSets(w) /\ SamePlace(w)
  /\ tx'[w].todo = tx[w].todo \ {k} /\ tx'[w].expected = tx[w].expected
  /\ tx'[w].maxW = MaxTid(tx[w].maxW, tidword[v])
  /\ tx'[w].maxR = tx[w].maxR /\ tx'[w].maxtid = tx[w].maxtid
  /\ tx'[w].after = tx[w].after /\ tx'[w].conflict = tx[w].conflict
  /\ pc[w] = "lock" /\ pc'[w] = "lock" /\ tx[w].todo # {}
  /\ tidword' = [tidword EXCEPT ![v].lock = TRUE]
  /\ UNCHANGED <<epochVars, load, done, mrctid, tree, body, freed, commits>>

\* A record that is not locked is locked with the load and CAS of lockWriteSet.
LEMMA LockView ==
  ASSUME TypeOK, Place, NEW w \in Workers, LockOne(w), NEW k, k = Least(tx[w].todo),
         NEW v, v = tx[w].wset[k].v, ~tidword[v].lock
  PROVE  Takes(w, k, v)
<1>1. TxOK(tx[w]) /\ tx[w].todo \in SUBSET Keys /\ tx[w].maxW \in Tids
  BY Typed, TxFields
<1>2. /\ tx' = [tx EXCEPT ![w].todo = @ \ {k}, ![w].maxW = MaxTid(@, tidword[v])]
      /\ pc[w] = "lock" /\ UNCHANGED pc /\ tx[w].todo # {}
      /\ tidword' = [tidword EXCEPT ![v].lock = TRUE]
      /\ UNCHANGED <<epochVars, load, done, mrctid, tree, body, freed, commits>>
  BY DEF LockOne
<1>3. tidword[v] \in Tids
  BY <1>2, FirstKey
<1>4. PICK m \in Tids : m = MaxTid(tx[w].maxW, tidword[v])
  BY <1>1, <1>3, MaxTidIsLarger
<1>5. PICK S \in SUBSET Keys : S = tx[w].todo \ {k}
  BY <1>1
<1>6. PICK t : t = [tx[w] EXCEPT !.todo = S, !.maxW = m]
  OBVIOUS
<1>7. tx'[w] = t
  <2>1. tx' = [tx EXCEPT ![w] = t]
    BY <1>2, <1>4, <1>5, <1>6
  <2> QED
    BY <2>1, Assign
<1>8. TxOK(t)
  BY <1>1, <1>6 DEF TxOK, TxTypes
<1>9. /\ SameSets(w) /\ SamePlace(w) /\ tx'[w].todo = S /\ tx'[w].maxW = m
      /\ tx'[w].expected = tx[w].expected /\ tx'[w].maxR = tx[w].maxR /\ tx'[w].maxtid = tx[w].maxtid
      /\ tx'[w].after = tx[w].after /\ tx'[w].conflict = tx[w].conflict
  BY <1>1, <1>6, <1>7 DEF TxOK, TxTypes, SameSets, SamePlace
<1> QED
  BY <1>2, <1>4, <1>5, <1>7, <1>8, <1>9 DEF Takes

\* unlockWriteSet loads a TID word.
LEMMA UnlockLoadView ==
  ASSUME TypeOK, Place, NEW w \in Workers, UnlockLoad(w)
  PROVE  /\ TxOK(tx'[w]) /\ SameSets(w) /\ SamePlace(w) /\ SameControl(w)
         /\ tx'[w].todo = tx[w].todo
         /\ tx'[w].expected = tidword[tx[w].wset[Least(tx[w].todo)].v]
         /\ pc[w] = "unlock" /\ pc'[w] = "unlockstore" /\ tx[w].todo # {}
         /\ UNCHANGED <<epochVars, load, done, mrctid, store, commits>>
<1>1. TxOK(tx[w])
  BY Typed
<1>2. /\ pc[w] = "unlock" /\ Goto(w, "unlockstore") /\ tx[w].todo # {}
      /\ UNCHANGED <<epochVars, load, done, mrctid, store, commits>>
  BY DEF UnlockLoad
<1>3. PICK x \in Tids : x = tidword[tx[w].wset[Least(tx[w].todo)].v]
  BY <1>2, FirstKey
<1>4. PICK t : t = [tx[w] EXCEPT !.expected = x]
  OBVIOUS
<1>5. tx'[w] = t
  <2>1. tx' = [tx EXCEPT ![w] = t]
    BY <1>3, <1>4 DEF UnlockLoad
  <2> QED
    BY <2>1, Assign
<1>6. TxOK(t)
  BY <1>1, <1>4, TxUpdate
<1>7. /\ SameSets(w) /\ SamePlace(w) /\ SameControl(w) /\ tx'[w].todo = tx[w].todo
      /\ tx'[w].expected = x
  BY <1>1, <1>4, <1>5 DEF TxOK, TxTypes, SameSets, SamePlace, SameControl
<1>8. pc'[w] = "unlockstore"
  BY <1>2, GotoIs
<1> QED
  BY <1>2, <1>3, <1>5, <1>6, <1>7, <1>8

\* unlockWriteSet stores the word it loaded, without the lock bit.
LEMMA UnlockStoreView ==
  ASSUME TypeOK, Place, NEW w \in Workers, UnlockStore(w)
  PROVE  /\ TxOK(tx'[w]) /\ SameSets(w) /\ SamePlace(w) /\ SameControl(w)
         /\ tx'[w].todo = tx[w].todo \ {Least(tx[w].todo)} /\ tx'[w].expected = tx[w].expected
         /\ pc[w] = "unlockstore" /\ pc'[w] = "unlock" /\ tx[w].todo # {}
         /\ tidword' = [tidword EXCEPT ![tx[w].wset[Least(tx[w].todo)].v] =
                                         [tx[w].expected EXCEPT !.lock = FALSE]]
         /\ UNCHANGED <<epochVars, load, done, mrctid, tree, body, freed, commits>>
<1>1. TxOK(tx[w]) /\ tx[w].todo \in SUBSET Keys
  BY Typed, TxFields
<1>2. PICK S \in SUBSET Keys : S = tx[w].todo \ {Least(tx[w].todo)}
  BY <1>1
<1>3. tx' = [tx EXCEPT ![w].todo = S]
  BY <1>2 DEF UnlockStore
<1>4. pc[w] = "unlockstore" /\ pc'[w] = "unlock"
  BY GotoIs DEF UnlockStore
<1>5. tx[w].todo # {}
  BY <1>4 DEF Place, PlaceOf
<1>6. /\ tidword' = [tidword EXCEPT ![tx[w].wset[Least(tx[w].todo)].v] =
                                      [tx[w].expected EXCEPT !.lock = FALSE]]
      /\ UNCHANGED <<epochVars, load, done, mrctid, tree, body, freed, commits>>
  BY DEF UnlockStore
<1> QED
  BY <1>2, <1>3, <1>4, <1>5, <1>6, TodoView

\* The end of unlockWriteSet: on to abort, or back to validation after a conflict.
LEMMA UnlockedView ==
  ASSUME TypeOK, NEW w \in Workers, Unlocked(w)
  PROVE  /\ TxOK(tx'[w]) /\ SameSets(w) /\ SamePlace(w) /\ SameControl(w)
         /\ tx'[w].expected = tx[w].expected
         /\ pc[w] = "unlock" /\ tx[w].todo = {}
         /\ \/ tx[w].after = "abort" /\ tx'[w].todo = Inserted(tx[w].wset) /\ pc'[w] = "abort"
            \/ tx[w].after # "abort" /\ tx'[w].todo = {} /\ pc'[w] = "lock"
         /\ UNCHANGED <<epochVars, load, done, mrctid, store, commits>>
<1>1. Inserted(tx[w].wset) \in SUBSET Keys
  BY Typed, InsertedKeys
<1>2. PICK S \in SUBSET Keys : S = IF tx[w].after = "abort" THEN Inserted(tx[w].wset) ELSE {}
  BY <1>1
<1>3. /\ tx' = [tx EXCEPT ![w].todo = S] /\ pc[w] = "unlock" /\ tx[w].todo = {}
      /\ UNCHANGED <<epochVars, load, done, mrctid, store, commits>>
  BY <1>2 DEF Unlocked
<1>4. pc'[w] = IF tx[w].after = "abort" THEN "abort" ELSE "lock"
  BY GotoIs DEF Unlocked
<1>5. /\ TxOK(tx'[w]) /\ tx'[w].todo = S /\ tx'[w].expected = tx[w].expected
      /\ SameSets(w) /\ SamePlace(w) /\ SameControl(w)
  BY <1>3, TodoView
<1> QED
  BY <1>2, <1>3, <1>4, <1>5

\* Between the phases the worker takes the global epoch for its own.
LEMMA TakeEpochView ==
  ASSUME TypeOK, NEW w \in Workers, TakeEpoch(w)
  PROVE  /\ tx' = tx /\ pc[w] = "lock" /\ pc'[w] = "validate" /\ tx[w].todo = {}
         /\ ThLocalEpoch' = [ThLocalEpoch EXCEPT ![w] = GlobalEpoch]
         /\ UNCHANGED <<GlobalEpoch, load, done, mrctid, store, commits>>
BY GotoIs DEF TakeEpoch

\* A read that fails validation: everything is unlocked before the abort.
LEMMA RejectView ==
  ASSUME TypeOK, NEW w \in Workers, ValidateOne(w), NEW r, r = tx[w].rset[tx[w].itr],
         Rejected(w, r, tidword[r.v])
  PROVE  /\ TxOK(tx'[w]) /\ SameSets(w) /\ SamePlace(w) /\ SameMax(w)
         /\ tx'[w].expected = tx[w].expected /\ tx'[w].conflict = tx[w].conflict
         /\ tx'[w].todo = Lockable(tx[w].wset) /\ tx'[w].after = "abort"
         /\ pc[w] = "validate" /\ pc'[w] = "unlock"
         /\ UNCHANGED <<epochVars, load, done, mrctid, store, commits>>
<1>1. TxOK(tx[w])
  BY Typed
<1>2. PICK S \in SUBSET Keys : S = Lockable(tx[w].wset)
  BY <1>1, InsertedKeys
<1>3. /\ tx' = [tx EXCEPT ![w].todo = S, ![w].after = "abort"] /\ pc[w] = "validate"
      /\ Goto(w, "unlock") /\ UNCHANGED <<epochVars, load, done, mrctid, store, commits>>
  BY <1>2 DEF ValidateOne
<1>4. PICK t : t = [tx[w] EXCEPT !.todo = S, !.after = "abort"]
  OBVIOUS
<1>5. tx'[w] = t
  <2>1. tx' = [tx EXCEPT ![w] = t]
    BY <1>3, <1>4
  <2> QED
    BY <2>1, Assign
<1>6. TxOK(t)
  BY <1>1, <1>4 DEF TxOK, TxTypes
<1>7. /\ SameSets(w) /\ SamePlace(w) /\ SameMax(w) /\ tx'[w].todo = S /\ tx'[w].after = "abort"
      /\ tx'[w].expected = tx[w].expected /\ tx'[w].conflict = tx[w].conflict
  BY <1>1, <1>4, <1>5 DEF TxOK, TxTypes, SameSets, SamePlace, SameMax
<1>8. pc'[w] = "unlock"
  BY <1>3, GotoIs
<1> QED
  BY <1>2, <1>3, <1>5, <1>6, <1>7, <1>8

\* A read that passes validation contributes its TID word to the largest one read.
LEMMA AcceptView ==
  ASSUME TypeOK, NEW w \in Workers, ValidateOne(w), NEW r, r = tx[w].rset[tx[w].itr],
         ~Rejected(w, r, tidword[r.v])
  PROVE  /\ TxOK(tx'[w]) /\ SameSets(w) /\ SamePlace(w) /\ SameTodo(w)
         /\ tx'[w].maxR = MaxTid(tx[w].maxR, tidword[r.v]) /\ tidword[r.v] \in Tids
         /\ tx'[w].maxW = tx[w].maxW /\ tx'[w].maxtid = tx[w].maxtid
         /\ tx'[w].after = tx[w].after /\ tx'[w].conflict = tx[w].conflict
         /\ tx[w].itr \in 1 .. Len(tx[w].rset)
         /\ pc[w] = "validate" /\ pc'[w] = "validate"
         /\ UNCHANGED <<epochVars, load, done, mrctid, store, commits>>
<1>1. /\ TxOK(tx[w]) /\ tx[w].maxR \in Tids /\ tx[w].itr \in Nat \ {0}
      /\ tx[w].rset \in Seq(ReadEntries)
  BY Typed, TxFields
<1>2. /\ tx' = [tx EXCEPT ![w].itr = @ + 1, ![w].maxR = MaxTid(@, tidword[r.v])]
      /\ pc[w] = "validate" /\ UNCHANGED pc /\ tx[w].itr <= Len(tx[w].rset)
      /\ UNCHANGED <<epochVars, load, done, mrctid, store, commits>>
  BY DEF ValidateOne
<1>3. tx[w].itr \in 1 .. Len(tx[w].rset)
  BY <1>1, <1>2
<1>4. r \in ReadEntries
  BY <1>1, <1>3
<1>5. r.v \in Values
  BY <1>4 DEF ReadEntries
<1>6. tidword[r.v] \in Tids
  BY <1>5, Typed
<1>7. PICK m \in Tids : m = MaxTid(tx[w].maxR, tidword[r.v])
  BY <1>1, <1>6, MaxTidIsLarger
<1>8. PICK n \in Nat \ {0} : n = tx[w].itr + 1
  BY <1>1
<1>9. PICK t : t = [tx[w] EXCEPT !.itr = n, !.maxR = m]
  OBVIOUS
<1>10. tx'[w] = t
  <2>1. tx' = [tx EXCEPT ![w] = t]
    BY <1>2, <1>7, <1>8, <1>9
  <2> QED
    BY <2>1, Assign
<1>11. TxOK(t)
  BY <1>1, <1>9 DEF TxOK, TxTypes
<1>12. /\ SameSets(w) /\ SamePlace(w) /\ SameTodo(w) /\ tx'[w].maxR = m
       /\ tx'[w].maxW = tx[w].maxW /\ tx'[w].maxtid = tx[w].maxtid
       /\ tx'[w].after = tx[w].after /\ tx'[w].conflict = tx[w].conflict
  BY <1>1, <1>9, <1>10 DEF TxOK, TxTypes, SameSets, SamePlace, SameTodo
<1> QED
  BY <1>2, <1>3, <1>6, <1>7, <1>10, <1>11, <1>12

\* The commit chooses the TID and makes the whole write set due to be written.
LEMMA CommitView ==
  ASSUME TypeOK, NEW w \in Workers, Commit(w)
  PROVE  /\ TxOK(tx'[w]) /\ SameSets(w) /\ SamePlace(w)
         /\ tx'[w].expected = tx[w].expected /\ tx'[w].maxR = tx[w].maxR /\ tx'[w].maxW = tx[w].maxW
         /\ tx'[w].after = tx[w].after /\ tx'[w].conflict = tx[w].conflict
         /\ tx'[w].todo = DOMAIN tx[w].wset
         /\ tx'[w].maxtid = CommitTid(w) /\ CommitTid(w) \in Tids
         /\ mrctid' = [mrctid EXCEPT ![w] = CommitTid(w)]
         /\ pc[w] = "validate" /\ pc'[w] = "write"
         /\ UNCHANGED <<epochVars, load, done, store>>
<1>1. TxOK(tx[w]) /\ tx[w].maxR \in Tids /\ tx[w].maxW \in Tids /\ DOMAIN tx[w].wset \subseteq Keys
  BY Typed, TxFields
<1>2. mrctid[w] \in Tids /\ ThLocalEpoch[w] \in Nat
  BY DEF TypeOK, WorkerTypes
<1>3. PICK m \in Tids : m = CommitTid(w)
  BY <1>1, <1>2, CommitTidIsLargest
<1>4. PICK S \in SUBSET Keys : S = DOMAIN tx[w].wset
  BY <1>1
<1>5. /\ tx' = [tx EXCEPT ![w].maxtid = m, ![w].todo = S]
      /\ mrctid' = [mrctid EXCEPT ![w] = CommitTid(w)]
      /\ pc[w] = "validate" /\ Goto(w, "write") /\ UNCHANGED <<epochVars, load, done, store>>
  BY <1>3, <1>4 DEF Commit
<1>6. PICK t : t = [tx[w] EXCEPT !.maxtid = m, !.todo = S]
  OBVIOUS
<1>7. tx'[w] = t
  <2>1. tx' = [tx EXCEPT ![w] = t]
    BY <1>5, <1>6
  <2> QED
    BY <2>1, Assign
<1>8. TxOK(t)
  BY <1>1, <1>6 DEF TxOK, TxTypes
<1>9. /\ SameSets(w) /\ SamePlace(w) /\ tx'[w].todo = S /\ tx'[w].maxtid = m
      /\ tx'[w].expected = tx[w].expected /\ tx'[w].maxR = tx[w].maxR /\ tx'[w].maxW = tx[w].maxW
      /\ tx'[w].after = tx[w].after /\ tx'[w].conflict = tx[w].conflict
  BY <1>1, <1>6, <1>7 DEF TxOK, TxTypes, SameSets, SamePlace
<1>10. pc'[w] = "write"
  BY <1>5, GotoIs
<1> QED
  BY <1>3, <1>4, <1>5, <1>7, <1>8, <1>9, <1>10

\* writePhase begins to assign a record's body.
LEMMA WriteBodyView ==
  ASSUME TypeOK, NEW w \in Workers, WriteBody(w)
  PROVE  /\ tx' = tx /\ pc[w] = "write" /\ pc'[w] = "writing" /\ tx[w].todo # {}
         /\ body' = [body EXCEPT ![tx[w].wset[Least(tx[w].todo)].v] = TORN]
         /\ UNCHANGED <<epochVars, load, done, mrctid, tree, tidword, freed, commits>>
BY GotoIs DEF WriteBody

\* writePhase finishes a body and stores the TID word, which unlocks the record.
LEMMA StoreTidView ==
  ASSUME TypeOK, Place, NEW w \in Workers, StoreTid(w), NEW k, k = Least(tx[w].todo)
  PROVE  /\ TxOK(tx'[w]) /\ SameSets(w) /\ SamePlace(w)
         /\ tx'[w].expected = tx[w].expected /\ tx'[w].maxR = tx[w].maxR /\ tx'[w].maxW = tx[w].maxW
         /\ tx'[w].after = tx[w].after /\ tx'[w].conflict = tx[w].conflict
         /\ tx'[w].todo = tx[w].todo \ {k} /\ tx[w].todo # {}
         /\ \E m \in Tids : /\ m.epoch = tx[w].maxtid.epoch /\ m.tid = tx[w].maxtid.tid
                            /\ m.lock = tx[w].maxtid.lock
                            /\ tx'[w].maxtid = m
                            /\ tidword' = [tidword EXCEPT ![tx[w].wset[k].v] = m]
         /\ body' = body \/ body' = [body EXCEPT ![tx[w].wset[k].v] = Me(w)]
         /\ pc[w] \in {"write", "writing"} /\ pc'[w] = "write"
         /\ UNCHANGED <<epochVars, load, done, mrctid, tree, freed, commits>>
<1>1. TxOK(tx[w]) /\ tx[w].maxtid \in Tids /\ tx[w].todo \in SUBSET Keys
  BY Typed, TxFields
<1>2. PICK a : a = (IF tx[w].wset[k].op = "WRITE" THEN tx[w].maxtid.absent ELSE tx[w].wset[k].op = "DELETE")
  OBVIOUS
<1>3. a \in BOOLEAN
  BY <1>1, <1>2 DEF Tids
<1>4. PICK m : m = [tx[w].maxtid EXCEPT !.absent = a]
  OBVIOUS
<1>5. m \in Tids /\ m.epoch = tx[w].maxtid.epoch /\ m.tid = tx[w].maxtid.tid /\ m.lock = tx[w].maxtid.lock
  BY <1>1, <1>3, <1>4 DEF Tids
<1>6. PICK S \in SUBSET Keys : S = tx[w].todo \ {k}
  BY <1>1
<1>7. /\ tx' = [tx EXCEPT ![w].maxtid = m, ![w].todo = S]
      /\ tidword' = [tidword EXCEPT ![tx[w].wset[k].v] = m]
      /\ body' = body \/ body' = [body EXCEPT ![tx[w].wset[k].v] = Me(w)]
      /\ pc[w] = "writing" \/ (pc[w] = "write" /\ tx[w].todo # {})
      /\ Goto(w, "write")
      /\ UNCHANGED <<epochVars, load, done, mrctid, tree, freed, commits>>
  BY <1>2, <1>4, <1>6 DEF StoreTid
<1>8. tx[w].todo # {} /\ pc'[w] = "write"
  BY <1>7, GotoIs DEF Place, PlaceOf
<1>9. PICK t : t = [tx[w] EXCEPT !.maxtid = m, !.todo = S]
  OBVIOUS
<1>10. tx'[w] = t
  <2>1. tx' = [tx EXCEPT ![w] = t]
    BY <1>7, <1>9
  <2> QED
    BY <2>1, Assign
<1>11. TxOK(t)
  BY <1>1, <1>5, <1>9 DEF TxOK, TxTypes
<1>12. /\ SameSets(w) /\ SamePlace(w) /\ tx'[w].todo = S /\ tx'[w].maxtid = m
       /\ tx'[w].expected = tx[w].expected /\ tx'[w].maxR = tx[w].maxR /\ tx'[w].maxW = tx[w].maxW
       /\ tx'[w].after = tx[w].after /\ tx'[w].conflict = tx[w].conflict
  BY <1>1, <1>9, <1>10 DEF TxOK, TxTypes, SameSets, SamePlace
<1> QED
  BY <1>5, <1>6, <1>7, <1>8, <1>10, <1>11, <1>12

\* abort takes one inserted record out of the tree.
LEMMA RemoveInsertedView ==
  ASSUME TypeOK, NEW w \in Workers, RemoveInserted(w)
  PROVE  /\ TxOK(tx'[w]) /\ SameSets(w) /\ SamePlace(w) /\ SameControl(w)
         /\ tx'[w].expected = tx[w].expected
         /\ tx'[w].todo = tx[w].todo \ {Least(tx[w].todo)} /\ tx[w].todo # {}
         /\ pc[w] = "abort" /\ pc'[w] = "abort"
         /\ tree' = [tree EXCEPT ![Least(tx[w].todo)] = NULL]
         /\ freed' = freed \cup {tx[w].wset[Least(tx[w].todo)].v}
         /\ UNCHANGED <<epochVars, load, done, mrctid, tidword, body, commits>>
<1>1. PICK S \in SUBSET Keys : S = tx[w].todo \ {Least(tx[w].todo)}
  BY Typed, TxFields
<1>2. /\ tx' = [tx EXCEPT ![w].todo = S] /\ tx[w].todo # {}
      /\ pc[w] = "abort" /\ UNCHANGED pc
      /\ tree' = [tree EXCEPT ![Least(tx[w].todo)] = NULL]
      /\ freed' = freed \cup {tx[w].wset[Least(tx[w].todo)].v}
      /\ UNCHANGED <<epochVars, load, done, mrctid, tidword, body, commits>>
  BY <1>1 DEF RemoveInserted
<1>3. /\ TxOK(tx'[w]) /\ tx'[w].todo = S /\ tx'[w].expected = tx[w].expected
      /\ SameSets(w) /\ SamePlace(w) /\ SameControl(w)
  BY <1>2, TodoView
<1>4. pc'[w] = "abort"
  BY <1>2
<1> QED
  BY <1>1, <1>2, <1>3, <1>4

\* A transaction is over, or another one begins.
LEMMA NewTxView ==
  ASSUME TypeOK, Place, NEW w \in Workers, Begin(w) \/ WriteDone(w) \/ AbortDone(w)
  PROVE  /\ tx'[w] = NewTx /\ TxOK(tx'[w])
         /\ UNCHANGED <<GlobalEpoch, load, mrctid, store, commits>>
         /\ \/ /\ Begin(w) /\ pc[w] \in {"retry", "idle"}
               /\ pc'[w] = (IF done[w] < Len(load[w]) THEN "op" ELSE "idle")
               /\ ThLocalEpoch' = [ThLocalEpoch EXCEPT ![w] = GlobalEpoch] /\ UNCHANGED done
            \/ /\ pc[w] \in {"write", "abort"} /\ tx[w].todo = {} /\ pc'[w] = "retry"
               /\ UNCHANGED ThLocalEpoch
               /\ done' = done \/ done' = [done EXCEPT ![w] = done[w] + 1]
<1>0. TxOK(NewTx)
  BY NewTxOK
<1>1. CASE Begin(w)
  <2>1. /\ pc[w] \in {"retry", "idle"}
        /\ Goto(w, IF done[w] < Len(load[w]) THEN "op" ELSE "idle")
        /\ tx' = [tx EXCEPT ![w] = NewTx] \/ tx' = tx
        /\ ThLocalEpoch' = [ThLocalEpoch EXCEPT ![w] = GlobalEpoch] /\ UNCHANGED done
        /\ UNCHANGED <<GlobalEpoch, load, mrctid, store, commits>>
    BY <1>1 DEF Begin
  <2>2. tx[w] = NewTx
    BY <2>1 DEF Place, PlaceOf
  <2>3. tx'[w] = NewTx
    BY <2>1, <2>2, Assign
  <2>4. pc'[w] = (IF done[w] < Len(load[w]) THEN "op" ELSE "idle")
    BY <2>1, GotoIs
  <2> QED
    BY <1>0, <1>1, <2>1, <2>3, <2>4
<1>2. CASE WriteDone(w) \/ AbortDone(w)
  <2>1. /\ pc[w] \in {"write", "abort"} /\ tx[w].todo = {} /\ Goto(w, "retry")
        /\ tx' = [tx EXCEPT ![w] = NewTx]
        /\ done' = done \/ done' = [done EXCEPT ![w] = done[w] + 1]
        /\ UNCHANGED <<GlobalEpoch, ThLocalEpoch, load, mrctid, store, commits>>
    BY <1>2 DEF WriteDone, AbortDone, NextTransaction, epochVars
  <2>2. tx'[w] = NewTx /\ pc'[w] = "retry"
    BY <2>1, Assign, GotoIs
  <2> QED
    BY <1>0, <2>1, <2>2
<1> QED
  BY <1>1, <1>2

-----------------------------------------------------------------------------
(* Types are kept                                                          *)

\* The record and the label of the worker that takes the step.
LEMMA TxTypeStep ==
  ASSUME TypeOK, Place, NEW w \in Workers, WorkerStep(w)
  PROVE  TxOK(tx'[w]) /\ pc'[w] \in Pcs
<1>0. TxOK(tx[w])
  BY Typed
<1>1. CASE OperationStep(w)
  BY <1>1, OperationViews DEF OperationView
<1>2. CASE Begin(w) \/ WriteDone(w) \/ AbortDone(w)
  BY <1>2, NewTxView DEF Pcs
<1>3. CASE StartValidation(w)
  BY <1>3, StartValidationView DEF Pcs
<1>4. CASE LockOne(w)
  <2>1. PICK k : k = Least(tx[w].todo)
    OBVIOUS
  <2>2. PICK v : v = tx[w].wset[k].v
    OBVIOUS
  <2>3. CASE tidword[v].lock
    BY <1>4, <2>1, <2>2, <2>3, LockConflictView DEF Pcs
  <2>4. CASE ~tidword[v].lock
    <3>1. Takes(w, k, v)
      BY <1>4, <2>1, <2>2, <2>4, LockView
    <3> QED
      BY <3>1 DEF Takes, Pcs
  <2> QED
    BY <2>3, <2>4
<1>5. CASE UnlockLoad(w)
  BY <1>5, UnlockLoadView DEF Pcs
<1>6. CASE UnlockStore(w)
  BY <1>6, UnlockStoreView DEF Pcs
<1>7. CASE Unlocked(w)
  BY <1>7, UnlockedView DEF Pcs
<1>8. CASE TakeEpoch(w)
  BY <1>0, <1>8, TakeEpochView DEF Pcs
<1>9. CASE ValidateOne(w)
  BY <1>9, RejectView, AcceptView DEF Pcs
<1>10. CASE Commit(w)
  BY <1>10, CommitView DEF Pcs
<1>11. CASE WriteBody(w)
  BY <1>0, <1>11, WriteBodyView DEF Pcs
<1>12. CASE StoreTid(w)
  BY <1>12, StoreTidView DEF Pcs
<1>13. CASE RemoveInserted(w)
  BY <1>13, RemoveInsertedView DEF Pcs
<1> QED
  BY <1>1, <1>2, <1>3, <1>4, <1>5, <1>6, <1>7, <1>8, <1>9, <1>10, <1>11, <1>12, <1>13
     DEF WorkerStep, OperationStep

\* The words, bodies and records that the steps store.
LEMMA StoreTypesStep ==
  ASSUME TypeOK, Place, NEW w \in Workers, WorkerStep(w)
  PROVE  StoreTypes'
<1>0. /\ tree \in [Keys -> Values \cup {NULL}] /\ tidword \in [Values -> Tids]
      /\ body \in [Values -> Bodies] /\ freed \subseteq Values
  BY DEF TypeOK, StoreTypes
<1>a. Me(w) \in Bodies /\ TORN \in Bodies
  <2>1. done[w] + 1 \in Nat
    BY Typed
  <2> QED
    BY <2>1 DEF Me, Bodies
<1>1. ASSUME UNCHANGED store PROVE StoreTypes'
  BY <1>0, <1>1 DEF StoreTypes, store
<1>2. CASE OperationStep(w)
  <2>1. CASE Inserts(w)
    <3>1. PICK k \in Keys :
            /\ tree' = [tree EXCEPT ![k] = <<k, w>>]
            /\ tidword' = [tidword EXCEPT ![<<k, w>>] = Tid(0, 0, TRUE, TRUE)]
            /\ body' = [body EXCEPT ![<<k, w>>] = Me(w)]
            /\ freed' = freed \ {<<k, w>>}
      BY <2>1 DEF Inserts
    <3>2. <<k, w>> \in Values /\ Tid(0, 0, TRUE, TRUE) \in Tids
      BY DEF Values, Tid, Tids
    <3> QED
      BY <1>0, <1>a, <3>1, <3>2 DEF StoreTypes
  <2>2. CASE Adds(w)
    BY <1>1, <2>2 DEF Adds
  <2> QED
    BY <1>1, <1>2, <2>1, <2>2, OperationViews DEF OperationView, Fails, Steps, Finds, Expects, Reloads,
       Passes, Enters, Scans, Collects
<1>3. CASE LockOne(w)
  <2>1. PICK k : k = Least(tx[w].todo)
    OBVIOUS
  <2>2. PICK v : v = tx[w].wset[k].v
    OBVIOUS
  <2>3. CASE tidword[v].lock
    BY <1>1, <1>3, <2>1, <2>2, <2>3, LockConflictView
  <2>4. CASE ~tidword[v].lock
    <3>1. tidword' = [tidword EXCEPT ![v].lock = TRUE] /\ tx[w].todo # {} /\ UNCHANGED <<tree, body, freed>>
      <4>1. Takes(w, k, v)
        BY <1>3, <2>1, <2>2, <2>4, LockView
      <4> QED
        BY <4>1 DEF Takes
    <3>2. v \in Values /\ tidword[v] \in Tids
      BY <2>1, <2>2, <3>1, FirstKey
    <3>3. [tidword[v] EXCEPT !.lock = TRUE] \in Tids
      BY <3>2 DEF Tids
    <3> QED
      BY <1>0, <3>1, <3>2, <3>3 DEF StoreTypes
  <2> QED
    BY <2>3, <2>4
<1>4. CASE UnlockStore(w)
  <2>1. PICK v : v = tx[w].wset[Least(tx[w].todo)].v
    OBVIOUS
  <2>2. /\ tidword' = [tidword EXCEPT ![v] = [tx[w].expected EXCEPT !.lock = FALSE]]
        /\ tx[w].todo # {} /\ UNCHANGED <<tree, body, freed>>
    BY <1>4, <2>1, UnlockStoreView
  <2>3. [tx[w].expected EXCEPT !.lock = FALSE] \in Tids
    <3>1. tx[w].expected \in Tids
      BY Typed, TxFields
    <3> QED
      BY <3>1 DEF Tids
  <2> QED
    BY <1>0, <2>2, <2>3 DEF StoreTypes
<1>5. CASE StoreTid(w)
  <2>1. PICK v : v = tx[w].wset[Least(tx[w].todo)].v
    OBVIOUS
  <2>2. /\ \E m \in Tids : tidword' = [tidword EXCEPT ![v] = m]
        /\ body' = body \/ body' = [body EXCEPT ![v] = Me(w)]
        /\ UNCHANGED <<tree, freed>>
    BY <1>5, <2>1, StoreTidView
  <2> QED
    BY <1>0, <1>a, <2>2 DEF StoreTypes
<1>6. CASE WriteBody(w)
  BY <1>0, <1>6, <1>a, WriteBodyView DEF StoreTypes
<1>7. CASE RemoveInserted(w)
  <2>1. /\ tree' = [tree EXCEPT ![Least(tx[w].todo)] = NULL] /\ tx[w].todo # {}
        /\ freed' = freed \cup {tx[w].wset[Least(tx[w].todo)].v} /\ UNCHANGED <<tidword, body>>
    BY <1>7, RemoveInsertedView
  <2>2. tx[w].wset[Least(tx[w].todo)].v \in Values
    BY <2>1, FirstKey
  <2> QED
    BY <1>0, <2>1, <2>2 DEF StoreTypes
<1>8. CASE Begin(w) \/ WriteDone(w) \/ AbortDone(w)
  BY <1>1, <1>8, NewTxView
<1>9. CASE StartValidation(w) \/ UnlockLoad(w) \/ Unlocked(w) \/ TakeEpoch(w) \/ ValidateOne(w) \/ Commit(w)
  BY <1>1, <1>9 DEF StartValidation, UnlockLoad, Unlocked, TakeEpoch, ValidateOne, Commit
<1> QED
  BY <1>2, <1>3, <1>4, <1>5, <1>6, <1>7, <1>8, <1>9 DEF WorkerStep, OperationStep

\* Only Commit adds to the history.
LEMMA CommitsStep ==
  ASSUME TypeOK, Place, NEW w \in Workers, WorkerStep(w)
  PROVE  \/ commits' = commits
         \/ /\ Commit(w)
            /\ \E c \in CommitTypes : commits' = Append(commits, c)
                                      /\ c.tid = CommitTid(w) /\ c.local = ThLocalEpoch[w]
<1>1. CASE OperationStep(w)
  BY <1>1, OperationViews DEF OperationView
<1>2. CASE Begin(w) \/ WriteDone(w) \/ AbortDone(w)
  BY <1>2, NewTxView
<1>3. CASE Commit(w)
  <2>1. PICK c : c = [id |-> Me(w), tid |-> CommitTid(w), local |-> ThLocalEpoch[w],
                      conflict |-> tx[w].conflict, reads |-> tx[w].reads,
                      rereads |-> tx[w].rereads, writes |-> DOMAIN tx[w].wset]
    OBVIOUS
  <2>2. commits' = Append(commits, c)
    BY <1>3, <2>1 DEF Commit
  <2>3. CommitTid(w) \in Tids
    BY <1>3, CommitView
  <2>4. /\ tx[w].conflict \in BOOLEAN /\ tx[w].reads \in Reports /\ tx[w].rereads \in Reports
        /\ DOMAIN tx[w].wset \in SUBSET Keys
    BY Typed, TxFields
  <2>5. Me(w) \in Workers \X Nat
    <3>1. done[w] + 1 \in Nat
      BY Typed
    <3> QED
      BY <3>1 DEF Me
  <2>6. ThLocalEpoch[w] \in Nat
    BY DEF TypeOK, WorkerTypes
  <2>7. c \in CommitTypes
    BY <2>1, <2>3, <2>4, <2>5, <2>6 DEF CommitTypes
  <2>8. c.tid = CommitTid(w) /\ c.local = ThLocalEpoch[w]
    BY <2>1
  <2> QED
    BY <1>3, <2>2, <2>7, <2>8
<1>4. CASE StartValidation(w) \/ UnlockLoad(w) \/ Unlocked(w) \/ TakeEpoch(w) \/ ValidateOne(w)
           \/ LockOne(w) \/ UnlockStore(w) \/ WriteBody(w) \/ StoreTid(w) \/ RemoveInserted(w)
  BY <1>4 DEF StartValidation, UnlockLoad, Unlocked, TakeEpoch, ValidateOne, LockOne, UnlockStore,
              WriteBody, StoreTid, RemoveInserted
<1> QED
  BY <1>1, <1>2, <1>3, <1>4 DEF WorkerStep, OperationStep

\* Every step keeps the types.
LEMMA TypeStep ==
  ASSUME TypeOK, Place, [Next]_vars
  PROVE  TypeOK'
<1>1. CASE UNCHANGED vars
  BY <1>1 DEF TypeOK, WorkerTypes, StoreTypes, vars, epochVars, store
<1>2. CASE EpochAdvance
  <2>1. GlobalEpoch' \in Nat
    BY <1>2 DEF EpochAdvance, TypeOK
  <2> QED
    BY <1>2, <2>1 DEF EpochAdvance, TypeOK, WorkerTypes, StoreTypes, store
<1>3. ASSUME NEW w \in Workers, WorkerStep(w) PROVE TypeOK'
  <2>1. Frame(w)
    BY <1>3, FrameStep
  <2>2. TxOK(tx'[w]) /\ pc'[w] \in Pcs
    BY <1>3, TxTypeStep
  <2>3. StoreTypes'
    BY <1>3, StoreTypesStep
  <2>4. commits' \in Seq(CommitTypes)
    <3>1. commits \in Seq(CommitTypes)
      BY DEF TypeOK
    <3>2. CASE commits' = commits
      BY <3>1, <3>2
    <3>3. CASE \E c \in CommitTypes : commits' = Append(commits, c)
      BY <3>1, <3>3, AppendProperties
    <3> QED
      BY <1>3, <3>2, <3>3, CommitsStep
  <2>5. /\ ThLocalEpoch \in [Workers -> Nat] /\ pc \in [Workers -> Pcs] /\ done \in [Workers -> Nat]
        /\ mrctid \in [Workers -> Tids] /\ GlobalEpoch \in Nat /\ load \in Loads
        /\ \A u \in Workers : TxOK(tx[u])
    BY DEF TypeOK, WorkerTypes, TxOK
  <2>6. ThLocalEpoch'[w] \in Nat /\ done'[w] \in Nat
    <3>1. /\ ThLocalEpoch' = ThLocalEpoch \/ ThLocalEpoch' = [ThLocalEpoch EXCEPT ![w] = GlobalEpoch]
          /\ done' = done \/ done' = [done EXCEPT ![w] = done[w] + 1]
      BY <1>3, OwnStep
    <3> QED
      BY <2>5, <3>1
  <2>7. mrctid'[w] \in Tids
    <3>1. mrctid' = mrctid \/ (Commit(w) /\ mrctid' = [mrctid EXCEPT ![w] = CommitTid(w)])
      BY <1>3, OwnStep
    <3>2. Commit(w) => CommitTid(w) \in Tids
      BY CommitView
    <3> QED
      BY <2>5, <3>1, <3>2
  <2>8. \A u \in Workers : TxOK(tx'[u])
    BY <2>1, <2>2, <2>5 DEF Frame
  <2>9. /\ \A u \in Workers : ThLocalEpoch'[u] \in Nat /\ pc'[u] \in Pcs /\ done'[u] \in Nat
        /\ \A u \in Workers : mrctid'[u] \in Tids
    BY <2>1, <2>2, <2>5, <2>6, <2>7 DEF Frame
  <2>10. /\ ThLocalEpoch' \in [Workers -> Nat] /\ pc' \in [Workers -> Pcs]
         /\ done' \in [Workers -> Nat] /\ mrctid' \in [Workers -> Tids]
    <3>1. /\ ThLocalEpoch' = [u \in Workers |-> ThLocalEpoch'[u]]
          /\ pc' = [u \in Workers |-> pc'[u]]
          /\ done' = [u \in Workers |-> done'[u]]
          /\ mrctid' = [u \in Workers |-> mrctid'[u]]
      BY <1>3, <2>5, OwnStep
    <3> QED
      BY <2>9, <3>1
  <2>11. WorkerTypes'
    BY <2>1, <2>8, <2>10 DEF WorkerTypes, TxOK, Frame
  <2> QED
    BY <2>1, <2>3, <2>4, <2>5, <2>11 DEF TypeOK, Frame
<1> QED
  BY <1>1, <1>2, <1>3 DEF Next

-----------------------------------------------------------------------------
(* Where a worker stands                                                   *)

\* The worker that takes the step.
LEMMA OwnPlaceStep ==
  ASSUME TypeOK, Place, NEW w \in Workers, WorkerStep(w)
  PROVE  PlaceOf(w)'
<1>0. /\ PlaceOf(w) /\ TxOK(tx[w]) /\ tx[w].ip \in Nat
      /\ Inserted(tx[w].wset) \subseteq DOMAIN tx[w].wset
      /\ Lockable(tx[w].wset) \subseteq DOMAIN tx[w].wset
  BY Typed, TxFields DEF Place, Inserted, Lockable
<1>1. CASE OperationStep(w)
  <2>1. done' = done /\ load' = load
    BY <1>1, OperationViews DEF OperationView
  <2>2. Program(w)' = Program(w)
    BY <2>1 DEF Program
  <2> USE <1>0, <2>1, <2>2 DEF PlaceOf, SameSets, SamePlace, SameTodo
  <2>3. CASE Fails(w)
    BY <2>3 DEF Fails
  <2>4. CASE Steps(w)
    BY <2>4 DEF Steps
  <2>5. CASE Finds(w)
    BY <2>5 DEF Finds
  <2>6. CASE Expects(w) \/ Reloads(w)
    BY <2>6 DEF Expects, Reloads
  <2>7. CASE Passes(w) \/ Collects(w) \/ Scans(w)
    BY <2>7 DEF Passes, Collects, Scans
  <2>8. CASE Enters(w)
    BY <2>8 DEF Enters
  <2>9. CASE Adds(w)
    <3>1. PICK k \in Keys, op \in {"WRITE", "DELETE"} : Added(w, k, LookUp(w, k), op)
      BY <2>9 DEF Adds
    <3> QED
      BY <3>1 DEF Added
  <2>10. CASE Inserts(w)
    <3>1. PICK k \in Keys : Added(w, k, <<k, w>>, "INSERT")
      BY <2>10 DEF Inserts
    <3> QED
      BY <3>1 DEF Added
  <2> QED
    BY <1>1, <2>3, <2>4, <2>5, <2>6, <2>7, <2>8, <2>9, <2>10, OperationViews DEF OperationView
<1>2. CASE Begin(w) \/ WriteDone(w) \/ AbortDone(w)
  <2>1. tx'[w] = NewTx /\ load' = load
    BY <1>2, NewTxView
  <2>2. /\ tx'[w].ip = 1 /\ tx'[w].todo = {}
    BY <2>1 DEF NewTx
  <2>3. \/ pc'[w] \in {"retry", "idle"}
        \/ pc'[w] = "op" /\ done[w] < Len(load[w]) /\ done' = done
    BY <1>2, NewTxView
  <2> QED
    BY <2>1, <2>2, <2>3 DEF PlaceOf
<1>3. ASSUME load' = load, done' = done, tx'[w].ip = tx[w].ip, tx'[w].found = tx[w].found,
             tx'[w].wset = tx[w].wset, tx'[w].todo \subseteq DOMAIN tx[w].wset,
             pc[w] \notin {"retry", "idle"},
             pc'[w] \in {"lock", "unlock", "validate", "write", "abort"}
             \/ (pc'[w] \in {"unlockstore", "writing"} /\ tx'[w].todo # {})
      PROVE  PlaceOf(w)'
  BY <1>0, <1>3 DEF PlaceOf
<1>4. CASE StartValidation(w)
  BY <1>0, <1>3, <1>4, StartValidationView DEF SameSets, SamePlace
<1>5. CASE LockOne(w)
  <2>1. PICK k : k = Least(tx[w].todo)
    OBVIOUS
  <2>2. PICK v : v = tx[w].wset[k].v
    OBVIOUS
  <2>3. CASE tidword[v].lock
    <3>1. /\ SameSets(w) /\ SamePlace(w) /\ tx'[w].todo = {j \in Lockable(tx[w].wset) : j < k}
          /\ pc[w] = "lock" /\ pc'[w] = "unlock" /\ load' = load /\ done' = done
      BY <1>5, <2>1, <2>2, <2>3, LockConflictView
    <3>2. tx'[w].todo \subseteq DOMAIN tx[w].wset
      BY <1>0, <3>1
    <3> QED
      BY <1>3, <3>1, <3>2 DEF SameSets, SamePlace
  <2>4. CASE ~tidword[v].lock
    <3>1. Takes(w, k, v)
      BY <1>5, <2>1, <2>2, <2>4, LockView
    <3> QED
      BY <1>0, <1>3, <3>1 DEF Takes, SameSets, SamePlace, PlaceOf
  <2> QED
    BY <2>3, <2>4
<1>6. CASE UnlockLoad(w)
  BY <1>0, <1>3, <1>6, UnlockLoadView DEF SameSets, SamePlace, PlaceOf
<1>7. CASE UnlockStore(w)
  BY <1>0, <1>3, <1>7, UnlockStoreView DEF SameSets, SamePlace, PlaceOf
<1>8. CASE Unlocked(w)
  BY <1>0, <1>3, <1>8, UnlockedView DEF SameSets, SamePlace
<1>9. CASE TakeEpoch(w)
  BY <1>0, <1>3, <1>9, TakeEpochView DEF PlaceOf
<1>10. CASE ValidateOne(w)
  <2>1. PICK r : r = tx[w].rset[tx[w].itr]
    OBVIOUS
  <2>2. CASE Rejected(w, r, tidword[r.v])
    BY <1>0, <1>3, <1>10, <2>1, <2>2, RejectView DEF SameSets, SamePlace
  <2>3. CASE ~Rejected(w, r, tidword[r.v])
    BY <1>0, <1>3, <1>10, <2>1, <2>3, AcceptView DEF SameSets, SamePlace, SameTodo, PlaceOf
  <2> QED
    BY <2>2, <2>3
<1>11. CASE Commit(w)
  BY <1>0, <1>3, <1>11, CommitView DEF SameSets, SamePlace
<1>12. CASE WriteBody(w)
  BY <1>0, <1>3, <1>12, WriteBodyView DEF PlaceOf
<1>13. CASE StoreTid(w)
  BY <1>0, <1>3, <1>13, StoreTidView DEF SameSets, SamePlace, PlaceOf
<1>14. CASE RemoveInserted(w)
  BY <1>0, <1>3, <1>14, RemoveInsertedView DEF SameSets, SamePlace, PlaceOf
<1> QED
  BY <1>1, <1>2, <1>4, <1>5, <1>6, <1>7, <1>8, <1>9, <1>10, <1>11, <1>12, <1>13, <1>14
     DEF WorkerStep, OperationStep

\* And the others, which stay where they are.
LEMMA PlaceStep ==
  ASSUME TypeOK, Place, [Next]_vars
  PROVE  Place'
<1>1. ASSUME UNCHANGED <<load, pc, done, tx>> PROVE Place'
  BY <1>1 DEF Place, PlaceOf, Program
<1>2. ASSUME NEW w \in Workers, WorkerStep(w) PROVE Place'
  <2>1. Frame(w) /\ PlaceOf(w)'
    BY <1>2, FrameStep, OwnPlaceStep
  <2>2. ASSUME NEW u \in Workers, u # w PROVE PlaceOf(u)'
    BY <2>1, <2>2 DEF Place, PlaceOf, Program, Frame
  <2> QED
    BY <2>1, <2>2 DEF Place
<1> QED
  BY <1>1, <1>2 DEF Next, EpochAdvance, vars

-----------------------------------------------------------------------------
(* Epochs                                                                  *)

\* What push_back adds to a list.
LEMMA AppendEach ==
  ASSUME NEW S, NEW s \in Seq(S), NEW e \in S
  PROVE  /\ Append(s, e) \in Seq(S) /\ Len(Append(s, e)) = Len(s) + 1
         /\ \A i \in 1 .. Len(s) : i \in 1 .. Len(Append(s, e)) /\ Append(s, e)[i] = s[i]
         /\ \A i \in 1 .. Len(Append(s, e)) :
              (i \in 1 .. Len(s) /\ Append(s, e)[i] = s[i]) \/ Append(s, e)[i] = e
BY AppendProperties

\* The TIDs of a transaction are of epoch e or older.
TxEpochs(t, e) ==
  /\ t.expected.epoch <= e /\ t.maxR.epoch <= e /\ t.maxW.epoch <= e /\ t.maxtid.epoch <= e
  /\ \A i \in 1 .. Len(t.rset) : t.rset[i].tid.epoch <= e

\* Those of the worker that takes the step.
LEMMA TxEpochsStep ==
  ASSUME TypeOK, Place, TidEpochs, Epochs, NEW w \in Workers, WorkerStep(w)
  PROVE  TxEpochs(tx'[w], GlobalEpoch)
<1>0. /\ TxOK(tx[w]) /\ TxEpochs(tx[w], GlobalEpoch) /\ ThLocalEpoch[w] <= GlobalEpoch
      /\ GlobalEpoch \in Nat /\ ThLocalEpoch[w] \in Nat /\ mrctid[w] \in Tids
  BY Typed DEF Epochs, EpochsOf, TxEpochs, TypeOK, WorkerTypes
<1>1. CASE OperationStep(w)
  <2>0. SameControl(w)
    BY <1>1, OperationViews DEF OperationView
  <2> USE <1>0, <2>0 DEF TxEpochs, SameSets, SameTodo, SameControl
  <2>1. CASE Fails(w) \/ Steps(w) \/ Finds(w) \/ Reloads(w) \/ Passes(w) \/ Scans(w) \/ Collects(w)
    BY <2>1 DEF Fails, Steps, Finds, Reloads, Passes, Scans, Collects
  <2>2. CASE Adds(w)
    BY <2>2 DEF Adds, Added
  <2>3. CASE Expects(w)
    <3>1. tx[w].found \in Values
      BY <2>3 DEF Expects, Place, PlaceOf
    <3>2. tidword[tx[w].found].epoch <= GlobalEpoch
      BY <3>1 DEF TidEpochs
    <3> QED
      BY <2>3, <3>2 DEF Expects
  <2>4. CASE Enters(w)
    <3>1. tx[w].found \in Values
      BY <2>4 DEF Enters, Place, PlaceOf
    <3>2. tidword[tx[w].found] \in Tids /\ tidword[tx[w].found].epoch <= GlobalEpoch
      BY <3>1, Typed DEF TidEpochs
    <3>3. PICK e \in ReadEntries : tx'[w].rset = Append(tx[w].rset, e) /\ e.tid = tidword[tx[w].found]
      <4>1. PICK k \in Keys : tx'[w].rset = Append(tx[w].rset,
                [op |-> "READ", key |-> k, v |-> tx[w].found, tid |-> tidword[tx[w].found]])
        BY <2>4 DEF Enters
      <4>2. PICK e : e = [op |-> "READ", key |-> k, v |-> tx[w].found, tid |-> tidword[tx[w].found]]
        OBVIOUS
      <4>3. e \in ReadEntries /\ e.tid = tidword[tx[w].found]
        BY <3>1, <3>2, <4>2 DEF ReadEntries
      <4> QED
        BY <4>1, <4>2, <4>3
    <3>4. tx[w].rset \in Seq(ReadEntries)
      BY TxFields
    <3>5. ASSUME NEW i \in 1 .. Len(tx'[w].rset) PROVE tx'[w].rset[i].tid.epoch <= GlobalEpoch
      <4>1. (i \in 1 .. Len(tx[w].rset) /\ tx'[w].rset[i] = tx[w].rset[i]) \/ tx'[w].rset[i] = e
        BY <3>3, <3>4, AppendEach
      <4> QED
        BY <4>1, <3>2, <3>3
    <3> QED
      BY <2>4, <3>5 DEF Enters
  <2>5. CASE Inserts(w)
    <3>1. PICK k \in Keys : /\ tx'[w].rset = Append(tx[w].rset, [op |-> "READ", key |-> k, v |-> <<k, w>>,
                                                               tid |-> Tid(0, 0, TRUE, TRUE)])
                           /\ SameTodo(w)
      BY <2>5 DEF Inserts, Added
    <3>2. PICK e : e = [op |-> "READ", key |-> k, v |-> <<k, w>>, tid |-> Tid(0, 0, TRUE, TRUE)]
      OBVIOUS
    <3>3. <<k, w>> \in Values /\ Tid(0, 0, TRUE, TRUE) \in Tids /\ Tid(0, 0, TRUE, TRUE).epoch = 0
      BY DEF Values, Tid, Tids
    <3>4. e \in ReadEntries /\ e.tid.epoch = 0
      BY <3>2, <3>3 DEF ReadEntries
    <3>5. tx[w].rset \in Seq(ReadEntries)
      BY TxFields
    <3>6. ASSUME NEW i \in 1 .. Len(tx'[w].rset) PROVE tx'[w].rset[i].tid.epoch <= GlobalEpoch
      <4>1. (i \in 1 .. Len(tx[w].rset) /\ tx'[w].rset[i] = tx[w].rset[i]) \/ tx'[w].rset[i] = e
        BY <3>1, <3>2, <3>4, <3>5, AppendEach
      <4> QED
        BY <4>1, <3>4
    <3> QED
      BY <3>1, <3>6
  <2> QED
    BY <1>1, <2>1, <2>2, <2>3, <2>4, <2>5, OperationViews DEF OperationView
<1>2. CASE Begin(w) \/ WriteDone(w) \/ AbortDone(w)
  <2>1. tx'[w] = NewTx
    BY <1>2, NewTxView
  <2>2. /\ NewTx.expected.epoch = 0 /\ NewTx.maxR.epoch = 0 /\ NewTx.maxW.epoch = 0
        /\ NewTx.maxtid.epoch = 0 /\ NewTx.rset = <<>>
    BY DEF NewTx, ZeroTid, Tid
  <2> QED
    BY <1>0, <2>1, <2>2 DEF TxEpochs
<1>3. CASE StartValidation(w)
  BY <1>0, <1>3, StartValidationView DEF TxEpochs, SameSets, SameControl
<1>4. CASE LockOne(w)
  <2>1. PICK k : k = Least(tx[w].todo)
    OBVIOUS
  <2>2. PICK v : v = tx[w].wset[k].v
    OBVIOUS
  <2>3. CASE tidword[v].lock
    BY <1>0, <1>4, <2>1, <2>2, <2>3, LockConflictView DEF SameSets, SameMax, TxEpochs
  <2>4. CASE ~tidword[v].lock
    <3>1. Takes(w, k, v)
      BY <1>4, <2>1, <2>2, <2>4, LockView
    <3>2. v \in Values /\ tidword[v] \in Tids
      BY <2>1, <2>2, <3>1, FirstKey DEF Takes
    <3>3. tidword[v].epoch <= GlobalEpoch
      BY <3>2 DEF TidEpochs
    <3>4. MaxTid(tx[w].maxW, tidword[v]) \in {tx[w].maxW, tidword[v]}
      BY DEF MaxTid
    <3>5. tx'[w].maxW.epoch <= GlobalEpoch
      BY <1>0, <3>1, <3>3, <3>4 DEF Takes, TxEpochs
    <3> QED
      BY <1>0, <3>1, <3>5 DEF Takes, SameSets, TxEpochs
  <2> QED
    BY <2>3, <2>4
<1>5. CASE UnlockLoad(w)
  <2>1. tx[w].todo # {}
    BY <1>5, UnlockLoadView
  <2>2. tidword[tx[w].wset[Least(tx[w].todo)].v].epoch <= GlobalEpoch
    BY <2>1, FirstKey DEF TidEpochs
  <2> QED
    BY <1>0, <1>5, <2>2, UnlockLoadView DEF TxEpochs, SameSets, SameControl
<1>6. CASE UnlockStore(w)
  BY <1>0, <1>6, UnlockStoreView DEF TxEpochs, SameSets, SameControl
<1>7. CASE Unlocked(w)
  BY <1>0, <1>7, UnlockedView DEF TxEpochs, SameSets, SameControl
<1>8. CASE TakeEpoch(w) \/ WriteBody(w)
  BY <1>0, <1>8, TakeEpochView, WriteBodyView
<1>9. CASE ValidateOne(w)
  <2>1. PICK r : r = tx[w].rset[tx[w].itr]
    OBVIOUS
  <2>2. CASE Rejected(w, r, tidword[r.v])
    BY <1>0, <1>9, <2>1, <2>2, RejectView DEF SameSets, SameMax, TxEpochs
  <2>3. CASE ~Rejected(w, r, tidword[r.v])
    <3>1. /\ SameSets(w) /\ SameTodo(w) /\ tx'[w].maxR = MaxTid(tx[w].maxR, tidword[r.v])
          /\ tx'[w].maxW = tx[w].maxW /\ tx'[w].maxtid = tx[w].maxtid
          /\ tx[w].itr \in 1 .. Len(tx[w].rset)
      BY <1>9, <2>1, <2>3, AcceptView
    <3>2. r.tid.epoch <= GlobalEpoch
      BY <1>0, <2>1, <3>1 DEF TxEpochs
    <3>3. tidword[r.v].epoch = r.tid.epoch
      BY <2>3 DEF Rejected
    <3>4. MaxTid(tx[w].maxR, tidword[r.v]) \in {tx[w].maxR, tidword[r.v]}
      BY DEF MaxTid
    <3>5. tx'[w].maxR.epoch <= GlobalEpoch
      BY <1>0, <3>1, <3>2, <3>3, <3>4 DEF TxEpochs
    <3> QED
      BY <1>0, <3>1, <3>5 DEF SameSets, SameTodo, TxEpochs
  <2> QED
    BY <2>2, <2>3
<1>10. CASE Commit(w)
  <2>1. CommitTid(w).epoch <= GlobalEpoch
    <3>1. tx[w].maxR \in Tids /\ tx[w].maxW \in Tids
      BY <1>0, TxFields
    <3>2. mrctid[w].epoch <= GlobalEpoch
      BY <1>0 DEF Epochs, EpochsOf, Tids
    <3> QED
      BY <1>0, <3>1, <3>2, CommitTidIsLargest DEF TxEpochs
  <2> QED
    BY <1>0, <1>10, <2>1, CommitView DEF TxEpochs, SameSets
<1>11. CASE StoreTid(w)
  <2>1. PICK k : k = Least(tx[w].todo)
    OBVIOUS
  <2>2. /\ SameSets(w) /\ tx'[w].expected = tx[w].expected
        /\ tx'[w].maxR = tx[w].maxR /\ tx'[w].maxW = tx[w].maxW
        /\ tx'[w].maxtid.epoch = tx[w].maxtid.epoch
    BY <1>11, <2>1, StoreTidView
  <2> QED
    BY <1>0, <2>2 DEF TxEpochs, SameSets
<1>12. CASE RemoveInserted(w)
  BY <1>0, <1>12, RemoveInsertedView DEF TxEpochs, SameSets, SameControl
<1> QED
  BY <1>1, <1>2, <1>3, <1>4, <1>5, <1>6, <1>7, <1>8, <1>9, <1>10, <1>11, <1>12
     DEF WorkerStep, OperationStep

\* The words that are stored.
LEMMA TidEpochsStep ==
  ASSUME TypeOK, Place, TidEpochs, Epochs, NEW w \in Workers, WorkerStep(w)
  PROVE  TidEpochs'
<1>0. /\ TxOK(tx[w]) /\ tidword \in [Values -> Tids] /\ GlobalEpoch' = GlobalEpoch
      /\ GlobalEpoch \in Nat /\ tx[w].expected \in Tids
  BY Typed, TxFields, OwnStep DEF TypeOK
<1>1. ASSUME tidword' = tidword PROVE TidEpochs'
  BY <1>0, <1>1 DEF TidEpochs
<1>2. ASSUME NEW v, NEW m, m.epoch <= GlobalEpoch, tidword' = [tidword EXCEPT ![v] = m]
      PROVE  TidEpochs'
  BY <1>0, <1>2 DEF TidEpochs
<1>3. CASE OperationStep(w)
  <2>1. CASE Inserts(w)
    <3>1. PICK k \in Keys : tidword' = [tidword EXCEPT ![<<k, w>>] = Tid(0, 0, TRUE, TRUE)]
      BY <2>1 DEF Inserts
    <3>2. PICK m : m = Tid(0, 0, TRUE, TRUE)
      OBVIOUS
    <3>3. m.epoch <= GlobalEpoch
      BY <1>0, <3>2 DEF Tid
    <3> QED
      BY <1>2, <3>1, <3>2, <3>3
  <2>2. CASE Adds(w)
    BY <1>1, <2>2 DEF Adds, store
  <2> QED
    BY <1>1, <1>3, <2>1, <2>2, OperationViews DEF OperationView, Fails, Steps, Finds, Expects, Reloads,
       Passes, Enters, Scans, Collects, store
<1>4. CASE LockOne(w)
  <2>1. PICK k : k = Least(tx[w].todo)
    OBVIOUS
  <2>2. PICK v : v = tx[w].wset[k].v
    OBVIOUS
  <2>3. CASE tidword[v].lock
    BY <1>1, <1>4, <2>1, <2>2, <2>3, LockConflictView DEF store
  <2>4. CASE ~tidword[v].lock
    <3>1. Takes(w, k, v)
      BY <1>4, <2>1, <2>2, <2>4, LockView
    <3>2. v \in Values /\ tidword[v] \in Tids
      BY <2>1, <2>2, <3>1, FirstKey DEF Takes
    <3>3. PICK m : m = [tidword[v] EXCEPT !.lock = TRUE]
      OBVIOUS
    <3>4. m.epoch <= GlobalEpoch
      BY <3>2, <3>3 DEF TidEpochs, Tids
    <3>5. tidword' = [tidword EXCEPT ![v] = m]
      BY <3>1, <3>3 DEF Takes
    <3> QED
      BY <1>2, <3>4, <3>5
  <2> QED
    BY <2>3, <2>4
<1>5. CASE UnlockStore(w)
  <2>1. PICK m : m = [tx[w].expected EXCEPT !.lock = FALSE]
    OBVIOUS
  <2>2. m.epoch <= GlobalEpoch
    BY <1>0, <2>1 DEF Epochs, EpochsOf, Tids
  <2>3. tidword' = [tidword EXCEPT ![tx[w].wset[Least(tx[w].todo)].v] = m]
    BY <1>5, <2>1, UnlockStoreView
  <2> QED
    BY <1>2, <2>2, <2>3
<1>6. CASE StoreTid(w)
  <2>1. PICK k : k = Least(tx[w].todo)
    OBVIOUS
  <2>2. PICK m \in Tids : m.epoch = tx[w].maxtid.epoch /\ tidword' = [tidword EXCEPT ![tx[w].wset[k].v] = m]
    BY <1>6, <2>1, StoreTidView
  <2>3. m.epoch <= GlobalEpoch
    BY <2>2 DEF Epochs, EpochsOf
  <2> QED
    BY <1>2, <2>2, <2>3
<1>7. CASE Begin(w) \/ WriteDone(w) \/ AbortDone(w)
  BY <1>1, <1>7, NewTxView DEF store
<1>8. CASE StartValidation(w) \/ UnlockLoad(w) \/ Unlocked(w) \/ TakeEpoch(w) \/ ValidateOne(w) \/ Commit(w)
           \/ WriteBody(w) \/ RemoveInserted(w)
  BY <1>1, <1>8 DEF StartValidation, UnlockLoad, Unlocked, TakeEpoch, ValidateOne, Commit, WriteBody,
                    RemoveInserted, store
<1> QED
  BY <1>3, <1>4, <1>5, <1>6, <1>7, <1>8 DEF WorkerStep, OperationStep

\* The TIDs a validated read set and a locked write set give stay within the epoch
\* taken between the phases.
LEMMA ValidateEpochsStep ==
  ASSUME TypeOK, Place, Epochs, NEW w \in Workers, WorkerStep(w), pc'[w] = "validate"
  PROVE  /\ tx'[w].maxR.epoch <= ThLocalEpoch'[w]
         /\ tx'[w].maxW.epoch <= ThLocalEpoch'[w]
         /\ \A i \in 1 .. Len(tx'[w].rset) : tx'[w].rset[i].tid.epoch <= ThLocalEpoch'[w]
<1>0. TxOK(tx[w]) /\ EpochsOf(w) /\ ThLocalEpoch \in [Workers -> Nat]
  BY Typed DEF Epochs, TypeOK, WorkerTypes
<1>1. CASE TakeEpoch(w)
  BY <1>0, <1>1, TakeEpochView DEF EpochsOf
<1>2. CASE ValidateOne(w)
  <2>1. PICK r : r = tx[w].rset[tx[w].itr]
    OBVIOUS
  <2>2. CASE Rejected(w, r, tidword[r.v])
    BY <1>2, <2>1, <2>2, RejectView
  <2>3. CASE ~Rejected(w, r, tidword[r.v])
    <3>1. /\ SameSets(w) /\ tx'[w].maxR = MaxTid(tx[w].maxR, tidword[r.v])
          /\ tx'[w].maxW = tx[w].maxW /\ pc[w] = "validate"
          /\ tx[w].itr \in 1 .. Len(tx[w].rset) /\ ThLocalEpoch' = ThLocalEpoch
      BY <1>2, <2>1, <2>3, AcceptView DEF epochVars
    <3>2. r.tid.epoch <= ThLocalEpoch[w]
      BY <1>0, <2>1, <3>1 DEF EpochsOf
    <3>3. tidword[r.v].epoch = r.tid.epoch
      BY <2>3 DEF Rejected
    <3>4. MaxTid(tx[w].maxR, tidword[r.v]) \in {tx[w].maxR, tidword[r.v]}
      BY DEF MaxTid
    <3>5. tx'[w].maxR.epoch <= ThLocalEpoch[w]
      BY <1>0, <3>1, <3>2, <3>3, <3>4 DEF EpochsOf
    <3> QED
      BY <1>0, <3>1, <3>5 DEF SameSets, EpochsOf
  <2> QED
    BY <2>2, <2>3
<1>3. CASE OperationStep(w)
  <2>1. ~Adds(w) /\ ~Inserts(w)
    BY DEF Adds, Inserts, Added
  <2> QED
    BY <1>3, <2>1, OperationViews DEF OperationView, Fails, Steps, Finds, Expects, Reloads, Passes, Enters,
       Scans, Collects
<1>4. CASE LockOne(w)
  <2>1. PICK k : k = Least(tx[w].todo)
    OBVIOUS
  <2>2. PICK v : v = tx[w].wset[k].v
    OBVIOUS
  <2>3. CASE tidword[v].lock
    BY <1>4, <2>1, <2>2, <2>3, LockConflictView
  <2>4. CASE ~tidword[v].lock
    <3>1. Takes(w, k, v)
      BY <1>4, <2>1, <2>2, <2>4, LockView
    <3> QED
      BY <3>1 DEF Takes
  <2> QED
    BY <2>3, <2>4
<1>5. CASE Begin(w) \/ WriteDone(w) \/ AbortDone(w)
  BY <1>5, NewTxView
<1>6. CASE StartValidation(w) \/ UnlockLoad(w) \/ UnlockStore(w) \/ Unlocked(w)
  BY <1>6, StartValidationView, UnlockLoadView, UnlockStoreView, UnlockedView
<1>7. CASE Commit(w) \/ WriteBody(w) \/ StoreTid(w) \/ RemoveInserted(w)
  BY <1>7, CommitView, WriteBodyView, StoreTidView, RemoveInsertedView
<1> QED
  BY <1>1, <1>2, <1>3, <1>4, <1>5, <1>6, <1>7 DEF WorkerStep, OperationStep

\* A commit's TID is of the epoch its worker took: [c] of writePhase raises it to
\* that epoch, and nothing it read or locked is of a later one.
LEMMA CommitEpoch ==
  ASSUME TypeOK, Place, Epochs, NEW w \in Workers, Commit(w)
  PROVE  CommitTid(w) \in Tids /\ CommitTid(w).epoch = ThLocalEpoch[w]
<1>1. /\ tx[w].maxR \in Tids /\ tx[w].maxW \in Tids /\ mrctid[w] \in Tids /\ ThLocalEpoch[w] \in Nat
  BY Typed, TxFields DEF TypeOK, WorkerTypes
<1>2. /\ tx[w].maxR.epoch <= ThLocalEpoch[w] /\ tx[w].maxW.epoch <= ThLocalEpoch[w]
      /\ mrctid[w].epoch <= ThLocalEpoch[w]
  BY CommitView DEF Epochs, EpochsOf
<1>3. /\ CommitTid(w) \in Tids
      /\ CommitTid(w).epoch \in {tx[w].maxR.epoch, tx[w].maxW.epoch, mrctid[w].epoch, ThLocalEpoch[w]}
      /\ CommitTid(w).epoch >= ThLocalEpoch[w]
  BY <1>1, CommitTidIsLargest
<1>4. CommitTid(w).epoch \in Nat
  BY <1>3 DEF Tids
<1> QED
  BY <1>1, <1>2, <1>3, <1>4

\* Every step keeps the epochs in order.
LEMMA EpochsStep ==
  ASSUME TypeOK, Place, TidEpochs, Epochs, [Next]_vars
  PROVE  TidEpochs' /\ Epochs'
<1>0. /\ GlobalEpoch \in Nat /\ ThLocalEpoch \in [Workers -> Nat] /\ mrctid \in [Workers -> Tids]
      /\ tidword \in [Values -> Tids]
      /\ \A u \in Workers : TxOK(tx[u]) /\ EpochsOf(u)
  BY DEF TypeOK, WorkerTypes, StoreTypes, TxOK, Epochs
<1>1. CASE UNCHANGED vars
  <2>1. TidEpochs'
    BY <1>1 DEF TidEpochs, vars, epochVars, store
  <2> QED
    BY <1>1, <2>1 DEF Epochs, EpochsOf, vars, epochVars, store
<1>2. CASE EpochAdvance
  <2>1. GlobalEpoch' = GlobalEpoch + 1 /\ UNCHANGED <<ThLocalEpoch, pc, tx, mrctid, tidword>>
    BY <1>2 DEF EpochAdvance, store
  <2>2. TidEpochs'
    <3>1. ASSUME NEW v \in Values PROVE tidword[v].epoch <= GlobalEpoch + 1
      <4>1. tidword[v].epoch <= GlobalEpoch /\ tidword[v].epoch \in Nat
        BY <1>0 DEF TidEpochs, Tids
      <4> QED
        BY <1>0, <4>1
    <3> QED
      BY <2>1, <3>1 DEF TidEpochs
  <2>3. ASSUME NEW u \in Workers PROVE EpochsOf(u)'
    <3>1. /\ ThLocalEpoch[u] \in Nat /\ tx[u].expected.epoch \in Nat /\ tx[u].maxR.epoch \in Nat
          /\ tx[u].maxW.epoch \in Nat /\ tx[u].maxtid.epoch \in Nat
      BY <1>0, TxFields DEF Tids
    <3>2. ASSUME NEW i \in 1 .. Len(tx[u].rset) PROVE tx[u].rset[i].tid.epoch \in Nat
      <4>1. tx[u].rset \in Seq(ReadEntries)
        BY <1>0, TxFields
      <4>2. tx[u].rset[i] \in ReadEntries
        BY <4>1
      <4> QED
        BY <4>2 DEF ReadEntries, Tids
    <3>3. EpochsOf(u) /\ GlobalEpoch \in Nat
      BY <1>0
    <3>4. ASSUME NEW n \in Nat, n <= GlobalEpoch PROVE n <= GlobalEpoch'
      BY <2>1, <3>3, <3>4
    <3>5. /\ ThLocalEpoch[u] <= GlobalEpoch' /\ tx[u].expected.epoch <= GlobalEpoch'
          /\ tx[u].maxR.epoch <= GlobalEpoch' /\ tx[u].maxW.epoch <= GlobalEpoch'
          /\ tx[u].maxtid.epoch <= GlobalEpoch'
      BY <3>1, <3>3, <3>4 DEF EpochsOf
    <3>6. \A i \in 1 .. Len(tx[u].rset) : tx[u].rset[i].tid.epoch <= GlobalEpoch'
      BY <3>2, <3>3, <3>4 DEF EpochsOf
    <3> QED
      BY <2>1, <3>3, <3>5, <3>6 DEF EpochsOf
  <2> QED
    BY <2>2, <2>3 DEF Epochs
<1>3. ASSUME NEW w \in Workers, WorkerStep(w) PROVE TidEpochs' /\ Epochs'
  <2>1. TidEpochs' /\ TxEpochs(tx'[w], GlobalEpoch) /\ Frame(w)
    BY <1>3, TidEpochsStep, TxEpochsStep, FrameStep
  <2>2. /\ GlobalEpoch' = GlobalEpoch
        /\ ThLocalEpoch' = ThLocalEpoch \/ ThLocalEpoch' = [ThLocalEpoch EXCEPT ![w] = GlobalEpoch]
        /\ mrctid' = mrctid \/ (Commit(w) /\ mrctid' = [mrctid EXCEPT ![w] = CommitTid(w)])
    BY <1>3, OwnStep
  <2>3. ThLocalEpoch'[w] <= GlobalEpoch' /\ ThLocalEpoch[w] <= ThLocalEpoch'[w]
    BY <1>0, <2>2 DEF EpochsOf
  <2>4. mrctid'[w].epoch <= ThLocalEpoch'[w]
    <3>1. CASE mrctid' = mrctid
      <4>1. mrctid[w].epoch \in Nat /\ mrctid[w].epoch <= ThLocalEpoch[w]
        BY <1>0 DEF EpochsOf, Tids
      <4>2. ThLocalEpoch[w] \in Nat /\ ThLocalEpoch'[w] \in Nat
        BY <1>0, <2>2
      <4> QED
        BY <2>3, <3>1, <4>1, <4>2
    <3>2. CASE Commit(w) /\ mrctid' = [mrctid EXCEPT ![w] = CommitTid(w)]
      <4>1. CommitTid(w).epoch = ThLocalEpoch[w] /\ ThLocalEpoch' = ThLocalEpoch
        BY <3>2, CommitEpoch DEF Commit, epochVars
      <4> QED
        BY <1>0, <3>2, <4>1
    <3> QED
      BY <2>2, <3>1, <3>2
  <2>5. pc'[w] = "validate" =>
          /\ tx'[w].maxR.epoch <= ThLocalEpoch'[w]
          /\ tx'[w].maxW.epoch <= ThLocalEpoch'[w]
          /\ \A i \in 1 .. Len(tx'[w].rset) : tx'[w].rset[i].tid.epoch <= ThLocalEpoch'[w]
    BY <1>3, ValidateEpochsStep
  <2>6. EpochsOf(w)'
    BY <2>1, <2>2, <2>3, <2>4, <2>5 DEF EpochsOf, TxEpochs
  <2>7. ASSUME NEW u \in Workers, u # w PROVE EpochsOf(u)'
    BY <1>0, <2>1, <2>7 DEF EpochsOf, Frame
  <2> QED
    BY <2>1, <2>6, <2>7 DEF Epochs
<1> QED
  BY <1>1, <1>2, <1>3 DEF Next

\* A commit that is added lies in its worker's epoch, the others stay as they are.
LEMMA CommitInLocalEpochStep ==
  ASSUME TypeOK, Place, Epochs, CommitInLocalEpoch, [Next]_vars
  PROVE  CommitInLocalEpoch'
<1>0. commits \in Seq(CommitTypes)
  BY DEF TypeOK
<1>1. ASSUME commits' = commits PROVE CommitInLocalEpoch'
  BY <1>1 DEF CommitInLocalEpoch, Txs
<1>2. ASSUME NEW w \in Workers, Commit(w), NEW c \in CommitTypes, commits' = Append(commits, c),
             c.tid = CommitTid(w), c.local = ThLocalEpoch[w]
      PROVE  CommitInLocalEpoch'
  <2>1. c.tid.epoch = c.local
    BY <1>2, CommitEpoch
  <2>2. \A i \in 1 .. Len(commits') :
          (i \in 1 .. Len(commits) /\ commits'[i] = commits[i]) \/ commits'[i] = c
    BY <1>0, <1>2, AppendEach
  <2> QED
    BY <2>1, <2>2 DEF CommitInLocalEpoch, Txs
<1>3. ASSUME NEW w \in Workers, WorkerStep(w) PROVE CommitInLocalEpoch'
  BY <1>1, <1>2, <1>3, CommitsStep
<1> QED
  BY <1>1, <1>3 DEF Next, EpochAdvance, vars

-----------------------------------------------------------------------------
(* The initial state                                                       *)

\* Nothing has run: no transaction is under way and every TID word is zero.
LEMMA InitTInv == Init => TInv
<1> SUFFICES ASSUME Init PROVE TInv
  OBVIOUS
<1>1. /\ ZeroTid \in Tids /\ ZeroTid.epoch = 0 /\ INITIAL \in Bodies
  BY DEF ZeroTid, Tid, Tids, Bodies
<1>2. \A w \in Workers : tx[w] = NewTx /\ pc[w] = "retry" /\ mrctid[w] = ZeroTid /\ ThLocalEpoch[w] = 0
  BY DEF Init
<1>3. WorkerTypes
  <2>1. /\ ThLocalEpoch \in [Workers -> Nat] /\ done \in [Workers -> Nat] /\ DOMAIN tx = Workers
        /\ mrctid \in [Workers -> Tids]
    BY <1>1 DEF Init
  <2>2. pc \in [Workers -> Pcs]
    BY DEF Init, Pcs
  <2> QED
    BY <1>2, <2>1, <2>2, NewTxOK DEF WorkerTypes, TxOK
<1>4. StoreTypes
  <2>1. \A k \in Keys : <<k, Recovered>> \in Values
    BY DEF Values
  <2> QED
    BY <1>1, <2>1 DEF Init, StoreTypes
<1>5. TypeOK
  BY <1>3, <1>4 DEF Init, TypeOK
<1>6. /\ NewTx.ip = 1 /\ NewTx.todo = {} /\ NewTx.rset = <<>> /\ NewTx.expected = ZeroTid
      /\ NewTx.maxR = ZeroTid /\ NewTx.maxW = ZeroTid /\ NewTx.maxtid = ZeroTid
  BY DEF NewTx
<1>7. Place
  BY <1>2, <1>6 DEF Place, PlaceOf
<1>8. TidEpochs
  BY <1>1 DEF Init, TidEpochs
<1>9. Epochs
  BY <1>1, <1>2, <1>6 DEF Init, Epochs, EpochsOf
<1>10. CommitInLocalEpoch
  BY DEF Init, CommitInLocalEpoch, Txs
<1> QED
  BY <1>5, <1>7, <1>8, <1>9, <1>10 DEF TInv

-----------------------------------------------------------------------------
(* Theorems for every workload                                             *)

\* TInv is inductive.
THEOREM TypedInvariance == Spec => []TInv
<1>1. Init => TInv
  BY InitTInv
<1>2. TInv /\ [Next]_vars => TInv'
  BY TypeStep, PlaceStep, EpochsStep, CommitInLocalEpochStep DEF TInv
<1> QED
  BY <1>1, <1>2, PTL DEF Spec

\* TxExecutor, the tree and the Values always hold what the code may put there.
THEOREM TypeCorrect == Spec => []TypeOK
<1>1. TInv => TypeOK
  BY DEF TInv
<1> QED
  BY <1>1, TypedInvariance, PTL

\* A commit's TID lies in the epoch its worker took between locking and validation,
\* whatever the workload (validationPhase, writePhase [c], wal).
THEOREM CommitsInEpoch == Spec => []CommitInLocalEpoch
<1>1. TInv => CommitInLocalEpoch
  BY DEF TInv
<1> QED
  BY <1>1, TypedInvariance, PTL
=============================================================================
