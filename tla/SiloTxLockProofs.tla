-------------------------- MODULE SiloTxLockProofs --------------------------
(***************************************************************************)
(* Proofs about the locks and the TIDs of SiloTx, for every number of      *)
(* workers, every set of keys and every input in which no two workers      *)
(* write the same record.                                                  *)
(***************************************************************************)
EXTENDS SiloTxProofs

-----------------------------------------------------------------------------
(* The inductive invariant for workloads without write-write conflicts     *)

Owns(w) == Owned(load, w)

\* A Value is known by its key, wherever it is found.
TreeKeys == \A k \in Keys : tree[k] # NULL => tree[k][1] = k

\* The inserted records that abort has taken out of the tree.
Removed(w) == IF pc[w] = "abort" THEN Inserted(tx[w].wset) \ tx[w].todo ELSE {}

\* A worker writes its own keys.
OwnWrites(w) ==
  \A k \in DOMAIN tx[w].wset :
    /\ k \in Owns(w)
    /\ tx[w].wset[k].v[1] = k
    /\ k \notin Removed(w) => tree[k] = tx[w].wset[k].v

\* What it knows of them is what the tree has: from reads, from scans, and in
\* read_internal.
OwnReads(w) ==
  pc[w] # "abort" =>
    \A i \in 1 .. Len(tx[w].rset) :
      tx[w].rset[i].key \in Owns(w) => tree[tx[w].rset[i].key] = tx[w].rset[i].v

OwnScan(w) ==
  /\ \A i \in 1 .. Len(tx[w].scan) :
       tx[w].scan[i][1] \in Owns(w) => tree[tx[w].scan[i][1]] = tx[w].scan[i][2]
  /\ tx[w].scan # <<>> => pc[w] \in {"load", "recheck", "scan"}

OwnFound(w) ==
  pc[w] \in {"load", "recheck"} =>
    IF tx[w].scan = <<>>
    THEN KeyOf(w) \in Owns(w) => tx[w].found = tree[KeyOf(w)]
    ELSE tx[w].found = Head(tx[w].scan)[2]

OwnOf(w) == OwnWrites(w) /\ OwnReads(w) /\ OwnScan(w) /\ OwnFound(w)

\* The loops over the write set; no lock is ever found taken.
LoopOf(w) ==
  /\ tx[w].conflict = FALSE
  /\ pc[w] = "lock" =>
       /\ tx[w].todo \subseteq Lockable(tx[w].wset)
       /\ \A k \in Lockable(tx[w].wset) \ tx[w].todo : \A j \in tx[w].todo : k < j
  /\ pc[w] \in {"unlock", "unlockstore"} =>
       /\ tx[w].todo \subseteq Lockable(tx[w].wset)
       /\ tx[w].after = "abort"
  /\ pc[w] = "unlockstore" =>
       tx[w].expected = tidword[tx[w].wset[Least(tx[w].todo)].v]
  /\ pc[w] = "abort" => tx[w].todo \subseteq Inserted(tx[w].wset)

\* The keys of the records that are locked on behalf of w: those it has locked, and
\* those it has put into the tree with the lock bit and not stored or removed.
Kept(w) ==
  CASE pc[w] \in {"write", "writing", "abort"} -> tx[w].todo
    [] pc[w] \in {"unlock", "unlockstore"} -> tx[w].todo \cup Inserted(tx[w].wset)
    [] pc[w] = "lock" -> DOMAIN tx[w].wset \ tx[w].todo
    [] pc[w] = "validate" -> DOMAIN tx[w].wset
    [] OTHER -> Inserted(tx[w].wset)

\* These records, and no other ones of its keys, have the lock bit.
LocksOf(w) ==
  /\ \A k \in Kept(w) : tidword[tx[w].wset[k].v].lock = TRUE
  /\ \A k \in Owns(w) : tree[k] # NULL /\ k \notin Kept(w) => tidword[tree[k]].lock = FALSE

\* The TID a commit will store is not older than that of the record.
TidsOf(w) ==
  /\ pc[w] \in {"op", "load", "recheck", "body", "scan"} =>
       \A k \in Inserted(tx[w].wset) :
         tidword[tx[w].wset[k].v].epoch = 0 /\ tidword[tx[w].wset[k].v].tid = 0
  /\ pc[w] \in {"lock", "validate"} =>
       \A k \in Kept(w) : ~Newer(tidword[tx[w].wset[k].v], tx[w].maxW)
  /\ pc[w] \in {"write", "writing"} =>
       /\ tx[w].maxtid.lock = FALSE
       /\ \A k \in tx[w].todo : ~Newer(tidword[tx[w].wset[k].v], tx[w].maxtid)

WorkerInv(w) == OwnOf(w) /\ LoopOf(w) /\ LocksOf(w) /\ TidsOf(w)

\* A record that nobody writes is never locked.
Unowned ==
  \A k \in Keys :
    (\A w \in Workers : k \notin Owns(w)) /\ tree[k] # NULL => tidword[tree[k]].lock = FALSE

LInv == TreeKeys /\ Unowned /\ \A w \in Workers : WorkerInv(w)

-----------------------------------------------------------------------------
(* The keys a worker owns                                                  *)

\* No Value is a null pointer.
LEMMA NullIsNoValue == NULL \notin Values
BY DEF NULL, Values

\* What is put into the write set is a key of the worker.
LEMMA AddedIsOwned ==
  ASSUME TypeOK, Place, NEW w \in Workers, NEW k, NEW v,
         NEW op \in {"INSERT", "WRITE", "DELETE"}, Added(w, k, v, op)
  PROVE  k \in Owns(w)
<1>1. PlaceOf(w) /\ pc[w] = "op" /\ k \in Keys /\ tx[w].ip <= Len(Program(w))
  BY DEF Place, Added
<1>2. done[w] < Len(load[w]) /\ tx[w].ip \in Nat /\ 1 <= tx[w].ip
  BY <1>1, Typed, TxFields DEF PlaceOf
<1>3. /\ load[w] \in Seq(Seq(Ops)) /\ done[w] + 1 \in 1 .. Len(load[w])
      /\ Program(w) \in Seq(Ops)
  BY <1>1, <1>2, ProgramType
<1>4. done[w] + 1 \in DOMAIN load[w]
  BY <1>3
<1>5. tx[w].ip \in DOMAIN load[w][done[w] + 1]
  BY <1>1, <1>2, <1>3 DEF Program
<1>6. load[w][done[w] + 1][tx[w].ip].op = op /\ load[w][done[w] + 1][tx[w].ip].key = k
  BY DEF Added, Program
<1> QED
  BY <1>1, <1>4, <1>5, <1>6 DEF Owns, Owned

\* Different workers own different keys.
LEMMA OwnsDiffer ==
  ASSUME TypeOK, \A ld \in Loads : NoConflicts(ld), NEW w \in Workers, NEW u \in Workers, w # u,
         NEW k \in Owns(u)
  PROVE  k \notin Owns(w)
BY DEF TypeOK, NoConflicts, Owns

\* The entries of a write set: different keys have different Values.
LEMMA OwnEntries ==
  ASSUME TypeOK, NEW w \in Workers, OwnOf(w)
  PROVE  /\ \A k \in DOMAIN tx[w].wset : /\ tx[w].wset[k] \in WriteEntries /\ tx[w].wset[k].v \in Values
                                         /\ tx[w].wset[k].v[1] = k /\ k \in Owns(w) /\ k \in Keys
                                         /\ tidword[tx[w].wset[k].v] \in Tids
         /\ \A k, j \in DOMAIN tx[w].wset : k # j => tx[w].wset[k].v # tx[w].wset[j].v
<1>1. TxOK(tx[w]) /\ tidword \in [Values -> Tids]
  BY Typed
<1>2. tx[w].wset \in [DOMAIN tx[w].wset -> WriteEntries] /\ DOMAIN tx[w].wset \subseteq Keys
  BY <1>1, TxFields
<1>3. \A k \in DOMAIN tx[w].wset : tx[w].wset[k] \in WriteEntries /\ tx[w].wset[k].v \in Values
  BY <1>2 DEF WriteEntries
<1>4. \A k \in DOMAIN tx[w].wset : tx[w].wset[k].v[1] = k /\ k \in Owns(w)
  BY DEF OwnOf, OwnWrites
<1> QED
  BY <1>1, <1>2, <1>3, <1>4

\* A step of w changes the records of its own keys only.
StoreFrame(w) ==
  /\ \A k \in Keys : k \notin Owns(w) => tree'[k] = tree[k]
  /\ \A v \in Values : v[1] \notin Owns(w) => tidword'[v] = tidword[v]

\* Insert, lockWriteSet, unlockWriteSet, writePhase and abort touch what is in the
\* write set, which are keys the worker owns.
LEMMA StoreFrameStep ==
  ASSUME TypeOK, Place, NEW w \in Workers, OwnOf(w), WorkerStep(w)
  PROVE  StoreFrame(w)
<1>0. tree \in [Keys -> Values \cup {NULL}] /\ tidword \in [Values -> Tids]
  BY Typed
<1>1. ASSUME UNCHANGED <<tree, tidword>> PROVE StoreFrame(w)
  BY <1>1 DEF StoreFrame
<1>2. ASSUME NEW k \in DOMAIN tx[w].wset, NEW m, tree' = tree,
             tidword' = [tidword EXCEPT ![tx[w].wset[k].v] = m]
      PROVE  StoreFrame(w)
  BY <1>0, <1>2, OwnEntries DEF StoreFrame
<1>3. CASE OperationStep(w)
  <2>1. CASE Inserts(w)
    <3>1. PICK k \in Keys :
            /\ Added(w, k, <<k, w>>, "INSERT")
            /\ tree' = [tree EXCEPT ![k] = <<k, w>>]
            /\ tidword' = [tidword EXCEPT ![<<k, w>>] = Tid(0, 0, TRUE, TRUE)]
      BY <2>1 DEF Inserts
    <3>2. k \in Owns(w)
      BY <3>1, AddedIsOwned
    <3>3. <<k, w>>[1] = k
      OBVIOUS
    <3> QED
      BY <1>0, <3>1, <3>2, <3>3 DEF StoreFrame
  <2>2. CASE Adds(w)
    BY <1>1, <2>2 DEF Adds, store
  <2> QED
    BY <1>1, <1>3, <2>1, <2>2, OperationViews DEF OperationView, Fails, Steps, Finds, Expects, Reloads,
       Passes, Enters, Scans, Collects, store
<1>4. CASE LockOne(w)
  <2>1. PICK k : k = Least(tx[w].todo)
    OBVIOUS
  <2>2. PICK v : v = tx[w].wset[k].v
    OBVIOUS
  <2>3. CASE tidword[v].lock
    BY <1>1, <1>4, <2>1, <2>2, <2>3, LockConflictView DEF store
  <2>4. CASE ~tidword[v].lock
    <3>1. Takes(w, k, v)
      BY <1>4, <2>1, <2>2, <2>4, LockView
    <3>2. k \in DOMAIN tx[w].wset
      BY <2>1, <3>1, FirstKey DEF Takes
    <3>3. tidword' = [tidword EXCEPT ![tx[w].wset[k].v] = [tidword[v] EXCEPT !.lock = TRUE]] /\ tree' = tree
      BY <2>2, <3>1 DEF Takes
    <3> QED
      BY <1>2, <3>2, <3>3
  <2> QED
    BY <2>3, <2>4
<1>5. CASE UnlockStore(w)
  <2>1. PICK k : k = Least(tx[w].todo)
    OBVIOUS
  <2>2. tidword' = [tidword EXCEPT ![tx[w].wset[k].v] = [tx[w].expected EXCEPT !.lock = FALSE]]
        /\ tree' = tree /\ tx[w].todo # {}
    BY <1>5, <2>1, UnlockStoreView
  <2>3. k \in DOMAIN tx[w].wset
    BY <2>1, <2>2, FirstKey
  <2> QED
    BY <1>2, <2>2, <2>3
<1>6. CASE StoreTid(w)
  <2>1. PICK k : k = Least(tx[w].todo)
    OBVIOUS
  <2>2. PICK m \in Tids : tidword' = [tidword EXCEPT ![tx[w].wset[k].v] = m] /\ tree' = tree /\ tx[w].todo # {}
    BY <1>6, <2>1, StoreTidView
  <2>3. k \in DOMAIN tx[w].wset
    BY <2>1, <2>2, FirstKey
  <2> QED
    BY <1>2, <2>2, <2>3
<1>7. CASE RemoveInserted(w)
  <2>1. tree' = [tree EXCEPT ![Least(tx[w].todo)] = NULL] /\ tidword' = tidword /\ tx[w].todo # {}
    BY <1>7, RemoveInsertedView
  <2>2. Least(tx[w].todo) \in Owns(w)
    BY <2>1, FirstKey, OwnEntries
  <2> QED
    BY <1>0, <2>1, <2>2 DEF StoreFrame
<1>8. CASE Begin(w) \/ WriteDone(w) \/ AbortDone(w)
  BY <1>1, <1>8, NewTxView DEF store
<1>9. CASE StartValidation(w) \/ UnlockLoad(w) \/ Unlocked(w) \/ TakeEpoch(w) \/ ValidateOne(w) \/ Commit(w)
           \/ WriteBody(w)
  BY <1>1, <1>9 DEF StartValidation, UnlockLoad, Unlocked, TakeEpoch, ValidateOne, Commit, WriteBody, store
<1> QED
  BY <1>3, <1>4, <1>5, <1>6, <1>7, <1>8, <1>9 DEF WorkerStep, OperationStep

\* Kept is a part of the write set.
LEMMA KeptWritten ==
  ASSUME NEW w \in Workers, tx[w].todo \subseteq DOMAIN tx[w].wset
  PROVE  Kept(w) \subseteq DOMAIN tx[w].wset
BY DEF Kept, Inserted

\* What holds for a worker holds still after a step of another one.
LEMMA OthersStep ==
  ASSUME TypeOK, Place, \A ld \in Loads : NoConflicts(ld), NEW w \in Workers, NEW u \in Workers, u # w,
         TreeKeys, Frame(w), StoreFrame(w), WorkerInv(u)
  PROVE  WorkerInv(u)'
<1>1. tx'[u] = tx[u] /\ pc'[u] = pc[u] /\ done'[u] = done[u] /\ load' = load
  BY DEF Frame
<1>2. /\ Owns(u)' = Owns(u) /\ KeyOf(u)' = KeyOf(u) /\ Kept(u)' = Kept(u) /\ Removed(u)' = Removed(u)
  BY <1>1 DEF Owns, KeyOf, Program, Kept, Removed
<1>3. \A k \in Owns(u) : k \in Keys /\ tree'[k] = tree[k]
  <2>1. \A k \in Owns(u) : k \in Keys
    BY DEF Owns, Owned
  <2> QED
    BY <2>1, OwnsDiffer DEF StoreFrame
<1>4. \A v \in Values : v[1] \in Owns(u) => tidword'[v] = tidword[v]
  BY OwnsDiffer DEF StoreFrame
<1>5. OwnOf(u) /\ LoopOf(u) /\ LocksOf(u) /\ TidsOf(u)
  BY DEF WorkerInv
<1>6. \A k \in DOMAIN tx[u].wset : tidword'[tx[u].wset[k].v] = tidword[tx[u].wset[k].v] /\ tree'[k] = tree[k]
  BY <1>3, <1>4, <1>5, OwnEntries
<1>7. Kept(u) \subseteq DOMAIN tx[u].wset /\ tx[u].todo \subseteq DOMAIN tx[u].wset
      /\ Inserted(tx[u].wset) \subseteq DOMAIN tx[u].wset
  BY KeptWritten DEF Place, PlaceOf, Inserted
<1>8. OwnOf(u)'
  <2>1. OwnWrites(u)'
    BY <1>1, <1>2, <1>5, <1>6 DEF OwnOf, OwnWrites
  <2>2. OwnReads(u)'
    BY <1>1, <1>2, <1>3, <1>5 DEF OwnOf, OwnReads
  <2>3. OwnScan(u)'
    BY <1>1, <1>2, <1>3, <1>5 DEF OwnOf, OwnScan
  <2>4. OwnFound(u)'
    BY <1>1, <1>2, <1>3, <1>5 DEF OwnOf, OwnFound
  <2> QED
    BY <2>1, <2>2, <2>3, <2>4 DEF OwnOf
<1>9. LoopOf(u)'
  <2>1. pc[u] = "unlockstore" =>
          tidword'[tx[u].wset[Least(tx[u].todo)].v] = tidword[tx[u].wset[Least(tx[u].todo)].v]
    <3>1. pc[u] = "unlockstore" => tx[u].todo # {}
      BY DEF Place, PlaceOf
    <3> QED
      BY <1>6, <3>1, FirstKey
  <2> QED
    BY <1>1, <1>5, <2>1 DEF LoopOf
<1>10. LocksOf(u)'
  <2>1. \A k \in Kept(u) : tidword'[tx'[u].wset[k].v].lock = TRUE
    BY <1>1, <1>5, <1>6, <1>7 DEF LocksOf
  <2>2. ASSUME NEW k \in Owns(u), tree'[k] # NULL, k \notin Kept(u) PROVE tidword'[tree'[k]].lock = FALSE
    <3>1. tree'[k] = tree[k] /\ tree[k] \in Values
      BY <1>3, <2>2, Typed
    <3>2. tree[k][1] = k
      BY <1>3, <2>2, <3>1 DEF TreeKeys
    <3> QED
      BY <1>4, <1>5, <2>2, <3>1, <3>2 DEF LocksOf
  <2> QED
    BY <1>2, <2>1, <2>2 DEF LocksOf
<1>11. TidsOf(u)'
  BY <1>1, <1>2, <1>5, <1>6, <1>7 DEF TidsOf
<1> QED
  BY <1>8, <1>9, <1>10, <1>11 DEF WorkerInv

-----------------------------------------------------------------------------
(* The operations and the keys a worker owns                               *)

\* A key that is in the read set is looked up there, another one in the tree: for
\* its own keys a worker finds the same Value in both.
LEMMA LookUpIsTree ==
  ASSUME TypeOK, NEW w \in Workers, OwnOf(w), pc[w] # "abort", NEW k \in Owns(w)
  PROVE  LookUp(w, k) = tree[k]
<1>1. CASE ReadsOf(w, k) = {}
  BY <1>1 DEF LookUp
<1>2. CASE ReadsOf(w, k) # {}
  <2>1. ReadsOf(w, k) \in SUBSET Nat
    BY DEF ReadsOf
  <2>2. \E x \in ReadsOf(w, k) : \A y \in ReadsOf(w, k) : x <= y
    BY <1>2, <2>1, LeastExists
  <2>3. PICK i : i = Least(ReadsOf(w, k))
    OBVIOUS
  <2>4. i \in ReadsOf(w, k)
    BY <2>2, <2>3 DEF Least
  <2>5. i \in 1 .. Len(tx[w].rset) /\ tx[w].rset[i].key = k
    BY <2>4 DEF ReadsOf
  <2>6. tree[k] = tx[w].rset[i].v
    BY <2>5 DEF OwnOf, OwnReads
  <2> QED
    BY <1>2, <2>3, <2>6 DEF LookUp
<1> QED
  BY <1>1, <1>2

\* What is left of a list.
LEMMA TailEach ==
  ASSUME NEW S, NEW s \in Seq(S), s # <<>>
  PROVE  /\ Tail(s) \in Seq(S) /\ Head(s) = s[1] /\ 1 \in 1 .. Len(s)
         /\ \A i \in 1 .. Len(Tail(s)) : i + 1 \in 1 .. Len(s) /\ Tail(s)[i] = s[i + 1]
BY HeadTailProperties

\* Insert, Write, Delete, Read and Scan, step by step.
LEMMA OwnOperation ==
  ASSUME TypeOK, Place, TreeKeys, NEW w \in Workers, OwnOf(w), OperationStep(w)
  PROVE  OwnOf(w)'
<1>0. /\ TxOK(tx[w]) /\ tree \in [Keys -> Values \cup {NULL}]
      /\ OwnWrites(w) /\ OwnReads(w) /\ OwnScan(w) /\ OwnFound(w)
  BY Typed DEF OwnOf
<1>1. /\ TxOK(tx'[w]) /\ load' = load /\ done' = done /\ OperationView(w)
  BY OperationViews DEF OperationView
<1>2. /\ Owns(w)' = Owns(w)
      /\ tx'[w].ip = tx[w].ip => KeyOf(w)' = KeyOf(w)
  BY <1>1 DEF Owns, KeyOf, Program
<1>3. /\ tx[w].scan \in Seq(Keys \X Values) /\ tx[w].rset \in Seq(ReadEntries)
      /\ tx'[w].scan \in Seq(Keys \X Values)
      /\ Inserted(tx[w].wset) \subseteq DOMAIN tx[w].wset
  BY <1>0, <1>1, TxFields DEF Inserted
<1>4. CASE Fails(w)
  <2>1. /\ pc[w] \in {"op", "load", "recheck"} /\ pc'[w] = "abort"
        /\ tx'[w].todo = Inserted(tx[w].wset) /\ tx'[w].wset = tx[w].wset
        /\ tx'[w].scan = tx[w].scan /\ tree' = tree /\ tx[w].scan = <<>>
    BY <1>0, <1>4 DEF Fails, SameSets, SamePlace, store, OwnScan
  <2>2. OwnWrites(w)'
    BY <1>0, <1>2, <2>1 DEF OwnWrites, Removed
  <2>3. OwnReads(w)' /\ OwnScan(w)' /\ OwnFound(w)'
    BY <2>1 DEF OwnReads, OwnScan, OwnFound
  <2> QED
    BY <2>2, <2>3 DEF OwnOf
<1>5. ASSUME tree' = tree, tx'[w].wset = tx[w].wset, tx'[w].rset = tx[w].rset,
             pc[w] # "abort", pc'[w] # "abort"
      PROVE  OwnWrites(w)' /\ OwnReads(w)'
  BY <1>0, <1>2, <1>5 DEF OwnWrites, OwnReads, Removed
<1>6. CASE Steps(w)
  <2>1. /\ pc[w] \in {"op", "body", "scan"} /\ pc'[w] = "op"
        /\ tx'[w].wset = tx[w].wset /\ tx'[w].rset = tx[w].rset
        /\ tx'[w].scan = tx[w].scan /\ tree' = tree /\ tx[w].scan = <<>>
    BY <1>0, <1>6 DEF Steps, SameSets, store, OwnScan
  <2>2. OwnWrites(w)' /\ OwnReads(w)'
    BY <1>5, <2>1
  <2>3. OwnScan(w)' /\ OwnFound(w)'
    BY <2>1 DEF OwnScan, OwnFound
  <2> QED
    BY <2>2, <2>3 DEF OwnOf
<1>7. CASE Finds(w)
  <2>1. /\ pc[w] \in {"op", "scan"} /\ pc'[w] = "load"
        /\ tx'[w].wset = tx[w].wset /\ tx'[w].rset = tx[w].rset
        /\ tx'[w].scan = tx[w].scan /\ tree' = tree /\ tx'[w].ip = tx[w].ip
        /\ \/ pc[w] = "op" /\ tx'[w].found = tree[KeyOf(w)]
           \/ tx[w].scan # <<>> /\ tx'[w].found = Head(tx[w].scan)[2]
    BY <1>7 DEF Finds, SameSets, store
  <2>2. OwnWrites(w)' /\ OwnReads(w)'
    BY <1>5, <2>1
  <2>3. OwnScan(w)'
    BY <1>0, <1>2, <2>1 DEF OwnScan
  <2>4. OwnFound(w)'
    BY <1>0, <1>2, <2>1 DEF OwnFound, OwnScan
  <2> QED
    BY <2>2, <2>3, <2>4 DEF OwnOf
<1>8. CASE Expects(w) \/ Reloads(w)
  <2>1. /\ pc[w] \in {"load", "recheck"} /\ pc'[w] \in {"load", "recheck"}
        /\ tx'[w].wset = tx[w].wset /\ tx'[w].rset = tx[w].rset
        /\ tx'[w].scan = tx[w].scan /\ tree' = tree /\ tx'[w].ip = tx[w].ip /\ tx'[w].found = tx[w].found
    BY <1>8 DEF Expects, Reloads, SameSets, SamePlace, store
  <2>2. OwnWrites(w)' /\ OwnReads(w)'
    BY <1>5, <2>1
  <2>3. OwnScan(w)' /\ OwnFound(w)'
    BY <1>0, <1>2, <2>1 DEF OwnScan, OwnFound
  <2> QED
    BY <2>2, <2>3 DEF OwnOf
<1>9. ASSUME tree' = tree, tx[w].scan # <<>>, tx'[w].scan = Tail(tx[w].scan), pc'[w] = "scan"
      PROVE  OwnScan(w)'
  <2>1. ASSUME NEW i \in 1 .. Len(tx'[w].scan), tx'[w].scan[i][1] \in Owns(w)
        PROVE  tree'[tx'[w].scan[i][1]] = tx'[w].scan[i][2]
    <3>1. i + 1 \in 1 .. Len(tx[w].scan) /\ tx'[w].scan[i] = tx[w].scan[i + 1]
      BY <1>3, <1>9, TailEach
    <3> QED
      BY <1>0, <1>9, <2>1, <3>1 DEF OwnScan
  <2> QED
    BY <1>2, <1>9, <2>1 DEF OwnScan
<1>10. CASE Passes(w)
  <2>1. /\ pc[w] \in {"load", "recheck", "scan"} /\ pc'[w] = "scan"
        /\ tx'[w].wset = tx[w].wset /\ tx'[w].rset = tx[w].rset
        /\ tx[w].scan # <<>> /\ tx'[w].scan = Tail(tx[w].scan) /\ tree' = tree
    BY <1>10 DEF Passes, SameSets, store
  <2>2. OwnWrites(w)' /\ OwnReads(w)'
    BY <1>5, <2>1
  <2>3. OwnScan(w)'
    BY <1>9, <2>1
  <2>4. OwnFound(w)'
    BY <2>1 DEF OwnFound
  <2> QED
    BY <2>2, <2>3, <2>4 DEF OwnOf
<1>11. CASE Enters(w)
  <2>1. /\ pc[w] = "recheck" /\ pc'[w] \in {"body", "scan"} /\ tree' = tree
        /\ tx'[w].wset = tx[w].wset
    BY <1>11 DEF Enters, store
  <2>2. PICK k \in Keys :
          /\ tx'[w].rset = Append(tx[w].rset, [op |-> "READ", key |-> k, v |-> tx[w].found,
                                               tid |-> tidword[tx[w].found]])
          /\ \/ /\ tx[w].scan = <<>> /\ k = KeyOf(w)
                /\ tx'[w].scan = <<>> /\ pc'[w] = "body"
             \/ /\ tx[w].scan # <<>> /\ k = Head(tx[w].scan)[1]
                /\ tx'[w].scan = Tail(tx[w].scan) /\ pc'[w] = "scan"
    BY <1>11 DEF Enters
  <2>3. PICK e : e = [op |-> "READ", key |-> k, v |-> tx[w].found, tid |-> tidword[tx[w].found]]
    OBVIOUS
  <2>4. tx[w].found \in Values
    BY <2>1 DEF Place, PlaceOf
  <2>5. tidword[tx[w].found] \in Tids
    BY <2>4, Typed
  <2>6. e \in ReadEntries /\ e.key = k /\ e.v = tx[w].found
    BY <2>3, <2>4, <2>5 DEF ReadEntries
  <2>7. k \in Owns(w) => tree[k] = tx[w].found
    <3>1. CASE tx[w].scan = <<>>
      BY <1>0, <2>1, <2>2, <3>1 DEF OwnFound
    <3>2. CASE tx[w].scan # <<>>
      <4>1. tx[w].found = Head(tx[w].scan)[2]
        BY <1>0, <2>1, <3>2 DEF OwnFound
      <4>2. Head(tx[w].scan) = tx[w].scan[1] /\ 1 \in 1 .. Len(tx[w].scan)
        BY <1>3, <3>2, TailEach
      <4>3. k = tx[w].scan[1][1]
        BY <2>2, <3>2, <4>2
      <4> QED
        BY <1>0, <4>1, <4>2, <4>3 DEF OwnScan
    <3> QED
      BY <3>1, <3>2
  <2>8. OwnReads(w)'
    <3>1. ASSUME NEW i \in 1 .. Len(tx'[w].rset), tx'[w].rset[i].key \in Owns(w)
          PROVE  tree'[tx'[w].rset[i].key] = tx'[w].rset[i].v
      <4>1. (i \in 1 .. Len(tx[w].rset) /\ tx'[w].rset[i] = tx[w].rset[i]) \/ tx'[w].rset[i] = e
        BY <1>3, <2>2, <2>3, <2>6, AppendEach
      <4>2. CASE tx'[w].rset[i] = e
        BY <2>1, <2>6, <2>7, <3>1, <4>2
      <4>3. CASE i \in 1 .. Len(tx[w].rset) /\ tx'[w].rset[i] = tx[w].rset[i]
        BY <1>0, <2>1, <3>1, <4>3 DEF OwnReads
      <4> QED
        BY <4>1, <4>2, <4>3
    <3> QED
      BY <1>2, <3>1 DEF OwnReads
  <2>9. OwnWrites(w)'
    BY <1>0, <1>2, <2>1 DEF OwnWrites, Removed
  <2>10. OwnScan(w)'
    <3>1. CASE tx[w].scan = <<>>
      BY <2>2, <3>1 DEF OwnScan
    <3>2. CASE tx[w].scan # <<>>
      BY <1>9, <2>1, <2>2, <3>2
    <3> QED
      BY <3>1, <3>2
  <2>11. OwnFound(w)'
    BY <2>1 DEF OwnFound
  <2> QED
    BY <2>8, <2>9, <2>10, <2>11 DEF OwnOf
<1>12. CASE Scans(w)
  <2>1. /\ pc[w] = "op" /\ pc'[w] = "scan" /\ tree' = tree
        /\ tx'[w].wset = tx[w].wset /\ tx'[w].rset = tx[w].rset
    BY <1>12 DEF Scans, SameSets, store
  <2>2. OwnWrites(w)' /\ OwnReads(w)'
    BY <1>5, <2>1
  <2>3. OwnScan(w)'
    BY <1>12, <2>1 DEF Scans, OwnScan
  <2>4. OwnFound(w)'
    BY <2>1 DEF OwnFound
  <2> QED
    BY <2>2, <2>3, <2>4 DEF OwnOf
<1>13. CASE Collects(w)
  <2>1. /\ pc[w] = "scan" /\ pc'[w] = "scan" /\ tree' = tree
        /\ tx'[w].wset = tx[w].wset /\ tx'[w].rset = tx[w].rset /\ tx'[w].scan = tx[w].scan
    BY <1>13 DEF Collects, SameSets, SamePlace, store
  <2>2. OwnWrites(w)' /\ OwnReads(w)'
    BY <1>5, <2>1
  <2>3. OwnScan(w)' /\ OwnFound(w)'
    BY <1>0, <1>2, <2>1 DEF OwnScan, OwnFound
  <2> QED
    BY <2>2, <2>3 DEF OwnOf
<1>14. CASE Adds(w)
  <2>1. PICK k \in Keys, op \in {"WRITE", "DELETE"} :
          Added(w, k, LookUp(w, k), op) /\ tx'[w].rset = tx[w].rset /\ tree' = tree
    BY <1>14 DEF Adds, store
  <2>2. PICK v \in Values : v = LookUp(w, k)
    BY <2>1 DEF Added
  <2>3. /\ pc[w] = "op" /\ pc'[w] = "op" /\ tx'[w].scan = tx[w].scan
        /\ DOMAIN tx'[w].wset = DOMAIN tx[w].wset \cup {k}
        /\ \A j \in DOMAIN tx[w].wset : tx'[w].wset[j] = tx[w].wset[j]
        /\ tx'[w].wset[k] = [v |-> v, op |-> op]
    BY <2>1, <2>2 DEF Added
  <2>4. k \in Owns(w)
    BY <2>1, AddedIsOwned
  <2>5. tree[k] = v
    BY <2>2, <2>3, <2>4, LookUpIsTree
  <2>6. v[1] = k
    BY <2>5, NullIsNoValue DEF TreeKeys
  <2>7. OwnWrites(w)'
    <3>1. ASSUME NEW j \in DOMAIN tx'[w].wset
          PROVE  j \in Owns(w) /\ tx'[w].wset[j].v[1] = j /\ tree'[j] = tx'[w].wset[j].v
      <4>1. CASE j = k
        BY <2>1, <2>3, <2>4, <2>5, <2>6, <4>1
      <4>2. CASE j \in DOMAIN tx[w].wset
        BY <1>0, <2>1, <2>3, <4>2 DEF OwnWrites, Removed
      <4> QED
        BY <2>3, <4>1, <4>2
    <3> QED
      BY <1>2, <3>1 DEF OwnWrites
  <2>8. OwnReads(w)'
    BY <1>0, <1>2, <2>1, <2>3 DEF OwnReads
  <2>9. OwnScan(w)' /\ OwnFound(w)'
    BY <1>0, <1>2, <2>1, <2>3 DEF OwnScan, OwnFound
  <2> QED
    BY <2>7, <2>8, <2>9 DEF OwnOf
<1>15. CASE Inserts(w)
  <2>1. PICK k \in Keys :
          /\ Added(w, k, <<k, w>>, "INSERT")
          /\ tx'[w].rset = Append(tx[w].rset, [op |-> "READ", key |-> k, v |-> <<k, w>>,
                                               tid |-> Tid(0, 0, TRUE, TRUE)])
          /\ tree[k] = NULL /\ tree' = [tree EXCEPT ![k] = <<k, w>>]
    BY <1>15 DEF Inserts
  <2>2. PICK v \in Values : v = <<k, w>>
    BY <2>1 DEF Added
  <2>3. /\ pc[w] = "op" /\ pc'[w] = "op" /\ tx'[w].scan = tx[w].scan /\ k \notin DOMAIN tx[w].wset
        /\ DOMAIN tx'[w].wset = DOMAIN tx[w].wset \cup {k}
        /\ \A j \in DOMAIN tx[w].wset : tx'[w].wset[j] = tx[w].wset[j]
        /\ tx'[w].wset[k] = [v |-> v, op |-> "INSERT"]
    BY <2>1, <2>2 DEF Added
  <2>4. k \in Owns(w) /\ v[1] = k
    BY <2>1, <2>2, AddedIsOwned
  <2>5. tree' = [tree EXCEPT ![k] = v]
    BY <2>1, <2>2
  <2>6. OwnWrites(w)'
    <3>1. ASSUME NEW j \in DOMAIN tx'[w].wset
          PROVE  j \in Owns(w) /\ tx'[w].wset[j].v[1] = j /\ tree'[j] = tx'[w].wset[j].v
      <4>1. CASE j = k
        BY <1>0, <2>3, <2>4, <2>5, <4>1
      <4>2. CASE j \in DOMAIN tx[w].wset
        BY <1>0, <2>3, <2>5, <4>2 DEF OwnWrites, Removed
      <4> QED
        BY <2>3, <4>1, <4>2
    <3> QED
      BY <1>2, <3>1 DEF OwnWrites
  <2>7. PICK e : e = [op |-> "READ", key |-> k, v |-> v, tid |-> Tid(0, 0, TRUE, TRUE)]
    OBVIOUS
  <2>8. e \in ReadEntries /\ e.key = k /\ e.v = v
    BY <2>7 DEF ReadEntries, Tid, Tids
  <2>9. OwnReads(w)'
    <3>1. ASSUME NEW i \in 1 .. Len(tx'[w].rset), tx'[w].rset[i].key \in Owns(w)
          PROVE  tree'[tx'[w].rset[i].key] = tx'[w].rset[i].v
      <4>1. (i \in 1 .. Len(tx[w].rset) /\ tx'[w].rset[i] = tx[w].rset[i]) \/ tx'[w].rset[i] = e
        BY <1>3, <2>1, <2>2, <2>7, <2>8, AppendEach
      <4>2. CASE tx'[w].rset[i] = e
        BY <1>0, <2>5, <2>8, <4>2
      <4>3. CASE i \in 1 .. Len(tx[w].rset) /\ tx'[w].rset[i] = tx[w].rset[i]
        <5>1. tree[tx[w].rset[i].key] = tx[w].rset[i].v
          BY <1>0, <2>3, <3>1, <4>3 DEF OwnReads
        <5>2. tx[w].rset[i] \in ReadEntries
          BY <1>3, <4>3
        <5>3. tx[w].rset[i].v \in Values
          BY <5>2 DEF ReadEntries
        <5>4. tx[w].rset[i].key # k
          BY <2>1, <5>1, <5>3, NullIsNoValue
        <5> QED
          BY <1>0, <2>5, <4>3, <5>1, <5>4
      <4> QED
        BY <4>1, <4>2, <4>3
    <3> QED
      BY <1>2, <3>1 DEF OwnReads
  <2>10. OwnScan(w)' /\ OwnFound(w)'
    BY <1>0, <2>3 DEF OwnScan, OwnFound
  <2> QED
    BY <2>6, <2>9, <2>10 DEF OwnOf
<1> QED
  BY <1>1, <1>4, <1>6, <1>7, <1>8, <1>10, <1>11, <1>12, <1>13, <1>14, <1>15 DEF OperationView

-----------------------------------------------------------------------------
(* Validation, commit and abort                                            *)

\* lockWriteSet never meets a lock: a locked record of the worker's own keys is one
\* that it has locked itself.
LEMMA LockIsFree ==
  ASSUME TypeOK, Place, NEW w \in Workers, WorkerInv(w), pc[w] = "lock", tx[w].todo # {}
  PROVE  tidword[tx[w].wset[Least(tx[w].todo)].v].lock = FALSE
<1>1. PICK k : k = Least(tx[w].todo)
  OBVIOUS
<1>2. k \in tx[w].todo /\ k \in DOMAIN tx[w].wset
  BY <1>1, FirstKey
<1>3. k \notin Kept(w)
  BY <1>2 DEF Kept
<1>4. k \in Owns(w) /\ tree[k] = tx[w].wset[k].v /\ tx[w].wset[k].v \in Values
  BY <1>2, OwnEntries DEF WorkerInv, OwnOf, OwnWrites, Removed
<1>5. tidword[tree[k]].lock = FALSE
  BY <1>3, <1>4, NullIsNoValue DEF WorkerInv, LocksOf
<1> QED
  BY <1>1, <1>4, <1>5

\* The steps after the operations.
PhaseStep(w) ==
  \/ StartValidation(w) \/ LockOne(w) \/ UnlockLoad(w) \/ UnlockStore(w) \/ Unlocked(w)
  \/ TakeEpoch(w) \/ ValidateOne(w) \/ Commit(w) \/ WriteBody(w) \/ StoreTid(w) \/ RemoveInserted(w)

\* Neither the write set nor the read set changes in them.
LEMMA PhaseView ==
  ASSUME TypeOK, Place, NEW w \in Workers, WorkerInv(w), PhaseStep(w)
  PROVE  /\ TxOK(tx'[w]) /\ SameSets(w) /\ tx'[w].scan = tx[w].scan /\ load' = load
         /\ pc[w] \in {"op", "lock", "unlock", "unlockstore", "validate", "write", "writing", "abort"}
         /\ pc'[w] \in {"lock", "unlock", "unlockstore", "validate", "write", "writing", "abort"}
         /\ pc[w] = "abort" => RemoveInserted(w)
         /\ pc'[w] = "abort" => Unlocked(w) \/ RemoveInserted(w)
         /\ tree' = tree \/ RemoveInserted(w)
         /\ tx'[w].conflict = FALSE
         /\ pc[w] \in {"lock", "validate"} => pc'[w] # "abort"
<1>0. TxOK(tx[w]) /\ tx[w].conflict = FALSE
  BY Typed DEF WorkerInv, LoopOf
<1>1. CASE StartValidation(w)
  BY <1>0, <1>1, StartValidationView DEF SamePlace, SameControl, store
<1>2. CASE LockOne(w)
  <2>1. PICK k : k = Least(tx[w].todo)
    OBVIOUS
  <2>2. PICK v : v = tx[w].wset[k].v
    OBVIOUS
  <2>3. ~tidword[v].lock
    BY <1>2, <2>1, <2>2, LockIsFree DEF LockOne
  <2>4. Takes(w, k, v)
    BY <1>2, <2>1, <2>2, <2>3, LockView
  <2> QED
    BY <1>0, <2>4 DEF Takes, SamePlace
<1>3. CASE UnlockLoad(w)
  BY <1>0, <1>3, UnlockLoadView DEF SamePlace, SameControl, store
<1>4. CASE UnlockStore(w)
  BY <1>0, <1>4, UnlockStoreView DEF SamePlace, SameControl, store
<1>5. CASE Unlocked(w)
  BY <1>0, <1>5, UnlockedView DEF SamePlace, SameControl, store
<1>6. CASE TakeEpoch(w)
  BY <1>0, <1>6, TakeEpochView DEF SameSets, store
<1>7. CASE ValidateOne(w)
  <2>1. PICK r : r = tx[w].rset[tx[w].itr]
    OBVIOUS
  <2>2. CASE Rejected(w, r, tidword[r.v])
    BY <1>0, <1>7, <2>1, <2>2, RejectView DEF SamePlace, store
  <2>3. CASE ~Rejected(w, r, tidword[r.v])
    BY <1>0, <1>7, <2>1, <2>3, AcceptView DEF SamePlace, store
  <2> QED
    BY <2>2, <2>3
<1>8. CASE Commit(w)
  BY <1>0, <1>8, CommitView DEF SamePlace, store
<1>9. CASE WriteBody(w)
  BY <1>0, <1>9, WriteBodyView DEF SameSets, store
<1>10. CASE StoreTid(w)
  BY <1>0, <1>10, StoreTidView DEF SamePlace, store
<1>11. CASE RemoveInserted(w)
  BY <1>0, <1>11, RemoveInsertedView DEF SamePlace, SameControl, store
<1> QED
  BY <1>1, <1>2, <1>3, <1>4, <1>5, <1>6, <1>7, <1>8, <1>9, <1>10, <1>11 DEF PhaseStep

\* The keys a worker owns, after the operations.
LEMMA OwnPhase ==
  ASSUME TypeOK, Place, NEW w \in Workers, WorkerInv(w), PhaseStep(w)
  PROVE  OwnOf(w)'
<1>0. /\ OwnWrites(w) /\ OwnReads(w) /\ OwnScan(w) /\ LoopOf(w)
      /\ tree \in [Keys -> Values \cup {NULL}]
      /\ Inserted(tx[w].wset) \subseteq DOMAIN tx[w].wset
  BY Typed DEF WorkerInv, OwnOf, Inserted
<1>1. /\ tx'[w].wset = tx[w].wset /\ tx'[w].rset = tx[w].rset /\ tx'[w].scan = tx[w].scan
      /\ pc[w] \in {"op", "lock", "unlock", "unlockstore", "validate", "write", "writing", "abort"}
      /\ pc'[w] \in {"lock", "unlock", "unlockstore", "validate", "write", "writing", "abort"}
      /\ pc[w] = "abort" => RemoveInserted(w)
      /\ pc'[w] = "abort" => Unlocked(w) \/ RemoveInserted(w)
      /\ tree' = tree \/ RemoveInserted(w)
      /\ load' = load
  BY PhaseView DEF SameSets
<1>2. tx[w].scan = <<>> /\ Owns(w)' = Owns(w)
  BY <1>0, <1>1 DEF OwnScan, Owns
<1>3. OwnScan(w)' /\ OwnFound(w)'
  BY <1>1, <1>2 DEF OwnScan, OwnFound
<1>4. CASE RemoveInserted(w)
  <2>1. PICK k : k = Least(tx[w].todo)
    OBVIOUS
  <2>2. /\ pc[w] = "abort" /\ pc'[w] = "abort" /\ tx'[w].todo = tx[w].todo \ {k} /\ tx[w].todo # {}
        /\ tree' = [tree EXCEPT ![k] = NULL]
    BY <1>4, <2>1, RemoveInsertedView
  <2>3. k \in tx[w].todo /\ k \in Inserted(tx[w].wset)
    BY <1>0, <2>1, <2>2, FirstKey DEF LoopOf
  <2>4. ASSUME NEW j \in DOMAIN tx[w].wset
        PROVE  j \in Owns(w) /\ tx[w].wset[j].v[1] = j /\ (j \notin Removed(w)' => tree'[j] = tx[w].wset[j].v)
    <3>1. CASE j = k
      BY <1>0, <1>1, <2>2, <2>3, <3>1 DEF OwnWrites, Removed
    <3>2. CASE j # k
      BY <1>0, <1>1, <2>2, <3>2 DEF OwnWrites, Removed
    <3> QED
      BY <3>1, <3>2
  <2>5. OwnWrites(w)'
    BY <1>1, <1>2, <2>4 DEF OwnWrites
  <2>6. OwnReads(w)'
    BY <2>2 DEF OwnReads
  <2> QED
    BY <1>3, <2>5, <2>6 DEF OwnOf
<1>5. CASE Unlocked(w)
  <2>1. /\ pc[w] = "unlock" /\ tree' = tree
        /\ pc'[w] = "abort" /\ tx'[w].todo = Inserted(tx[w].wset)
    BY <1>0, <1>5, UnlockedView DEF LoopOf, store
  <2>2. OwnWrites(w)'
    BY <1>0, <1>1, <1>2, <2>1 DEF OwnWrites, Removed
  <2>3. OwnReads(w)'
    BY <2>1 DEF OwnReads
  <2> QED
    BY <1>3, <2>2, <2>3 DEF OwnOf
<1>6. CASE ~RemoveInserted(w) /\ ~Unlocked(w)
  <2>1. pc[w] # "abort" /\ pc'[w] # "abort" /\ tree' = tree
    BY <1>1, <1>6
  <2>2. OwnWrites(w)' /\ OwnReads(w)'
    BY <1>0, <1>1, <1>2, <2>1 DEF OwnWrites, OwnReads, Removed
  <2> QED
    BY <1>3, <2>2 DEF OwnOf
<1> QED
  BY <1>4, <1>5, <1>6

\* The loops over the write set.
LEMMA LoopPhase ==
  ASSUME TypeOK, Place, NEW w \in Workers, WorkerInv(w), PhaseStep(w)
  PROVE  LoopOf(w)'
<1>0. /\ LoopOf(w) /\ tx'[w].wset = tx[w].wset /\ tx'[w].conflict = FALSE
      /\ tx[w].todo \in SUBSET Keys /\ Lockable(tx[w].wset) \in SUBSET Keys
      /\ Keys \subseteq Nat
  BY PhaseView, Typed, TxFields, InsertedKeys, TxAssumption DEF WorkerInv, SameSets
<1>1. CASE StartValidation(w)
  BY <1>0, <1>1, StartValidationView DEF LoopOf
<1>2. CASE LockOne(w)
  <2>1. PICK k : k = Least(tx[w].todo)
    OBVIOUS
  <2>2. PICK v : v = tx[w].wset[k].v
    OBVIOUS
  <2>3. ~tidword[v].lock
    BY <1>2, <2>1, <2>2, LockIsFree DEF LockOne
  <2>4. Takes(w, k, v)
    BY <1>2, <2>1, <2>2, <2>3, LockView
  <2>5. /\ k \in tx[w].todo /\ \A j \in tx[w].todo : k <= j
        /\ pc[w] = "lock" /\ pc'[w] = "lock" /\ tx'[w].todo = tx[w].todo \ {k}
    BY <2>1, <2>4, FirstKey DEF Takes
  <2>6. ASSUME NEW i \in Lockable(tx[w].wset) \ tx'[w].todo, NEW j \in tx'[w].todo PROVE i < j
    <3>1. k <= j /\ k # j /\ k \in Nat /\ j \in Nat
      BY <1>0, <2>5
    <3>2. CASE i = k
      BY <3>1, <3>2
    <3>3. CASE i # k
      BY <1>0, <2>5, <3>3 DEF LoopOf
    <3> QED
      BY <3>2, <3>3
  <2> QED
    BY <1>0, <2>5, <2>6 DEF LoopOf
<1>3. CASE UnlockLoad(w)
  <2>1. /\ SameControl(w) /\ tx'[w].todo = tx[w].todo
        /\ tx'[w].expected = tidword[tx[w].wset[Least(tx[w].todo)].v]
        /\ pc[w] = "unlock" /\ pc'[w] = "unlockstore" /\ tidword' = tidword
    BY <1>3, UnlockLoadView DEF store
  <2> QED
    BY <1>0, <2>1 DEF LoopOf, SameControl
<1>4. CASE UnlockStore(w)
  BY <1>0, <1>4, UnlockStoreView DEF LoopOf, SameControl
<1>5. CASE Unlocked(w)
  BY <1>0, <1>5, UnlockedView DEF LoopOf
<1>6. CASE TakeEpoch(w)
  BY <1>0, <1>6, TakeEpochView DEF LoopOf
<1>7. CASE ValidateOne(w)
  <2>1. PICK r : r = tx[w].rset[tx[w].itr]
    OBVIOUS
  <2>2. CASE Rejected(w, r, tidword[r.v])
    BY <1>0, <1>7, <2>1, <2>2, RejectView DEF LoopOf
  <2>3. CASE ~Rejected(w, r, tidword[r.v])
    BY <1>0, <1>7, <2>1, <2>3, AcceptView DEF LoopOf
  <2> QED
    BY <2>2, <2>3
<1>8. CASE Commit(w)
  BY <1>0, <1>8, CommitView DEF LoopOf
<1>9. CASE WriteBody(w)
  BY <1>0, <1>9, WriteBodyView DEF LoopOf
<1>10. CASE StoreTid(w)
  BY <1>0, <1>10, StoreTidView DEF LoopOf
<1>11. CASE RemoveInserted(w)
  BY <1>0, <1>11, RemoveInsertedView DEF LoopOf
<1> QED
  BY <1>1, <1>2, <1>3, <1>4, <1>5, <1>6, <1>7, <1>8, <1>9, <1>10, <1>11 DEF PhaseStep

-----------------------------------------------------------------------------
(* The lock bits and the TIDs                                              *)

\* A store to the TID word of one entry of the write set.
LEMMA StoreOne ==
  ASSUME TypeOK, TreeKeys, NEW w \in Workers, OwnOf(w), NEW k \in DOMAIN tx[w].wset, NEW m,
         tidword' = [tidword EXCEPT ![tx[w].wset[k].v] = m]
  PROVE  /\ tidword'[tx[w].wset[k].v] = m
         /\ \A j \in DOMAIN tx[w].wset : j # k => tidword'[tx[w].wset[j].v] = tidword[tx[w].wset[j].v]
         /\ \A j \in Keys : tree[j] # NULL /\ j # k => tidword'[tree[j]] = tidword[tree[j]]
<1>1. tidword \in [Values -> Tids] /\ tree \in [Keys -> Values \cup {NULL}]
  BY Typed
<1>2. PICK v : v = tx[w].wset[k].v
  OBVIOUS
<1>3. v \in Values /\ v[1] = k
  BY <1>2, OwnEntries
<1>4. tidword' = [tidword EXCEPT ![v] = m]
  BY <1>2
<1>5. \A x \in Values : x # v => tidword'[x] = tidword[x]
  BY <1>1, <1>4
<1>6. tidword'[v] = m
  BY <1>1, <1>3, <1>4
<1>7. \A j \in DOMAIN tx[w].wset : j # k => tidword'[tx[w].wset[j].v] = tidword[tx[w].wset[j].v]
  BY <1>2, <1>5, OwnEntries
<1>8. ASSUME NEW j \in Keys, tree[j] # NULL, j # k PROVE tidword'[tree[j]] = tidword[tree[j]]
  <2>1. tree[j] \in Values /\ tree[j][1] = j
    BY <1>1, <1>8 DEF TreeKeys
  <2> QED
    BY <1>3, <1>5, <1>8, <2>1
<1> QED
  BY <1>2, <1>6, <1>7, <1>8

\* Nothing is locked or unlocked.
LEMMA LocksSame ==
  ASSUME TypeOK, NEW w \in Workers, LocksOf(w), load' = load, tree' = tree, tidword' = tidword,
         Kept(w)' = Kept(w), \A k \in Kept(w) : tx'[w].wset[k] = tx[w].wset[k]
  PROVE  LocksOf(w)'
BY DEF LocksOf, Owns

\* The record of one key is locked or unlocked.
LEMMA LocksStored ==
  ASSUME TypeOK, TreeKeys, NEW w \in Workers, OwnOf(w), LocksOf(w), load' = load, tree' = tree,
         tx'[w].wset = tx[w].wset, Kept(w) \subseteq DOMAIN tx[w].wset,
         NEW k \in DOMAIN tx[w].wset, k \notin Removed(w), NEW m,
         tidword' = [tidword EXCEPT ![tx[w].wset[k].v] = m],
         \/ m.lock = TRUE /\ Kept(w)' = Kept(w) \cup {k}
         \/ m.lock = FALSE /\ Kept(w)' = Kept(w) \ {k}
  PROVE  LocksOf(w)'
<1>0. Owns(w)' = Owns(w) /\ Owns(w) \subseteq Keys
  BY DEF Owns, Owned
<1>1. /\ tidword'[tx[w].wset[k].v] = m
      /\ \A j \in DOMAIN tx[w].wset : j # k => tidword'[tx[w].wset[j].v] = tidword[tx[w].wset[j].v]
      /\ \A j \in Keys : tree[j] # NULL /\ j # k => tidword'[tree[j]] = tidword[tree[j]]
  BY StoreOne
<1>2. ASSUME NEW j \in Kept(w)' PROVE tidword'[tx[w].wset[j].v].lock = TRUE
  <2>1. CASE j = k
    BY <1>1, <1>2, <2>1
  <2>2. CASE j # k
    <3>1. j \in Kept(w)
      BY <1>2, <2>2
    <3> QED
      BY <1>1, <2>2, <3>1 DEF LocksOf
  <2> QED
    BY <2>1, <2>2
<1>3. ASSUME NEW j \in Owns(w), tree[j] # NULL, j \notin Kept(w)' PROVE tidword'[tree[j]].lock = FALSE
  <2>1. CASE j = k
    <3>1. tree[k] = tx[w].wset[k].v
      BY DEF OwnOf, OwnWrites
    <3> QED
      BY <1>1, <1>3, <2>1, <3>1
  <2>2. CASE j # k
    <3>1. j \notin Kept(w)
      BY <1>3, <2>2
    <3> QED
      BY <1>0, <1>1, <1>3, <2>2, <3>1 DEF LocksOf
  <2> QED
    BY <2>1, <2>2
<1> QED
  BY <1>0, <1>2, <1>3 DEF LocksOf

\* The lock bits, after the operations.
LEMMA LocksPhase ==
  ASSUME TypeOK, Place, TreeKeys, NEW w \in Workers, WorkerInv(w), PhaseStep(w)
  PROVE  LocksOf(w)'
<1>0. /\ OwnOf(w) /\ LoopOf(w) /\ LocksOf(w) /\ TidsOf(w) /\ load' = load
      /\ tx'[w].wset = tx[w].wset /\ tx[w].todo \subseteq DOMAIN tx[w].wset
      /\ Kept(w) \subseteq DOMAIN tx[w].wset
  BY PhaseView, KeptWritten DEF WorkerInv, SameSets, Place, PlaceOf
<1>1. CASE StartValidation(w)
  <2>1. /\ pc[w] = "op" /\ pc'[w] = "lock" /\ tx'[w].todo = Lockable(tx[w].wset)
        /\ tree' = tree /\ tidword' = tidword
    BY <1>1, StartValidationView DEF store
  <2>2. Kept(w)' = Kept(w)
    BY <1>0, <2>1 DEF Kept, Lockable, Inserted
  <2> QED
    BY <1>0, <2>1, <2>2, LocksSame
<1>2. CASE LockOne(w)
  <2>1. PICK k : k = Least(tx[w].todo)
    OBVIOUS
  <2>2. PICK v : v = tx[w].wset[k].v
    OBVIOUS
  <2>3. ~tidword[v].lock
    BY <1>2, <2>1, <2>2, LockIsFree DEF LockOne
  <2>4. Takes(w, k, v)
    BY <1>2, <2>1, <2>2, <2>3, LockView
  <2>5. /\ k \in tx[w].todo /\ k \in DOMAIN tx[w].wset /\ tidword[v] \in Tids
        /\ pc[w] = "lock" /\ pc'[w] = "lock" /\ tx'[w].todo = tx[w].todo \ {k} /\ tree' = tree
        /\ tidword' = [tidword EXCEPT ![v].lock = TRUE]
    BY <2>1, <2>2, <2>4, FirstKey DEF Takes
  <2>6. PICK m : m = [tidword[v] EXCEPT !.lock = TRUE]
    OBVIOUS
  <2>7. m.lock = TRUE /\ tidword' = [tidword EXCEPT ![tx[w].wset[k].v] = m]
    BY <2>2, <2>5, <2>6 DEF Tids
  <2>8. Kept(w)' = Kept(w) \cup {k} /\ k \notin Removed(w)
    BY <1>0, <2>5 DEF Kept, Removed
  <2> QED
    BY <1>0, <2>5, <2>7, <2>8, LocksStored
<1>3. CASE UnlockLoad(w)
  <2>1. /\ pc[w] = "unlock" /\ pc'[w] = "unlockstore" /\ tx'[w].todo = tx[w].todo
        /\ tree' = tree /\ tidword' = tidword
    BY <1>3, UnlockLoadView DEF store
  <2>2. Kept(w)' = Kept(w)
    BY <1>0, <2>1 DEF Kept
  <2> QED
    BY <1>0, <2>1, <2>2, LocksSame
<1>4. CASE UnlockStore(w)
  <2>1. PICK k : k = Least(tx[w].todo)
    OBVIOUS
  <2>2. /\ pc[w] = "unlockstore" /\ pc'[w] = "unlock" /\ tx'[w].todo = tx[w].todo \ {k} /\ tx[w].todo # {}
        /\ tidword' = [tidword EXCEPT ![tx[w].wset[k].v] = [tx[w].expected EXCEPT !.lock = FALSE]]
        /\ tree' = tree
    BY <1>4, <2>1, UnlockStoreView
  <2>3. PICK m : m = [tx[w].expected EXCEPT !.lock = FALSE]
    OBVIOUS
  <2>4. m.lock = FALSE
    <3>1. tx[w].expected \in Tids
      BY Typed, TxFields
    <3> QED
      BY <2>3, <3>1 DEF Tids
  <2>5. k \in tx[w].todo /\ k \in DOMAIN tx[w].wset
    BY <2>1, <2>2, FirstKey
  <2>6. k \notin Inserted(tx[w].wset)
    BY <1>0, <2>2, <2>5 DEF LoopOf, Lockable, Inserted
  <2>7. Kept(w)' = Kept(w) \ {k} /\ k \notin Removed(w)
    BY <1>0, <2>2, <2>5, <2>6 DEF Kept, Removed
  <2> QED
    BY <1>0, <2>2, <2>3, <2>4, <2>5, <2>7, LocksStored
<1>5. CASE Unlocked(w)
  <2>1. /\ pc[w] = "unlock" /\ tx[w].todo = {} /\ tree' = tree /\ tidword' = tidword
        /\ pc'[w] = "abort" /\ tx'[w].todo = Inserted(tx[w].wset)
    BY <1>0, <1>5, UnlockedView DEF LoopOf, store
  <2>2. Kept(w)' = Kept(w)
    BY <1>0, <2>1 DEF Kept
  <2> QED
    BY <1>0, <2>1, <2>2, LocksSame
<1>6. CASE TakeEpoch(w)
  <2>1. /\ pc[w] = "lock" /\ pc'[w] = "validate" /\ tx[w].todo = {} /\ tree' = tree /\ tidword' = tidword
    BY <1>6, TakeEpochView DEF store
  <2>2. Kept(w)' = Kept(w)
    BY <1>0, <2>1 DEF Kept
  <2> QED
    BY <1>0, <2>1, <2>2, LocksSame
<1>7. CASE ValidateOne(w)
  <2>1. PICK r : r = tx[w].rset[tx[w].itr]
    OBVIOUS
  <2>2. CASE Rejected(w, r, tidword[r.v])
    <3>1. /\ pc[w] = "validate" /\ pc'[w] = "unlock" /\ tx'[w].todo = Lockable(tx[w].wset)
          /\ tree' = tree /\ tidword' = tidword
      BY <1>7, <2>1, <2>2, RejectView DEF store
    <3>2. Kept(w)' = Kept(w)
      BY <1>0, <3>1 DEF Kept, Lockable, Inserted
    <3> QED
      BY <1>0, <3>1, <3>2, LocksSame
  <2>3. CASE ~Rejected(w, r, tidword[r.v])
    <3>1. /\ pc[w] = "validate" /\ pc'[w] = "validate" /\ tree' = tree /\ tidword' = tidword
      BY <1>7, <2>1, <2>3, AcceptView DEF store
    <3>2. Kept(w)' = Kept(w)
      BY <1>0, <3>1 DEF Kept
    <3> QED
      BY <1>0, <3>1, <3>2, LocksSame
  <2> QED
    BY <2>2, <2>3
<1>8. CASE Commit(w)
  <2>1. /\ pc[w] = "validate" /\ pc'[w] = "write" /\ tx'[w].todo = DOMAIN tx[w].wset
        /\ tree' = tree /\ tidword' = tidword
    BY <1>8, CommitView DEF store
  <2>2. Kept(w)' = Kept(w)
    BY <1>0, <2>1 DEF Kept
  <2> QED
    BY <1>0, <2>1, <2>2, LocksSame
<1>9. CASE WriteBody(w)
  <2>1. /\ pc[w] = "write" /\ pc'[w] = "writing" /\ tx' = tx /\ tree' = tree /\ tidword' = tidword
    BY <1>9, WriteBodyView
  <2>2. Kept(w)' = Kept(w)
    BY <2>1 DEF Kept
  <2> QED
    BY <1>0, <2>1, <2>2, LocksSame
<1>10. CASE StoreTid(w)
  <2>1. PICK k : k = Least(tx[w].todo)
    OBVIOUS
  <2>2. /\ pc[w] \in {"write", "writing"} /\ pc'[w] = "write" /\ tx'[w].todo = tx[w].todo \ {k}
        /\ tx[w].todo # {} /\ tree' = tree
    BY <1>10, <2>1, StoreTidView
  <2>3. PICK m \in Tids : m.lock = tx[w].maxtid.lock /\ tidword' = [tidword EXCEPT ![tx[w].wset[k].v] = m]
    BY <1>10, <2>1, StoreTidView
  <2>4. m.lock = FALSE
    BY <1>0, <2>2, <2>3 DEF TidsOf
  <2>5. k \in tx[w].todo /\ k \in DOMAIN tx[w].wset
    BY <2>1, <2>2, FirstKey
  <2>6. Kept(w)' = Kept(w) \ {k} /\ k \notin Removed(w)
    BY <1>0, <2>2, <2>5 DEF Kept, Removed
  <2> QED
    BY <1>0, <2>2, <2>3, <2>4, <2>5, <2>6, LocksStored
<1>11. CASE RemoveInserted(w)
  <2>1. PICK k : k = Least(tx[w].todo)
    OBVIOUS
  <2>2. /\ pc[w] = "abort" /\ pc'[w] = "abort" /\ tx'[w].todo = tx[w].todo \ {k} /\ tx[w].todo # {}
        /\ tree' = [tree EXCEPT ![k] = NULL] /\ tidword' = tidword
    BY <1>11, <2>1, RemoveInsertedView
  <2>3. Kept(w)' = Kept(w) \ {k} /\ Owns(w)' = Owns(w) /\ Owns(w) \subseteq Keys
    BY <1>0, <2>2 DEF Kept, Owns, Owned
  <2>4. tree \in [Keys -> Values \cup {NULL}]
    BY Typed
  <2>5. \A j \in Owns(w) : tree'[j] # NULL => j # k /\ tree'[j] = tree[j]
    BY <2>2, <2>3, <2>4
  <2> QED
    BY <1>0, <2>2, <2>3, <2>5 DEF LocksOf
<1> QED
  BY <1>1, <1>2, <1>3, <1>4, <1>5, <1>6, <1>7, <1>8, <1>9, <1>10, <1>11 DEF PhaseStep

\* The TID of a commit has no lock bit: [a] and [b] clear it.
LEMMA CommitTidUnlocked ==
  ASSUME TypeOK, NEW w \in Workers
  PROVE  CommitTid(w).lock = FALSE
<1>1. tx[w].maxR \in Tids /\ tx[w].maxW \in Tids /\ mrctid[w] \in Tids
  BY Typed, TxFields DEF TypeOK, WorkerTypes
<1>2. PICK a \in Tids : a = MaxTid(tx[w].maxR, tx[w].maxW)
  BY <1>1, MaxTidIsLarger
<1>3. \A t \in Tids : NextTid(t).lock = FALSE
  BY DEF NextTid, Tids
<1>4. Tid(ThLocalEpoch[w], 0, FALSE, FALSE).lock = FALSE
  BY DEF Tid
<1>5. CommitTid(w) \in {NextTid(a), NextTid(mrctid[w]), Tid(ThLocalEpoch[w], 0, FALSE, FALSE)}
  BY <1>2 DEF CommitTid, MaxTid
<1> QED
  BY <1>1, <1>3, <1>4, <1>5

\* The TIDs, after the operations.
LEMMA TidsPhase ==
  ASSUME TypeOK, Place, TreeKeys, NEW w \in Workers, WorkerInv(w), PhaseStep(w)
  PROVE  TidsOf(w)'
<1>0. /\ OwnOf(w) /\ LoopOf(w) /\ TidsOf(w)
      /\ tx'[w].wset = tx[w].wset /\ tx[w].todo \subseteq DOMAIN tx[w].wset
      /\ Kept(w) \subseteq DOMAIN tx[w].wset
      /\ TxOK(tx[w]) /\ TxOK(tx'[w])
  BY PhaseView, KeptWritten, Typed DEF WorkerInv, SameSets, Place, PlaceOf
<1>a. /\ tx[w].maxW \in Tids /\ tx'[w].maxW \in Tids /\ tx[w].maxtid \in Tids /\ tx'[w].maxtid \in Tids
      /\ \A k \in DOMAIN tx[w].wset : tidword[tx[w].wset[k].v] \in Tids
  BY <1>0, TxFields, OwnEntries
<1>1. CASE StartValidation(w)
  <2>1. /\ pc[w] = "op" /\ pc'[w] = "lock" /\ tx'[w].todo = Lockable(tx[w].wset)
        /\ tidword' = tidword /\ tx'[w].maxW = tx[w].maxW
    BY <1>1, StartValidationView DEF store, SameControl
  <2>2. Kept(w)' = Inserted(tx[w].wset)
    BY <1>0, <2>1 DEF Kept, Lockable, Inserted
  <2>3. ASSUME NEW k \in Inserted(tx[w].wset)
        PROVE  ~Newer(tidword[tx[w].wset[k].v], tx[w].maxW)
    <3>1. tidword[tx[w].wset[k].v].epoch = 0 /\ tidword[tx[w].wset[k].v].tid = 0
      BY <1>0, <2>1 DEF TidsOf
    <3> QED
      BY <1>a, <3>1 DEF Newer, Tids
  <2> QED
    BY <1>0, <2>1, <2>2, <2>3 DEF TidsOf
<1>2. CASE LockOne(w)
  <2>1. PICK k : k = Least(tx[w].todo)
    OBVIOUS
  <2>2. PICK v : v = tx[w].wset[k].v
    OBVIOUS
  <2>3. ~tidword[v].lock
    BY <1>2, <2>1, <2>2, LockIsFree DEF LockOne
  <2>4. Takes(w, k, v)
    BY <1>2, <2>1, <2>2, <2>3, LockView
  <2>5. /\ k \in tx[w].todo /\ k \in DOMAIN tx[w].wset /\ tidword[v] \in Tids
        /\ pc[w] = "lock" /\ pc'[w] = "lock" /\ tx'[w].todo = tx[w].todo \ {k}
        /\ tidword' = [tidword EXCEPT ![v].lock = TRUE]
        /\ tx'[w].maxW = MaxTid(tx[w].maxW, tidword[v])
    BY <2>1, <2>2, <2>4, FirstKey DEF Takes
  <2>6. PICK m \in Tids : m = [tidword[v] EXCEPT !.lock = TRUE]
    BY <2>5 DEF Tids
  <2>7. /\ m.epoch = tidword[v].epoch /\ m.tid = tidword[v].tid
        /\ tidword' = [tidword EXCEPT ![tx[w].wset[k].v] = m]
    BY <2>2, <2>5, <2>6 DEF Tids
  <2>8. ~Newer(tidword[v], tx'[w].maxW) /\ ~Newer(tx[w].maxW, tx'[w].maxW)
    BY <1>a, <2>5, MaxTidIsLarger
  <2>9. Kept(w)' = Kept(w) \cup {k}
    BY <1>0, <2>5 DEF Kept
  <2>10. /\ tidword'[tx[w].wset[k].v] = m
         /\ \A j \in DOMAIN tx[w].wset : j # k => tidword'[tx[w].wset[j].v] = tidword[tx[w].wset[j].v]
    <3>1. k \in DOMAIN tx[w].wset
      BY <2>5
    <3>2. tidword' = [tidword EXCEPT ![tx[w].wset[k].v] = m]
      BY <2>7
    <3>3. OwnOf(w)
      BY <1>0
    <3>4. tidword'[tx[w].wset[k].v] = m
      <4>1. tx[w].wset[k].v \in Values /\ tidword \in [Values -> Tids]
        BY <3>1, <3>3, OwnEntries, Typed
      <4> QED
        BY <3>2, <4>1
    <3>5. \A j \in DOMAIN tx[w].wset : j # k => tidword'[tx[w].wset[j].v] = tidword[tx[w].wset[j].v]
      BY <3>1, <3>2, <3>3, StoreOne
    <3> QED
      BY <3>4, <3>5
  <2>11. ASSUME NEW j \in Kept(w)' PROVE ~Newer(tidword'[tx[w].wset[j].v], tx'[w].maxW)
    <3>1. CASE j = k
      BY <2>7, <2>8, <2>10, <3>1 DEF Newer
    <3>2. CASE j # k
      <4>1. j \in Kept(w) /\ j \in DOMAIN tx[w].wset
        BY <1>0, <2>9, <2>11, <3>2
      <4>2. ~Newer(tidword[tx[w].wset[j].v], tx[w].maxW)
        BY <1>0, <2>5, <4>1 DEF TidsOf
      <4>3. ~Newer(tidword[tx[w].wset[j].v], tx'[w].maxW)
        BY <1>a, <2>8, <4>1, <4>2, NewerTransitive
      <4> QED
        BY <2>10, <3>2, <4>1, <4>3
    <3> QED
      BY <3>1, <3>2
  <2> QED
    BY <1>0, <2>5, <2>11 DEF TidsOf
<1>3. CASE UnlockLoad(w) \/ UnlockStore(w) \/ Unlocked(w) \/ RemoveInserted(w)
  <2>1. pc'[w] \in {"unlock", "unlockstore", "abort"}
    BY <1>0, <1>3, UnlockLoadView, UnlockStoreView, UnlockedView, RemoveInsertedView DEF LoopOf
  <2> QED
    BY <2>1 DEF TidsOf
<1>4. CASE TakeEpoch(w)
  <2>1. /\ pc[w] = "lock" /\ pc'[w] = "validate" /\ tx[w].todo = {} /\ tx' = tx /\ tidword' = tidword
    BY <1>4, TakeEpochView DEF store
  <2>2. Kept(w)' = Kept(w)
    BY <1>0, <2>1 DEF Kept
  <2> QED
    BY <1>0, <2>1, <2>2 DEF TidsOf
<1>5. CASE ValidateOne(w)
  <2>1. PICK r : r = tx[w].rset[tx[w].itr]
    OBVIOUS
  <2>2. CASE Rejected(w, r, tidword[r.v])
    <3>1. pc'[w] = "unlock"
      BY <1>5, <2>1, <2>2, RejectView
    <3> QED
      BY <3>1 DEF TidsOf
  <2>3. CASE ~Rejected(w, r, tidword[r.v])
    <3>1. /\ pc[w] = "validate" /\ pc'[w] = "validate" /\ tidword' = tidword /\ tx'[w].maxW = tx[w].maxW
      BY <1>5, <2>1, <2>3, AcceptView DEF store
    <3>2. Kept(w)' = Kept(w)
      BY <1>0, <3>1 DEF Kept
    <3> QED
      BY <1>0, <3>1, <3>2 DEF TidsOf
  <2> QED
    BY <2>2, <2>3
<1>6. CASE Commit(w)
  <2>1. /\ pc[w] = "validate" /\ pc'[w] = "write" /\ tx'[w].todo = DOMAIN tx[w].wset
        /\ tidword' = tidword /\ tx'[w].maxtid = CommitTid(w)
    BY <1>6, CommitView DEF store
  <2>2. ~Newer(tx[w].maxW, CommitTid(w)) /\ CommitTid(w) \in Tids
    <3>1. tx[w].maxR \in Tids /\ mrctid[w] \in Tids /\ ThLocalEpoch[w] \in Nat
      BY <1>0, TxFields DEF TypeOK, WorkerTypes
    <3> QED
      BY <1>a, <3>1, CommitTidIsLargest
  <2>3. ASSUME NEW k \in DOMAIN tx[w].wset PROVE ~Newer(tidword[tx[w].wset[k].v], CommitTid(w))
    <3>1. ~Newer(tidword[tx[w].wset[k].v], tx[w].maxW)
      BY <1>0, <2>1 DEF TidsOf, Kept
    <3> QED
      BY <1>a, <2>2, <3>1, NewerTransitive
  <2>4. CommitTid(w).lock = FALSE
    BY CommitTidUnlocked
  <2> QED
    BY <1>0, <2>1, <2>3, <2>4 DEF TidsOf
<1>7. CASE WriteBody(w)
  <2>1. /\ pc[w] = "write" /\ pc'[w] = "writing" /\ tx' = tx /\ tidword' = tidword
    BY <1>7, WriteBodyView
  <2> QED
    BY <1>0, <2>1 DEF TidsOf
<1>8. CASE StoreTid(w)
  <2>1. PICK k : k = Least(tx[w].todo)
    OBVIOUS
  <2>2. /\ pc[w] \in {"write", "writing"} /\ pc'[w] = "write" /\ tx'[w].todo = tx[w].todo \ {k}
        /\ tx[w].todo # {}
    BY <1>8, <2>1, StoreTidView
  <2>3. PICK m \in Tids : /\ m.epoch = tx[w].maxtid.epoch /\ m.tid = tx[w].maxtid.tid
                          /\ m.lock = tx[w].maxtid.lock /\ tx'[w].maxtid = m
                          /\ tidword' = [tidword EXCEPT ![tx[w].wset[k].v] = m]
    BY <1>8, <2>1, StoreTidView
  <2>4. k \in tx[w].todo /\ k \in DOMAIN tx[w].wset
    BY <2>1, <2>2, FirstKey
  <2>5. \A j \in DOMAIN tx[w].wset : j # k => tidword'[tx[w].wset[j].v] = tidword[tx[w].wset[j].v]
    BY <1>0, <2>3, <2>4, StoreOne
  <2>6. ASSUME NEW j \in tx'[w].todo PROVE ~Newer(tidword'[tx[w].wset[j].v], m)
    <3>1. j \in tx[w].todo /\ j \in DOMAIN tx[w].wset /\ j # k
      BY <1>0, <2>2, <2>6
    <3>2. ~Newer(tidword[tx[w].wset[j].v], tx[w].maxtid)
      BY <1>0, <2>2, <3>1 DEF TidsOf
    <3>3. tidword'[tx[w].wset[j].v] = tidword[tx[w].wset[j].v]
      BY <2>5, <3>1
    <3> QED
      BY <2>3, <3>2, <3>3 DEF Newer
  <2>7. m.lock = FALSE
    BY <1>0, <2>2, <2>3 DEF TidsOf
  <2> QED
    BY <1>0, <2>2, <2>3, <2>6, <2>7 DEF TidsOf
<1> QED
  BY <1>1, <1>2, <1>3, <1>4, <1>5, <1>6, <1>7, <1>8 DEF PhaseStep

\* The loops, the lock bits and the TIDs during the operations: only Insert changes
\* anything, and its record is locked and has TID 0.
LEMMA RestOperation ==
  ASSUME TypeOK, Place, TreeKeys, NEW w \in Workers, WorkerInv(w), OperationStep(w)
  PROVE  LoopOf(w)' /\ LocksOf(w)' /\ TidsOf(w)'
<1>0. /\ OwnOf(w) /\ LoopOf(w) /\ LocksOf(w) /\ TidsOf(w) /\ TxOK(tx[w])
      /\ tree \in [Keys -> Values \cup {NULL}] /\ tidword \in [Values -> Tids]
  BY Typed DEF WorkerInv
<1>1. OperationView(w) /\ load' = load /\ tx'[w].conflict = FALSE
  BY <1>0, OperationViews DEF OperationView, SameControl, LoopOf
<1>2. ASSUME tree' = tree, tidword' = tidword, Inserted(tx'[w].wset) = Inserted(tx[w].wset),
             \A k \in Inserted(tx[w].wset) : tx'[w].wset[k] = tx[w].wset[k],
             pc[w] \in {"op", "load", "recheck", "body", "scan"},
             \/ pc'[w] \in {"op", "load", "recheck", "body", "scan"}
             \/ pc'[w] = "abort" /\ tx'[w].todo = Inserted(tx[w].wset)
      PROVE  LoopOf(w)' /\ LocksOf(w)' /\ TidsOf(w)'
  <2>1. Kept(w) = Inserted(tx[w].wset) /\ Kept(w)' = Inserted(tx[w].wset)
    BY <1>2 DEF Kept
  <2>2. LocksOf(w)'
    BY <1>0, <1>1, <1>2, <2>1, LocksSame
  <2>3. TidsOf(w)'
    BY <1>0, <1>2 DEF TidsOf
  <2>4. LoopOf(w)'
    BY <1>1, <1>2 DEF LoopOf
  <2> QED
    BY <2>2, <2>3, <2>4
<1>3. CASE Fails(w)
  BY <1>2, <1>3 DEF Fails, SameSets, store
<1>4. CASE Steps(w) \/ Finds(w) \/ Expects(w) \/ Reloads(w)
  BY <1>2, <1>4 DEF Steps, Finds, Expects, Reloads, SameSets, store
<1>5. CASE Passes(w) \/ Enters(w) \/ Scans(w) \/ Collects(w)
  BY <1>2, <1>5 DEF Passes, Enters, Scans, Collects, SameSets, store
<1>6. CASE Adds(w)
  <2>1. PICK k \in Keys, op \in {"WRITE", "DELETE"} :
          Added(w, k, LookUp(w, k), op) /\ tree' = tree /\ tidword' = tidword
    BY <1>6 DEF Adds, store
  <2>2. /\ pc[w] = "op" /\ pc'[w] = "op" /\ k \notin DOMAIN tx[w].wset
        /\ DOMAIN tx'[w].wset = DOMAIN tx[w].wset \cup {k}
        /\ \A j \in DOMAIN tx[w].wset : tx'[w].wset[j] = tx[w].wset[j]
        /\ tx'[w].wset[k].op # "INSERT"
    BY <2>1 DEF Added
  <2>3. /\ Inserted(tx'[w].wset) = Inserted(tx[w].wset)
        /\ \A j \in Inserted(tx[w].wset) : tx'[w].wset[j] = tx[w].wset[j]
    BY <2>2 DEF Inserted
  <2> QED
    BY <1>2, <2>1, <2>2, <2>3
<1>7. CASE Inserts(w)
  <2>1. PICK k \in Keys :
          /\ Added(w, k, <<k, w>>, "INSERT")
          /\ tree[k] = NULL /\ tree' = [tree EXCEPT ![k] = <<k, w>>]
          /\ tidword' = [tidword EXCEPT ![<<k, w>>] = Tid(0, 0, TRUE, TRUE)]
    BY <1>7 DEF Inserts
  <2>2. PICK v \in Values : v = <<k, w>>
    BY <2>1 DEF Added
  <2>3. /\ pc[w] = "op" /\ pc'[w] = "op" /\ k \notin DOMAIN tx[w].wset
        /\ DOMAIN tx'[w].wset = DOMAIN tx[w].wset \cup {k}
        /\ \A j \in DOMAIN tx[w].wset : tx'[w].wset[j] = tx[w].wset[j]
        /\ tx'[w].wset[k] = [v |-> v, op |-> "INSERT"]
    BY <2>1, <2>2 DEF Added
  <2>4. PICK m : m = Tid(0, 0, TRUE, TRUE)
    OBVIOUS
  <2>5. m.epoch = 0 /\ m.tid = 0 /\ m.lock = TRUE
    BY <2>4 DEF Tid
  <2>6. tree' = [tree EXCEPT ![k] = v] /\ tidword' = [tidword EXCEPT ![v] = m] /\ v[1] = k
    BY <2>1, <2>2, <2>4
  <2>7. Inserted(tx'[w].wset) = Inserted(tx[w].wset) \cup {k}
    BY <2>3 DEF Inserted
  <2>8. Kept(w) = Inserted(tx[w].wset) /\ Kept(w)' = Inserted(tx[w].wset) \cup {k}
    BY <2>3, <2>7 DEF Kept
  <2>9. /\ tidword'[v] = m /\ tree'[k] = v
        /\ \A x \in Values : x # v => tidword'[x] = tidword[x]
        /\ \A j \in Keys : j # k => tree'[j] = tree[j]
    BY <1>0, <2>6
  <2>10. ASSUME NEW j \in Inserted(tx[w].wset)
         PROVE  /\ j # k /\ tx'[w].wset[j] = tx[w].wset[j]
                /\ tidword'[tx[w].wset[j].v] = tidword[tx[w].wset[j].v]
    <3>1. j \in DOMAIN tx[w].wset
      BY DEF Inserted
    <3>2. j # k /\ tx'[w].wset[j] = tx[w].wset[j]
      BY <2>3, <3>1
    <3>3. tx[w].wset[j].v \in Values /\ tx[w].wset[j].v[1] = j
      BY <1>0, <3>1, OwnEntries
    <3> QED
      BY <2>6, <2>9, <3>2, <3>3
  <2>11. \A j \in Kept(w)' : tidword'[tx'[w].wset[j].v].lock = TRUE
    <3>1. ASSUME NEW j \in Kept(w)' PROVE tidword'[tx'[w].wset[j].v].lock = TRUE
      <4>1. CASE j = k
        BY <2>3, <2>5, <2>9, <4>1
      <4>2. CASE j \in Inserted(tx[w].wset)
        BY <1>0, <2>8, <2>10, <4>2 DEF LocksOf
      <4> QED
        BY <2>8, <3>1, <4>1, <4>2
    <3> QED
      BY <3>1
  <2>12. ASSUME NEW j \in Owns(w), tree'[j] # NULL, j \notin Kept(w)' PROVE tidword'[tree'[j]].lock = FALSE
    <3>1. j \in Keys /\ j # k /\ j \notin Kept(w)
      BY <2>8, <2>12 DEF Owns, Owned
    <3>2. tree'[j] = tree[j] /\ tree[j] \in Values
      BY <1>0, <2>9, <2>12, <3>1
    <3>3. tree[j][1] = j
      BY <2>12, <3>1, <3>2 DEF TreeKeys
    <3>4. tidword'[tree[j]] = tidword[tree[j]]
      BY <2>6, <2>9, <3>1, <3>2, <3>3
    <3> QED
      BY <1>0, <2>12, <3>1, <3>2, <3>4 DEF LocksOf
  <2>13. LocksOf(w)'
    <3>1. Owns(w)' = Owns(w)
      BY <1>1 DEF Owns
    <3> QED
      BY <2>11, <2>12, <3>1 DEF LocksOf
  <2>14. TidsOf(w)'
    <3>1. ASSUME NEW j \in Inserted(tx'[w].wset)
          PROVE  tidword'[tx'[w].wset[j].v].epoch = 0 /\ tidword'[tx'[w].wset[j].v].tid = 0
      <4>1. CASE j = k
        BY <2>3, <2>5, <2>9, <4>1
      <4>2. CASE j \in Inserted(tx[w].wset)
        BY <1>0, <2>3, <2>10, <4>2 DEF TidsOf
      <4> QED
        BY <2>7, <3>1, <4>1, <4>2
    <3> QED
      BY <2>3, <3>1 DEF TidsOf
  <2>15. LoopOf(w)'
    BY <1>1, <2>3 DEF LoopOf
  <2> QED
    BY <2>13, <2>14, <2>15
<1> QED
  BY <1>1, <1>3, <1>4, <1>5, <1>6, <1>7 DEF OperationView

\* A transaction is over, or another one begins.
LEMMA NewTxStep ==
  ASSUME TypeOK, Place, NEW w \in Workers, WorkerInv(w), Begin(w) \/ WriteDone(w) \/ AbortDone(w)
  PROVE  WorkerInv(w)'
<1>0. /\ LocksOf(w) /\ tx'[w] = NewTx /\ load' = load /\ tree' = tree /\ tidword' = tidword
      /\ pc'[w] \in {"op", "idle", "retry"}
      /\ pc[w] \in {"retry", "idle"} \/ (pc[w] \in {"write", "abort"} /\ tx[w].todo = {})
  BY NewTxView DEF WorkerInv, store
<1>1. /\ NewTx.wset = <<>> /\ NewTx.rset = <<>> /\ NewTx.scan = <<>> /\ NewTx.conflict = FALSE
      /\ DOMAIN NewTx.wset = {} /\ Inserted(NewTx.wset) = {}
  BY DEF NewTx, Inserted
<1>2. Kept(w) = {}
  <2>1. CASE pc[w] \in {"retry", "idle"}
    <3>1. tx[w] = NewTx
      BY <2>1 DEF Place, PlaceOf
    <3> QED
      BY <1>1, <2>1, <3>1 DEF Kept
  <2>2. CASE pc[w] \in {"write", "abort"} /\ tx[w].todo = {}
    BY <2>2 DEF Kept
  <2> QED
    BY <1>0, <2>1, <2>2
<1>3. Kept(w)' = {}
  BY <1>0, <1>1 DEF Kept
<1>4. LocksOf(w)'
  BY <1>0, <1>2, <1>3, LocksSame
<1>5. OwnOf(w)'
  BY <1>0, <1>1 DEF OwnOf, OwnWrites, OwnReads, OwnScan, OwnFound
<1>6. LoopOf(w)' /\ TidsOf(w)'
  BY <1>0, <1>1 DEF LoopOf, TidsOf
<1> QED
  BY <1>4, <1>5, <1>6 DEF WorkerInv

\* The worker that takes the step.
LEMMA OwnWorkerStep ==
  ASSUME TypeOK, Place, TreeKeys, NEW w \in Workers, WorkerInv(w), WorkerStep(w)
  PROVE  WorkerInv(w)'
<1>1. CASE OperationStep(w)
  BY <1>1, OwnOperation, RestOperation DEF WorkerInv
<1>2. CASE PhaseStep(w)
  BY <1>2, OwnPhase, LoopPhase, LocksPhase, TidsPhase DEF WorkerInv
<1>3. CASE Begin(w) \/ WriteDone(w) \/ AbortDone(w)
  BY <1>3, NewTxStep
<1> QED
  BY <1>1, <1>2, <1>3 DEF WorkerStep, OperationStep, PhaseStep

\* The tree keeps every Value under its key.
LEMMA TreeKeysStep ==
  ASSUME TypeOK, Place, TreeKeys, NEW w \in Workers, WorkerStep(w)
  PROVE  TreeKeys'
<1>0. tree \in [Keys -> Values \cup {NULL}]
  BY Typed
<1>1. ASSUME tree' = tree PROVE TreeKeys'
  BY <1>1 DEF TreeKeys
<1>2. CASE OperationStep(w)
  <2>1. CASE Inserts(w)
    <3>1. PICK k \in Keys : tree' = [tree EXCEPT ![k] = <<k, w>>]
      BY <2>1 DEF Inserts
    <3>2. <<k, w>>[1] = k
      OBVIOUS
    <3> QED
      BY <1>0, <3>1, <3>2 DEF TreeKeys
  <2>2. CASE Adds(w)
    BY <1>1, <2>2 DEF Adds, store
  <2> QED
    BY <1>1, <1>2, <2>1, <2>2, OperationViews DEF OperationView, Fails, Steps, Finds, Expects, Reloads,
       Passes, Enters, Scans, Collects, store
<1>3. CASE RemoveInserted(w)
  BY <1>0, <1>3 DEF RemoveInserted, TreeKeys
<1>4. CASE Begin(w) \/ WriteDone(w) \/ AbortDone(w)
  BY <1>1, <1>4, NewTxView DEF store
<1>5. CASE StartValidation(w) \/ LockOne(w) \/ UnlockLoad(w) \/ UnlockStore(w) \/ Unlocked(w)
           \/ TakeEpoch(w) \/ ValidateOne(w) \/ Commit(w) \/ WriteBody(w) \/ StoreTid(w)
  BY <1>1, <1>5 DEF StartValidation, LockOne, UnlockLoad, UnlockStore, Unlocked, TakeEpoch, ValidateOne,
                    Commit, WriteBody, StoreTid, store
<1> QED
  BY <1>2, <1>3, <1>4, <1>5 DEF WorkerStep, OperationStep

\* Every step keeps the invariant.
LEMMA LInvStep ==
  ASSUME \A ld \in Loads : NoConflicts(ld), TypeOK, Place, LInv, [Next]_vars
  PROVE  LInv'
<1>1. ASSUME UNCHANGED <<load, pc, done, tx, tree, tidword>> PROVE LInv'
  <2>1. TreeKeys' /\ Unowned'
    BY <1>1 DEF LInv, TreeKeys, Unowned, Owns
  <2>2. ASSUME NEW w \in Workers PROVE WorkerInv(w)'
    <3>1. /\ OwnOf(w) /\ LoopOf(w) /\ LocksOf(w) /\ TidsOf(w)
      BY DEF LInv, WorkerInv
    <3>2. /\ Owns(w)' = Owns(w) /\ KeyOf(w)' = KeyOf(w) /\ Kept(w)' = Kept(w) /\ Removed(w)' = Removed(w)
      BY <1>1 DEF Owns, KeyOf, Program, Kept, Removed
    <3>3. OwnOf(w)'
      BY <1>1, <3>1, <3>2 DEF OwnOf, OwnWrites, OwnReads, OwnScan, OwnFound
    <3>4. LoopOf(w)'
      BY <1>1, <3>1 DEF LoopOf
    <3>5. LocksOf(w)' /\ TidsOf(w)'
      BY <1>1, <3>1, <3>2 DEF LocksOf, TidsOf
    <3> QED
      BY <3>3, <3>4, <3>5 DEF WorkerInv
  <2> QED
    BY <2>1, <2>2 DEF LInv
<1>2. ASSUME NEW w \in Workers, WorkerStep(w) PROVE LInv'
  <2>1. TreeKeys /\ Unowned /\ \A u \in Workers : WorkerInv(u)
    BY DEF LInv
  <2>2. Frame(w) /\ StoreFrame(w)
    BY <1>2, <2>1, FrameStep, StoreFrameStep DEF WorkerInv
  <2>3. \A u \in Workers : WorkerInv(u)'
    <3>1. WorkerInv(w)'
      BY <1>2, <2>1, OwnWorkerStep
    <3>2. ASSUME NEW u \in Workers, u # w PROVE WorkerInv(u)'
      BY <2>1, <2>2, <3>2, OthersStep
    <3> QED
      BY <3>1, <3>2
  <2>4. TreeKeys'
    BY <1>2, <2>1, TreeKeysStep
  <2>5. Unowned'
    <3>1. ASSUME NEW k \in Keys, \A u \in Workers : k \notin Owns(u)', tree'[k] # NULL
          PROVE  tidword'[tree'[k]].lock = FALSE
      <4>1. \A u \in Workers : k \notin Owns(u)
        BY <2>2, <3>1 DEF Owns, Frame
      <4>2. tree'[k] = tree[k] /\ tree[k] \in Values
        BY <2>2, <3>1, <4>1, Typed DEF StoreFrame
      <4>3. tree[k][1] = k
        BY <2>1, <3>1, <4>2 DEF TreeKeys
      <4>4. tidword'[tree[k]] = tidword[tree[k]]
        BY <2>2, <4>1, <4>2, <4>3 DEF StoreFrame
      <4> QED
        BY <2>1, <3>1, <4>1, <4>2, <4>4 DEF Unowned
    <3> QED
      BY <3>1 DEF Unowned
  <2> QED
    BY <2>3, <2>4, <2>5 DEF LInv
<1> QED
  BY <1>1, <1>2 DEF Next, EpochAdvance, vars, store

\* Nothing is locked at the start.
LEMMA InitLInv == Init => LInv
<1> SUFFICES ASSUME Init PROVE LInv
  OBVIOUS
<1>1. ZeroTid.lock = FALSE
  BY DEF ZeroTid, Tid
<1>2. \A k \in Keys : <<k, Recovered>> \in Values /\ <<k, Recovered>>[1] = k
  BY DEF Values
<1>3. \A k \in Keys : tree[k] # NULL => tree[k] \in Values /\ tree[k][1] = k
  BY <1>2 DEF Init
<1>4. \A k \in Keys : tree[k] # NULL => tidword[tree[k]].lock = FALSE
  BY <1>1, <1>3 DEF Init
<1>5. TreeKeys /\ Unowned
  BY <1>3, <1>4 DEF TreeKeys, Unowned
<1>6. ASSUME NEW w \in Workers PROVE WorkerInv(w)
  <2>1. /\ tx[w] = NewTx /\ pc[w] = "retry"
    BY DEF Init
  <2>2. /\ NewTx.wset = <<>> /\ NewTx.rset = <<>> /\ NewTx.scan = <<>> /\ NewTx.conflict = FALSE
        /\ DOMAIN NewTx.wset = {} /\ Inserted(NewTx.wset) = {}
    BY DEF NewTx, Inserted
  <2>3. Kept(w) = {}
    BY <2>1, <2>2 DEF Kept
  <2>4. LocksOf(w)
    BY <1>4, <2>3 DEF LocksOf, Owns, Owned
  <2>5. OwnOf(w)
    BY <2>1, <2>2 DEF OwnOf, OwnWrites, OwnReads, OwnScan, OwnFound
  <2>6. LoopOf(w) /\ TidsOf(w)
    BY <2>1, <2>2 DEF LoopOf, TidsOf
  <2> QED
    BY <2>4, <2>5, <2>6 DEF WorkerInv
<1> QED
  BY <1>5, <1>6 DEF LInv

-----------------------------------------------------------------------------
(* Theorems for workloads without write-write conflicts                    *)

\* The invariant is inductive together with that of every workload.
THEOREM LockInvariance ==
  ASSUME \A ld \in Loads : NoConflicts(ld)
  PROVE  Spec => [](TInv /\ LInv)
<1>1. Init => TInv /\ LInv
  BY InitTInv, InitLInv
<1>2. TInv /\ LInv /\ [Next]_vars => TInv' /\ LInv'
  <2> SUFFICES ASSUME TInv, LInv, [Next]_vars PROVE TInv' /\ LInv'
    OBVIOUS
  <2>1. TypeOK /\ Place /\ TidEpochs /\ Epochs /\ CommitInLocalEpoch
    BY DEF TInv
  <2>2. TInv'
    BY <2>1, TypeStep, PlaceStep, EpochsStep, CommitInLocalEpochStep DEF TInv
  <2>3. LInv'
    BY <2>1, LInvStep
  <2> QED
    BY <2>2, <2>3
<1> QED
  BY <1>1, <1>2, PTL DEF Spec

\* When no transaction is running, no record is left locked (unlockWriteSet,
\* writePhase and abort have let go of all of them).
THEOREM NoneLeftLocked ==
  ASSUME \A ld \in Loads : NoConflicts(ld)
  PROVE  Spec => []NoLockLeft
<1>1. TInv /\ LInv => NoLockLeft
  <2> SUFFICES ASSUME TInv, LInv, \A w \in Workers : pc[w] \in {"retry", "idle"},
                      NEW k \in Keys, tree[k] # NULL
               PROVE  ~tidword[tree[k]].lock
    BY DEF NoLockLeft
  <2>1. Place /\ Unowned /\ \A w \in Workers : LocksOf(w)
    BY DEF TInv, LInv, WorkerInv
  <2>2. \A w \in Workers : Kept(w) = {}
    <3>1. ASSUME NEW w \in Workers PROVE Kept(w) = {}
      <4>1. tx[w] = NewTx /\ pc[w] \in {"retry", "idle"}
        BY <2>1 DEF Place, PlaceOf
      <4>2. Inserted(NewTx.wset) = {}
        BY DEF NewTx, Inserted
      <4> QED
        BY <4>1, <4>2 DEF Kept
    <3> QED
      BY <3>1
  <2>3. CASE \A w \in Workers : k \notin Owns(w)
    BY <2>1, <2>3 DEF Unowned
  <2>4. ASSUME NEW w \in Workers, k \in Owns(w) PROVE ~tidword[tree[k]].lock
    BY <2>1, <2>2, <2>4 DEF LocksOf
  <2> QED
    BY <2>3, <2>4
<1> QED
  BY <1>1, LockInvariance, PTL

\* A TID of the tree does not go back in one step.
Grows ==
  \A k \in Keys : tree[k] # NULL /\ tree'[k] = tree[k] => ~Newer(tidword[tree[k]], tidword'[tree[k]])

\* A lock keeps the TID, unlockWriteSet stores the one that is there, and writePhase
\* one that is not older.
LEMMA GrowsStep ==
  ASSUME TypeOK, Place, TreeKeys, NEW w \in Workers, WorkerInv(w), WorkerStep(w)
  PROVE  Grows
<1>0. /\ OwnOf(w) /\ LoopOf(w) /\ TidsOf(w)
      /\ tree \in [Keys -> Values \cup {NULL}] /\ tidword \in [Values -> Tids]
  BY Typed DEF WorkerInv
<1>1. \A x \in Tids : ~Newer(x, x)
  BY DEF Newer, Tids
<1>2. ASSUME tidword' = tidword PROVE Grows
  BY <1>0, <1>1, <1>2 DEF Grows
<1>3. ASSUME NEW v \in Values, NEW m, tidword' = [tidword EXCEPT ![v] = m], ~Newer(tidword[v], m)
      PROVE  Grows
  <2>1. ASSUME NEW k \in Keys, tree[k] # NULL PROVE ~Newer(tidword[tree[k]], tidword'[tree[k]])
    <3>1. tree[k] \in Values
      BY <1>0, <2>1
    <3>2. CASE tree[k] = v
      BY <1>0, <1>3, <3>2
    <3>3. CASE tree[k] # v
      BY <1>0, <1>1, <1>3, <3>1, <3>3
    <3> QED
      BY <3>2, <3>3
  <2> QED
    BY <2>1 DEF Grows
<1>4. CASE OperationStep(w)
  <2>1. CASE Inserts(w)
    <3>1. PICK j \in Keys :
            /\ tree[j] = NULL
            /\ tidword' = [tidword EXCEPT ![<<j, w>>] = Tid(0, 0, TRUE, TRUE)]
      BY <2>1 DEF Inserts
    <3>2. ASSUME NEW k \in Keys, tree[k] # NULL PROVE tidword'[tree[k]] = tidword[tree[k]]
      <4>1. tree[k] \in Values /\ tree[k][1] = k /\ k # j
        BY <1>0, <3>1, <3>2 DEF TreeKeys
      <4>2. <<j, w>>[1] = j
        OBVIOUS
      <4>3. tree[k] # <<j, w>>
        BY <4>1, <4>2
      <4> QED
        BY <1>0, <3>1, <4>1, <4>3
    <3>3. ASSUME NEW k \in Keys, tree[k] # NULL PROVE ~Newer(tidword[tree[k]], tidword'[tree[k]])
      <4>1. tidword[tree[k]] \in Tids
        BY <1>0, <3>3
      <4> QED
        BY <1>1, <3>2, <3>3, <4>1
    <3> QED
      BY <3>3 DEF Grows
  <2>2. CASE Adds(w)
    BY <1>2, <2>2 DEF Adds, store
  <2> QED
    BY <1>2, <1>4, <2>1, <2>2, OperationViews DEF OperationView, Fails, Steps, Finds, Expects, Reloads,
       Passes, Enters, Scans, Collects, store
<1>5. CASE LockOne(w)
  <2>1. PICK k : k = Least(tx[w].todo)
    OBVIOUS
  <2>2. PICK v : v = tx[w].wset[k].v
    OBVIOUS
  <2>3. ~tidword[v].lock
    BY <1>5, <2>1, <2>2, LockIsFree DEF LockOne
  <2>4. Takes(w, k, v)
    BY <1>5, <2>1, <2>2, <2>3, LockView
  <2>5. v \in Values /\ tidword[v] \in Tids /\ tidword' = [tidword EXCEPT ![v].lock = TRUE]
    BY <2>1, <2>2, <2>4, FirstKey DEF Takes
  <2>6. PICK m : m = [tidword[v] EXCEPT !.lock = TRUE]
    OBVIOUS
  <2>7. ~Newer(tidword[v], m)
    BY <2>5, <2>6 DEF Newer, Tids
  <2>8. tidword' = [tidword EXCEPT ![v] = m]
    BY <2>5, <2>6
  <2> QED
    BY <1>3, <2>5, <2>7, <2>8
<1>6. CASE UnlockStore(w)
  <2>1. PICK v : v = tx[w].wset[Least(tx[w].todo)].v
    OBVIOUS
  <2>2. /\ tidword' = [tidword EXCEPT ![v] = [tx[w].expected EXCEPT !.lock = FALSE]]
        /\ tx[w].todo # {} /\ pc[w] = "unlockstore"
    BY <1>6, <2>1, UnlockStoreView
  <2>3. v \in Values /\ tidword[v] \in Tids
    BY <2>1, <2>2, FirstKey
  <2>4. tx[w].expected = tidword[v]
    BY <1>0, <2>1, <2>2 DEF LoopOf
  <2>5. PICK m : m = [tx[w].expected EXCEPT !.lock = FALSE]
    OBVIOUS
  <2>6. ~Newer(tidword[v], m)
    BY <2>3, <2>4, <2>5 DEF Newer, Tids
  <2> QED
    BY <1>3, <2>2, <2>3, <2>5, <2>6
<1>7. CASE StoreTid(w)
  <2>1. PICK k : k = Least(tx[w].todo)
    OBVIOUS
  <2>2. pc[w] \in {"write", "writing"} /\ tx[w].todo # {}
    BY <1>7, <2>1, StoreTidView
  <2>3. PICK m \in Tids : /\ m.epoch = tx[w].maxtid.epoch /\ m.tid = tx[w].maxtid.tid
                          /\ tidword' = [tidword EXCEPT ![tx[w].wset[k].v] = m]
    BY <1>7, <2>1, StoreTidView
  <2>4. PICK v : v = tx[w].wset[k].v
    OBVIOUS
  <2>5. k \in tx[w].todo /\ v \in Values
    BY <2>1, <2>2, <2>4, FirstKey
  <2>6. ~Newer(tidword[v], tx[w].maxtid)
    BY <1>0, <2>2, <2>4, <2>5 DEF TidsOf
  <2>7. ~Newer(tidword[v], m)
    BY <2>3, <2>6 DEF Newer
  <2> QED
    BY <1>3, <2>3, <2>4, <2>5, <2>7
<1>8. CASE Begin(w) \/ WriteDone(w) \/ AbortDone(w)
  BY <1>2, <1>8, NewTxView DEF store
<1>9. CASE StartValidation(w) \/ UnlockLoad(w) \/ Unlocked(w) \/ TakeEpoch(w) \/ ValidateOne(w) \/ Commit(w)
           \/ WriteBody(w) \/ RemoveInserted(w)
  BY <1>2, <1>9 DEF StartValidation, UnlockLoad, Unlocked, TakeEpoch, ValidateOne, Commit, WriteBody,
                    RemoveInserted, store
<1> QED
  BY <1>4, <1>5, <1>6, <1>7, <1>8, <1>9 DEF WorkerStep, OperationStep

\* The TID of a record in the tree never goes back (writePhase, unlockWriteSet).
THEOREM TidsOnlyGrow ==
  ASSUME \A ld \in Loads : NoConflicts(ld)
  PROVE  Spec => TidGrows
<1>1. TInv /\ LInv /\ [Next]_vars => [Grows]_vars
  <2> SUFFICES ASSUME TInv, LInv, Next PROVE Grows \/ UNCHANGED vars
    OBVIOUS
  <2>1. TypeOK /\ Place /\ TreeKeys /\ \A w \in Workers : WorkerInv(w)
    BY DEF TInv, LInv
  <2>2. CASE EpochAdvance
    <3>1. tidword' = tidword /\ tree \in [Keys -> Values \cup {NULL}] /\ tidword \in [Values -> Tids]
      BY <2>1, <2>2 DEF EpochAdvance, store, TypeOK, StoreTypes
    <3>2. \A x \in Tids : ~Newer(x, x)
      BY DEF Newer, Tids
    <3> QED
      BY <3>1, <3>2 DEF Grows
  <2>3. ASSUME NEW w \in Workers, WorkerStep(w) PROVE Grows
    BY <2>1, <2>3, GrowsStep
  <2> QED
    BY <2>2, <2>3 DEF Next
<1>2. Spec => [](TInv /\ LInv)
  BY LockInvariance
<1>3. Spec => [][Grows]_vars
  BY <1>1, <1>2, PTL DEF Spec
<1> QED
  BY <1>3 DEF TidGrows, Grows
=============================================================================
