------------------------- MODULE SiloTxSerialProofs -------------------------
(***************************************************************************)
(* Proofs that the committed transactions of SiloTx are serializable and   *)
(* in the order of their epochs, for every number of workers, every set of *)
(* keys and every input in which no two workers write the same record.     *)
(***************************************************************************)
EXTENDS SiloTxReadProofs

-----------------------------------------------------------------------------
(* Versions                                                                *)

\* What b wrote is not older than TID t.
AsNew(b, t) ==
  \/ b = INITIAL /\ ~Newer(t, ZeroTid)
  \/ \E j \in Txs : commits[j].id = b /\ ~Newer(t, commits[j].tid)

\* A settled record that is not deleted has the body that goes with its TID.
Exact ==
  \A v \in Values :
    Settled(v) /\ tidword[v].absent = FALSE => AsNew(body[v], tidword[v]) \/ Torn(v)

\* What was read was not deleted, and is not unless its TID has changed.
PresentOf(w) ==
  /\ pc[w] = "recheck" => tx[w].expected.absent = FALSE
  /\ \A i \in 1 .. Len(tx[w].rset) :
       Seen(tx[w].rset[i]) =>
         Newer(tidword[tx[w].rset[i].v], tx[w].rset[i].tid) \/ tidword[tx[w].rset[i].v].absent = FALSE

\* The entry that read has just made is of the key it reads.
NamedOf(w) == pc[w] = "body" => tx[w].rset[Len(tx[w].rset)].key = KeyOf(w)

\* Validation will reject one of the reads.
Doomed(w) ==
  \E i \in 1 .. Len(tx[w].rset) :
    Seen(tx[w].rset[i]) /\ i >= tx[w].itr /\ Stale(w, tx[w].rset[i])

\* The client was given the transaction's own version of a key, or one that is not
\* older than the TID in the read set.
Explained(w, r) ==
  \/ r[2] = Me(w) /\ r[1] \in DOMAIN tx[w].wset
  \/ \E i \in 1 .. Len(tx[w].rset) :
       Seen(tx[w].rset[i]) /\ tx[w].rset[i].key = r[1] /\ AsNew(r[2], tx[w].rset[i].tid)

\* Until it has been decided, everything the client was given is explained, or validation fails.
ReportsOf(w) ==
  pc[w] \in Operating \cup {"lock", "validate"} =>
    Doomed(w) \/ \A r \in tx[w].reads : Explained(w, r)

\* A transaction in writePhase stores the TID it has committed with.
StoresOf(w) ==
  pc[w] \in {"write", "writing"} => AsNew(Me(w), tx[w].maxtid)

\* The record of key k is there for good, and not older than t.
Installed(k, t) == \E v \in Values : v[1] = k /\ Settled(v) /\ ~Newer(t, tidword[v])

\* Commit j has yet to store key k.
Pending(j, k) ==
  \E u \in Workers : /\ pc[u] \in {"write", "writing"} /\ commits[j].id = Me(u)
                     /\ k \in tx[u].todo /\ ~Newer(commits[j].tid, tx[u].maxtid)

\* A commit is of its worker's keys, which are stored or about to be; its worker's
\* next TID will be newer.
Writes ==
  \A j \in Txs :
    /\ ~Newer(commits[j].tid, mrctid[commits[j].id[1]])
    /\ \A k \in commits[j].writes :
         k \in Owns(commits[j].id[1]) /\ (Installed(k, commits[j].tid) \/ Pending(j, k))

\* The inductive invariant of the versions, on top of RInv.
VInv ==
  /\ Exact /\ Writes
  /\ \A w \in Workers : PresentOf(w) /\ NamedOf(w) /\ ReportsOf(w) /\ StoresOf(w)

-----------------------------------------------------------------------------
(* The order of the transactions                                           *)

\* The workers between the epoch that they take after locking and the commit.
Validating == {w \in Workers : pc[w] = "validate"}
\* The transactions that have come to this point, with the epoch they have taken.
Ordered ==
  {<<commits[j].id, commits[j].local>> : j \in Txs}
  \cup {<<Me(w), ThLocalEpoch[w]>> : w \in Validating}

\* Epochs follow the order.
EpochsInOrder(f) ==
  \A a \in Ordered :
    a[2] <= GlobalEpoch /\ \A b \in Ordered : f[a[1]] < f[b[1]] => a[2] <= b[2]

\* So do the dependencies between committed transactions.
Forward(f) ==
  \A i, j \in Txs : DependsOn(i, j) => f[commits[i].id] < f[commits[j].id]

\* And those of commit i to one that w will make, unless validation will reject a read.
BeforeOne(f, w, i) ==
  /\ \A r \in tx[w].reads : r[2] = commits[i].id => Doomed(w) \/ f[commits[i].id] < f[Me(w)]
  /\ commits[i].id[1] = w => f[commits[i].id] < f[Me(w)]
  /\ \A r \in commits[i].reads : r[1] \in DOMAIN tx[w].wset => f[commits[i].id] < f[Me(w)]

\* Commit j comes after w if it has overwritten entry m of the read set of w.
AfterCommit(f, w, m, j) ==
  tx[w].rset[m].key \in commits[j].writes /\ Newer(commits[j].tid, tx[w].rset[m].tid)
    => f[Me(w)] < f[commits[j].id]

\* So does the worker u if it is going to.
AfterWorker(f, w, m, u) ==
  tx[w].rset[m].key \in DOMAIN tx[u].wset => f[Me(w)] < f[Me(u)]

\* This holds of the entries that have passed validation.
AfterOf(f, w) ==
  \A m \in 1 .. Len(tx[w].rset) :
    m < tx[w].itr /\ Seen(tx[w].rset[m]) =>
      /\ \A j \in Txs : AfterCommit(f, w, m, j)
      /\ \A u \in Validating \ {w} : AfterWorker(f, w, m, u)

\* f is the order in which the transactions have taken their epochs between locking and
\* validation, n the next place in it.
InOrderOf(f, n) ==
  /\ \A x \in Workers \X Nat : f[x] < n
  /\ EpochsInOrder(f) /\ Forward(f)
  /\ \A w \in Validating : AfterOf(f, w) /\ \A i \in Txs : BeforeOne(f, w, i)

\* There is such an order.
OInv == \E f \in [Workers \X Nat -> Nat] : \E n \in Nat : InOrderOf(f, n)

-----------------------------------------------------------------------------
(* The bodies of settled records                                           *)

\* A version that is not older than s is not older than what s is not older than.
LEMMA AsNewStays ==
  ASSUME TypeOK, NEW w \in Workers, WorkerStep(w), NEW b, NEW s \in Tids, NEW t \in Tids,
         AsNew(b, s), ~Newer(t, s)
  PROVE  AsNew(b, t)'
<1>1. CASE b = INITIAL /\ ~Newer(s, ZeroTid)
  <2>1. ZeroTid \in Tids
    BY DEF ZeroTid, Tid, Tids
  <2>2. ~Newer(t, ZeroTid)
    BY <1>1, <2>1, NewerTransitive
  <2> QED
    BY <1>1, <2>2 DEF AsNew
<1>2. ASSUME NEW j \in Txs, commits[j].id = b, ~Newer(s, commits[j].tid) PROVE AsNew(b, t)'
  <2>1. j \in Txs' /\ commits'[j] = commits[j] /\ commits[j].tid \in Tids
    BY CommitsGrow
  <2>2. ~Newer(t, commits[j].tid)
    BY <1>2, <2>1, NewerTransitive
  <2> QED
    BY <1>2, <2>1, <2>2 DEF AsNew
<1> QED
  BY <1>1, <1>2 DEF AsNew

\* Only StoreTid stores.
LEMMA StoringIs ==
  ASSUME Base, NEW w \in Workers, WorkerStep(w), NEW k \in Keys, NEW m \in Tids, Storing(w, k, m)
  PROVE  StoreTid(w)
<1>0. TypeOK /\ Place
  BY BaseParts
<1>1. pc[w] \in {"write", "writing"} /\ pc'[w] = "write" /\ tx[w].todo # {}
  BY DEF Storing
<1>2. WriteBody(w) \/ StoreTid(w)
  BY <1>1, Zenon DEF WorkerStep, Begin, Insert, Write, Delete, Read, LoadTid, Recheck, ReadBody, Scan,
       ScanRecord, ScanBodies, StartValidation, LockOne, UnlockLoad, UnlockStore, Unlocked,
       TakeEpoch, ValidateOne, Commit, WriteBody, StoreTid, WriteDone, RemoveInserted,
       AbortDone, Doing
<1>3. ~WriteBody(w)
  BY <1>0, <1>1, WriteBodyView
<1> QED
  BY <1>2, <1>3

\* The word that a DELETE stores has the absent bit.
LEMMA DeleteIsAbsent ==
  ASSUME Base, NEW w \in Workers, WorkerStep(w), NEW k \in Keys, NEW m \in Tids, Storing(w, k, m),
         tx[w].wset[k].op = "DELETE"
  PROVE  m.absent = TRUE
<1>0. /\ TypeOK /\ tx[w].wset[k].v \in Values /\ tidword \in [Values -> Tids] /\ k = Least(tx[w].todo)
      /\ tidword' = [tidword EXCEPT ![tx[w].wset[k].v] = m] /\ tx[w].maxtid \in Tids
  BY BaseParts, Typed, TxFields, OwnEntries DEF Storing, WorkerInv
<1>1. tidword' = [tidword EXCEPT ![tx[w].wset[k].v] = [tx[w].maxtid EXCEPT !.absent = TRUE]]
  BY <1>0, StoringIs DEF StoreTid
<1>2. m = [tx[w].maxtid EXCEPT !.absent = TRUE]
  <2>1. tidword'[tx[w].wset[k].v] = m
    BY <1>0
  <2>2. tidword'[tx[w].wset[k].v] = [tx[w].maxtid EXCEPT !.absent = TRUE]
    BY <1>0, <1>1
  <2> QED
    BY <2>1, <2>2
<1> QED
  BY <1>0, <1>2 DEF Tids

\* The TID word of a settled record changes in writePhase only, but for its lock bit.
LEMMA SettledWord ==
  ASSUME Base, NEW w \in Workers, WorkerStep(w), NEW v \in Values, Settled(v),
         ~\E k \in Keys : \E m \in Tids : Storing(w, k, m) /\ v = tx[w].wset[k].v
  PROVE  /\ tidword'[v].epoch = tidword[v].epoch /\ tidword'[v].tid = tidword[v].tid
         /\ tidword'[v].absent = tidword[v].absent
<1>0. /\ v[1] \in Keys /\ tree[v[1]] = v /\ v # NULL /\ tidword \in [Values -> Tids]
      /\ \A k \in Keys : k \in DOMAIN tx[w].wset => tx[w].wset[k].v \in Values
  BY BaseParts, OwnEntries DEF Settled, WorkerInv
<1>1. ASSUME tidword'[v] = tidword[v]
      PROVE  /\ tidword'[v].epoch = tidword[v].epoch /\ tidword'[v].tid = tidword[v].tid
             /\ tidword'[v].absent = tidword[v].absent
  BY <1>1
<1>2. Effect(w)
  BY BaseParts, EffectStep
<1>3. CASE Quiet(w) \/ \E k \in Keys : Tearing(w, k) \/ Removing(w, k)
  <2>1. tidword' = tidword
    BY <1>3 DEF Quiet, Tearing, Removing
  <2> QED
    BY <1>1, <2>1
<1>4. ASSUME NEW k \in Keys, Inserting(w, k) PROVE tidword'[v] = tidword[v]
  <2>1. v # <<k, w>>
    BY <1>0, <1>4 DEF Inserting
  <2> QED
    BY <1>0, <1>4, <2>1 DEF Inserting
<1>5. ASSUME NEW k \in Keys, NEW m \in Tids, Relocking(w, k, m)
      PROVE  /\ tidword'[v].epoch = tidword[v].epoch /\ tidword'[v].tid = tidword[v].tid
             /\ tidword'[v].absent = tidword[v].absent
  <2>1. CASE v = tx[w].wset[k].v
    <3>1. tidword'[v] = m
      BY <1>0, <1>5, <2>1 DEF Relocking
    <3> QED
      BY <1>5, <2>1, <3>1 DEF Relocking
  <2>2. CASE v # tx[w].wset[k].v
    <3>1. tidword'[v] = tidword[v]
      BY <1>0, <1>5, <2>2 DEF Relocking
    <3> QED
      BY <3>1
  <2> QED
    BY <2>1, <2>2
<1>6. ASSUME NEW k \in Keys, NEW m \in Tids, Storing(w, k, m) PROVE tidword'[v] = tidword[v]
  BY <1>0, <1>6 DEF Storing
<1> QED
  BY <1>1, <1>2, <1>3, <1>4, <1>5, <1>6 DEF Effect

\* A record that writePhase has stored has the body of the transaction, or was deleted.
LEMMA StoredExact ==
  ASSUME Base, NEW w \in Workers, FreshOf(w), StoresOf(w), WorkerStep(w),
         NEW k \in Keys, NEW m \in Tids, Storing(w, k, m), NEW v \in Values, v = tx[w].wset[k].v,
         m.absent = FALSE
  PROVE  \E b : b = body'[v] /\ AsNew(b, m)'
<1>0. /\ TypeOK /\ Place /\ body \in [Values -> Bodies] /\ tx[w].maxtid \in Tids
      /\ k \in DOMAIN tx[w].wset /\ tx[w].wset[k] \in WriteEntries
  BY BaseParts, Typed, TxFields, OwnEntries DEF Storing, WorkerInv
<1>1. PICK b : b = body'[v]
  OBVIOUS
<1>2. b = Me(w)
  <2>1. CASE pc[w] = "writing"
    BY <1>0, <1>1, <2>1 DEF Storing
  <2>2. CASE pc[w] = "write"
    <3>1. tx[w].wset[k].op = "INSERT"
      BY <1>0, <2>2, DeleteIsAbsent DEF Storing, WriteEntries
    <3>2. k \in Fresh(w) /\ body' = body
      BY <1>0, <2>2, <3>1 DEF Storing, Fresh, Kept, Inserted
    <3> QED
      BY <1>1, <3>2 DEF FreshOf
  <2>3. pc[w] \in {"write", "writing"}
    BY Zenon DEF Storing
  <2> QED
    BY <2>1, <2>2, <2>3
<1>3. /\ pc[w] \in {"write", "writing"}
      /\ m.epoch = tx[w].maxtid.epoch /\ m.tid = tx[w].maxtid.tid
  BY Zenon DEF Storing
<1>4. AsNew(b, tx[w].maxtid)
  BY <1>2, <1>3 DEF StoresOf
<1>5. ~Newer(m, tx[w].maxtid)
  BY <1>0, <1>3 DEF Newer, Tids
<1>6. AsNew(b, m)'
  BY <1>0, <1>4, <1>5, AsNewStays
<1> QED
  BY <1>1, <1>6

\* The body of a settled record that is not deleted goes with its TID.
LEMMA ExactStep ==
  ASSUME Base, Exact, NEW w \in Workers, FreshOf(w), StoresOf(w), WorkerStep(w)
  PROVE  Exact'
<1> SUFFICES ASSUME NEW v \in Values, Settled(v)', tidword'[v].absent = FALSE
             PROVE  AsNew(body[v], tidword[v])' \/ Torn(v)'
  BY DEF Exact
<1>0. TypeOK /\ body \in [Values -> Bodies] /\ tidword \in [Values -> Tids]
  BY BaseParts
<1>1. CASE \E k \in Keys : \E m \in Tids : Storing(w, k, m) /\ v = tx[w].wset[k].v
  <2>1. PICK k \in Keys, m \in Tids : Storing(w, k, m) /\ v = tx[w].wset[k].v
    BY <1>1
  <2>2. tidword'[v] = m
    BY <1>0, <2>1 DEF Storing
  <2>3. PICK b : b = body'[v] /\ AsNew(b, m)'
    BY <2>1, <2>2, StoredExact
  <2> QED
    BY <2>2, <2>3 DEF AsNew
<1>2. CASE ~\E k \in Keys : \E m \in Tids : Storing(w, k, m) /\ v = tx[w].wset[k].v
  <2>1. Settled(v)
    BY <1>2, BecomesSettled
  <2>2. PICK s \in Tids : s = tidword[v]
    BY <1>0
  <2>3. PICK t \in Tids : t = tidword'[v]
    BY <2>1, SettledGrows
  <2>4. t.epoch = s.epoch /\ t.tid = s.tid /\ t.absent = s.absent
    BY <1>2, <2>1, <2>2, <2>3, SettledWord
  <2>5. CASE Torn(v)
    <3>1. PICK u \in Workers : pc[u] = "writing" /\ tx[u].wset[Least(tx[u].todo)].v = v
      BY <2>5 DEF Torn
    <3>2. CASE u = w
      <4>1. PICK k \in Keys, m \in Tids : Storing(w, k, m)
        BY <3>1, <3>2, WritingStores
      <4> QED
        BY <1>2, <3>1, <3>2, <4>1, Zenon DEF Storing
    <3>3. CASE u # w
      <4>1. tx'[u] = tx[u] /\ pc'[u] = pc[u]
        BY <3>3, FreshOthers
      <4> QED
        BY <3>1, <4>1 DEF Torn
    <3> QED
      BY <3>2, <3>3
  <2>6. CASE AsNew(body[v], tidword[v])
    <3>1. body'[v] = body[v] \/ Torn(v)'
      BY <1>2, <2>1, SettledBody
    <3>2. PICK b : b = body[v]
      OBVIOUS
    <3>3. AsNew(b, s)
      BY <2>2, <2>6, <3>2
    <3>4. ~Newer(t, s)
      BY <2>4 DEF Newer, Tids
    <3>5. AsNew(b, t)'
      BY <1>0, <3>3, <3>4, AsNewStays
    <3> QED
      BY <2>3, <3>1, <3>2, <3>5 DEF AsNew
  <2>7. tidword[v].absent = FALSE
    BY <2>2, <2>3, <2>4
  <2> QED
    BY <2>1, <2>5, <2>6, <2>7 DEF Exact
<1> QED
  BY <1>1, <1>2

-----------------------------------------------------------------------------
(* Commits and their TIDs                                                  *)

\* A transaction goes on to write from its commit only.
LEMMA NotWriting ==
  ASSUME Base, NEW w \in Workers, WorkerStep(w), ~(Commit(w) \/ WriteBody(w) \/ StoreTid(w))
  PROVE  pc'[w] \notin {"write", "writing"}
<1>0. TypeOK /\ Place
  BY BaseParts
<1>1. CASE OperationStep(w)
  <2>1. OperationView(w)
    BY <1>0, <1>1, OperationViews
  <2> QED
    BY <2>1, Zenon DEF OperationView, Fails, Steps, Finds, Expects, Reloads, Passes, Enters, Scans,
                Collects, Adds, Inserts, Added
<1>2. CASE Begin(w) \/ WriteDone(w) \/ AbortDone(w)
  BY <1>0, <1>2, NewTxView
<1>3. CASE StartValidation(w) \/ UnlockLoad(w) \/ UnlockStore(w) \/ Unlocked(w) \/ TakeEpoch(w)
  BY <1>0, <1>3, StartValidationView, UnlockLoadView, UnlockStoreView, UnlockedView, TakeEpochView, Zenon
<1>4. CASE LockOne(w) \/ ValidateOne(w) \/ RemoveInserted(w)
  BY <1>0, <1>4, Typed, Zenon DEF LockOne, ValidateOne, RemoveInserted, Goto
<1> QED
  BY <1>1, <1>2, <1>3, <1>4 DEF WorkerStep, OperationStep

\* writePhase and its TID: the steps of others.
LEMMA StoresOther ==
  ASSUME Base, NEW w \in Workers, WorkerStep(w), NEW u \in Workers, u # w, StoresOf(u)
  PROVE  StoresOf(u)'
<1>0. TypeOK /\ tx[u].maxtid \in Tids
  BY BaseParts, Typed, TxFields
<1>1. tx'[u] = tx[u] /\ pc'[u] = pc[u] /\ Me(u)' = Me(u)
  BY FreshOthers
<1>2. PICK b : b = Me(u)
  OBVIOUS
<1>3. PICK t \in Tids : t = tx[u].maxtid
  BY <1>0
<1>4. ASSUME pc[u] \in {"write", "writing"} PROVE AsNew(b, t)'
  BY <1>0, <1>2, <1>3, <1>4, NotNewerThanItself, AsNewStays DEF StoresOf
<1> QED
  BY <1>1, <1>2, <1>3, <1>4 DEF StoresOf

\* Those of the worker itself.
LEMMA StoresOwn ==
  ASSUME Base, NEW w \in Workers, WorkerStep(w), StoresOf(w)
  PROVE  StoresOf(w)'
<1>0. /\ TypeOK /\ Place /\ WorkerInv(w) /\ commits \in Seq(CommitTypes)
  BY BaseParts DEF TypeOK
<1>1. PICK b : b = Me(w)
  OBVIOUS
<1>2. PICK t \in Tids : t = tx[w].maxtid
  BY <1>0, Typed, TxFields
<1>3. CASE Commit(w)
  <2>1. tx'[w].maxtid = CommitTid(w) /\ CommitTid(w) \in Tids /\ done' = done
    BY <1>0, <1>3, CommitView
  <2>2. PICK s \in Tids : s = CommitTid(w)
    BY <2>1
  <2>3. PICK c : c.id = b /\ c.tid = s /\ commits' = Append(commits, c)
    BY <1>1, <1>3, <2>2 DEF Commit
  <2>4. Len(commits) + 1 \in 1 .. Len(commits') /\ commits'[Len(commits) + 1] = c
    BY <1>0, <2>3
  <2>5. AsNew(b, s)'
    BY <2>3, <2>4, NotNewerThanItself DEF AsNew, Txs
  <2> QED
    BY <1>1, <2>1, <2>2, <2>5 DEF StoresOf, Me
<1>4. CASE WriteBody(w)
  <2>1. tx' = tx /\ pc[w] = "write" /\ done' = done
    BY <1>0, <1>4, WriteBodyView
  <2>2. AsNew(b, t)
    BY <1>1, <1>2, <2>1 DEF StoresOf
  <2>3. AsNew(b, t)'
    BY <1>0, <2>2, NotNewerThanItself, AsNewStays
  <2> QED
    BY <1>1, <1>2, <2>1, <2>3 DEF StoresOf, Me
<1>5. CASE StoreTid(w)
  <2>1. PICK k \in Keys, m \in Tids : Storing(w, k, m)
    BY <1>0, <1>5, StoreEffect
  <2>2. pc[w] \in {"write", "writing"} /\ tx'[w].maxtid = m /\ m.epoch = t.epoch /\ m.tid = t.tid
    BY <1>2, <2>1 DEF Storing
  <2>3. done' = done
    BY <1>5 DEF StoreTid
  <2>4. AsNew(b, t) /\ ~Newer(m, t)
    BY <1>1, <1>2, <2>2 DEF StoresOf, Newer, Tids
  <2>5. AsNew(b, m)'
    BY <1>0, <2>4, AsNewStays
  <2> QED
    BY <1>1, <2>2, <2>3, <2>5 DEF StoresOf, Me
<1>6. CASE ~(Commit(w) \/ WriteBody(w) \/ StoreTid(w))
  BY <1>6, NotWriting DEF StoresOf
<1> QED
  BY <1>3, <1>4, <1>5, <1>6

-----------------------------------------------------------------------------
(* What is read is not deleted                                             *)

\* A record that was read has its TID changed if it is deleted.
LEMMA PresentStays ==
  ASSUME Base, NEW w \in Workers, WorkerStep(w), WritingOf(w), NEW r \in ReadEntries, Settled(r.v),
         ~Newer(r.tid, tidword[r.v]), Newer(tidword[r.v], r.tid) \/ tidword[r.v].absent = FALSE
  PROVE  Newer(tidword'[r.v], r.tid) \/ tidword'[r.v].absent = FALSE
<1>0. r.v \in Values /\ r.tid \in Tids /\ tidword \in [Values -> Tids]
  BY BaseParts DEF ReadEntries
<1>1. PICK v \in Values : v = r.v
  BY <1>0
<1>2. PICK s \in Tids : s = tidword[v]
  BY <1>0
<1>3. PICK t \in Tids : t = tidword'[v]
  BY <1>1, SettledGrows
<1>4. CASE \E k \in Keys : \E m \in Tids : Storing(w, k, m) /\ v = tx[w].wset[k].v
  <2>1. PICK k \in Keys, m \in Tids : Storing(w, k, m) /\ v = tx[w].wset[k].v
    BY <1>4
  <2>2. /\ pc[w] \in {"write", "writing"} /\ k \in tx[w].todo /\ k \in DOMAIN tx[w].wset
        /\ m.epoch = tx[w].maxtid.epoch /\ m.tid = tx[w].maxtid.tid
        /\ tidword' = [tidword EXCEPT ![tx[w].wset[k].v] = m]
    BY <2>1 DEF Storing
  <2>3. v[1] = k
    BY <2>1, <2>2, BaseParts, OwnEntries DEF WorkerInv
  <2>4. k \in Lockable(tx[w].wset)
    <3>1. k \notin Fresh(w)
      BY <1>1, <2>3 DEF Settled
    <3>2. k \notin Inserted(tx[w].wset)
      BY <2>2, <3>1 DEF Fresh, Kept
    <3> QED
      BY <2>2, <3>2 DEF Lockable, Inserted
  <2>5. Newer(tx[w].maxtid, s)
    BY <1>2, <2>1, <2>2, <2>4 DEF WritingOf
  <2>6. t = m /\ Newer(t, s)
    BY <1>0, <1>3, <2>1, <2>2, <2>5 DEF Newer
  <2>7. ~Newer(r.tid, s)
    BY <1>1, <1>2
  <2>8. Newer(t, r.tid)
    BY <1>0, <2>6, <2>7 DEF Newer, Tids
  <2> QED
    BY <1>1, <1>3, <2>8
<1>5. CASE ~\E k \in Keys : \E m \in Tids : Storing(w, k, m) /\ v = tx[w].wset[k].v
  <2>1. t.epoch = s.epoch /\ t.tid = s.tid /\ t.absent = s.absent
    BY <1>1, <1>2, <1>3, <1>5, SettledWord
  <2>2. Newer(s, r.tid) \/ s.absent = FALSE
    BY <1>1, <1>2
  <2>3. Newer(t, r.tid) \/ t.absent = FALSE
    BY <2>1, <2>2 DEF Newer
  <2> QED
    BY <1>1, <1>3, <2>3
<1> QED
  BY <1>4, <1>5

\* The entries of a read set that are there already.
LEMMA PresentEntries ==
  ASSUME Base, NEW w \in Workers, WorkerStep(w), WritingOf(w), NEW u \in Workers, EntriesOf(u),
         PresentOf(u), NEW i \in 1 .. Len(tx[u].rset), Seen(tx[u].rset[i])
  PROVE  \/ Newer(tidword'[tx[u].rset[i].v], tx[u].rset[i].tid)
         \/ tidword'[tx[u].rset[i].v].absent = FALSE
<1>1. tx[u].rset \in Seq(ReadEntries)
  BY BaseParts, Typed, TxFields
<1>2. PICK r \in ReadEntries : r = tx[u].rset[i]
  BY <1>1
<1>3. Entry(u, r) /\ Seen(r)
  BY <1>2 DEF EntriesOf
<1>4. Settled(r.v) /\ ~Newer(r.tid, tidword[r.v])
  BY <1>3 DEF Entry
<1>5. Newer(tidword[r.v], r.tid) \/ tidword[r.v].absent = FALSE
  BY <1>2, <1>3 DEF PresentOf
<1>6. Newer(tidword'[r.v], r.tid) \/ tidword'[r.v].absent = FALSE
  BY <1>4, <1>5, PresentStays
<1> QED
  BY <1>2, <1>6

\* A step of another worker.
LEMMA PresentOther ==
  ASSUME Base, NEW w \in Workers, WorkerStep(w), WritingOf(w), NEW u \in Workers, u # w, EntriesOf(u),
         PresentOf(u)
  PROVE  PresentOf(u)'
<1>1. tx'[u] = tx[u] /\ pc'[u] = pc[u]
  BY FreshOthers
<1> QED
  BY <1>1, PresentEntries DEF PresentOf

\* read_internal expects a word without the absent bit.
LEMMA ExpectsPresent ==
  ASSUME TypeOK, Place, NEW w \in Workers, OperationStep(w), pc'[w] = "recheck"
  PROVE  tx'[w].expected.absent = FALSE
<1>0. OperationView(w)
  BY OperationViews
<1>1. Expects(w)
  BY <1>0, Zenon DEF OperationView, Fails, Steps, Finds, Reloads, Passes, Enters, Scans, Collects, Adds,
              Inserts, Added
<1>2. pc[w] \in {"load", "recheck"} /\ tx'[w].expected = tidword[tx[w].found]
  BY <1>1 DEF Expects
<1>3. LoadTid(w) \/ Recheck(w)
  BY <1>2, Zenon DEF OperationStep, Insert, Write, Delete, Read, ReadBody, Scan, ScanRecord, ScanBodies, Doing
<1>4. tidword[tx[w].found].absent \in BOOLEAN
  BY <1>2, Typed DEF Place, PlaceOf, Tids
<1>5. ASSUME Expect(w, tidword[tx[w].found]) PROVE tidword[tx[w].found].absent = FALSE
  <2>1. tidword[tx[w].found].absent => Goto(w, "abort") \/ Goto(w, "scan")
    BY <1>5, Zenon DEF Expect, OpFails
  <2> QED
    BY <1>4, <2>1, GotoIs
<1>6. CASE LoadTid(w)
  BY <1>2, <1>5, <1>6 DEF LoadTid
<1>7. CASE Recheck(w)
  <2>1. \/ Goto(w, "body") \/ Goto(w, "scan") \/ Goto(w, "load")
        \/ Expect(w, tidword[tx[w].found])
    BY <1>7 DEF Recheck
  <2> QED
    BY <1>2, <1>5, <2>1, GotoIs
<1> QED
  BY <1>3, <1>6, <1>7, Zenon

\* The worker's own step.
LEMMA PresentOwn ==
  ASSUME Base, NEW w \in Workers, WorkerStep(w), WritingOf(w), EntriesOf(w), PresentOf(w)
  PROVE  PresentOf(w)'
<1>0. TypeOK /\ Place /\ WorkerInv(w) /\ tx[w].rset \in Seq(ReadEntries)
  BY BaseParts, Typed, TxFields
<1>1. CASE Begin(w) \/ WriteDone(w) \/ AbortDone(w)
  <2>1. tx'[w].rset = <<>> /\ pc'[w] # "recheck"
    BY <1>0, <1>1, NewTxView DEF NewTx
  <2> QED
    BY <2>1 DEF PresentOf
<1>2. ASSUME tx'[w].rset = tx[w].rset, pc'[w] = "recheck" => tx'[w].expected.absent = FALSE
      PROVE  PresentOf(w)'
  BY <1>2, PresentEntries DEF PresentOf
<1>3. CASE PhaseStep(w)
  <2>1. tx'[w].rset = tx[w].rset /\ pc'[w] # "recheck"
    BY <1>0, <1>3, PhaseView DEF SameSets
  <2> QED
    BY <1>2, <2>1
<1>4. CASE OperationStep(w)
  <2>0. OperationView(w)
    BY <1>0, <1>4, OperationViews
  <2>1. ASSUME NEW r, tx'[w].rset = Append(tx[w].rset, r),
               Seen(r) => tidword'[r.v].absent = FALSE
        PROVE  PresentOf(w)'
    <3>1. /\ Len(tx'[w].rset) = Len(tx[w].rset) + 1 /\ tx'[w].rset[Len(tx[w].rset) + 1] = r
          /\ Len(tx[w].rset) \in Nat
          /\ \A i \in 1 .. Len(tx[w].rset) : tx'[w].rset[i] = tx[w].rset[i]
      BY <1>0, <2>1
    <3>2. ASSUME NEW i \in 1 .. Len(tx'[w].rset), Seen(tx'[w].rset[i])
          PROVE  \/ Newer(tidword'[tx'[w].rset[i].v], tx'[w].rset[i].tid)
                 \/ tidword'[tx'[w].rset[i].v].absent = FALSE
      <4>1. CASE i \in 1 .. Len(tx[w].rset)
        BY <3>1, <3>2, <4>1, PresentEntries
      <4>2. CASE i = Len(tx[w].rset) + 1
        <5>1. tx'[w].rset[i] = r
          BY <3>1, <4>2
        <5> QED
          BY <2>1, <3>2, <5>1
      <4>3. i \in 1 .. Len(tx[w].rset) \/ i = Len(tx[w].rset) + 1
        BY <3>1
      <4> QED
        BY <4>1, <4>2, <4>3
    <3> QED
      BY <1>0, <1>4, <3>2, ExpectsPresent DEF PresentOf
  <2>2. CASE Enters(w)
    <3>1. PICK k \in Keys : tx'[w].rset = Append(tx[w].rset, [op |-> "READ", key |-> k, v |-> tx[w].found,
                                                               tid |-> tidword[tx[w].found]])
      BY <2>2 DEF Enters
    <3>2. tidword' = tidword /\ tidword[tx[w].found] = tx[w].expected /\ pc[w] = "recheck"
      BY <2>2 DEF Enters, store
    <3>3. tidword'[tx[w].found].absent = FALSE
      BY <3>2 DEF PresentOf
    <3>4. PICK r : r = [op |-> "READ", key |-> k, v |-> tx[w].found, tid |-> tidword[tx[w].found]]
      OBVIOUS
    <3>5. r.v = tx[w].found /\ tx'[w].rset = Append(tx[w].rset, r)
      BY <3>1, <3>4
    <3> QED
      BY <2>1, <3>3, <3>5
  <2>3. CASE Inserts(w)
    <3>1. PICK r \in ReadEntries : tx'[w].rset = Append(tx[w].rset, r) /\ ~Seen(r)
      BY <1>0, <2>3, InsertedEntry
    <3> QED
      BY <2>1, <3>1
  <2>4. CASE Fails(w) \/ Steps(w) \/ Finds(w) \/ Expects(w) \/ Reloads(w) \/ Passes(w) \/ Scans(w)
             \/ Collects(w) \/ Adds(w)
    <3>1. tx'[w].rset = tx[w].rset
      BY <2>4 DEF Fails, Steps, Finds, Expects, Reloads, Passes, Scans, Collects, SameSets, Adds, Added
    <3> QED
      BY <1>0, <1>2, <1>4, <3>1, ExpectsPresent
  <2> QED
    BY <2>0, <2>2, <2>3, <2>4 DEF OperationView
<1> QED
  BY <1>1, <1>3, <1>4 DEF WorkerStep, OperationStep, PhaseStep

-----------------------------------------------------------------------------
(* The key of a read                                                       *)

\* Only read_internal for a READ goes on to the body.
LEMMA NamedOperation ==
  ASSUME Base, NEW w \in Workers, OperationStep(w), NamedOf(w)
  PROVE  NamedOf(w)'
<1>0. TypeOK /\ OperationView(w) /\ tx[w].rset \in Seq(ReadEntries)
  BY BaseParts, Typed, TxFields, OperationViews
<1>1. load' = load /\ done' = done /\ Program(w)' = Program(w)
  BY <1>0 DEF OperationView, Program
<1>2. CASE pc'[w] # "body"
  BY <1>2 DEF NamedOf
<1>3. CASE Enters(w)
  <2>1. tx'[w].ip = tx[w].ip
    BY <1>3 DEF Enters
  <2>2. PICK k \in Keys :
          /\ tx'[w].rset = Append(tx[w].rset, [op |-> "READ", key |-> k, v |-> tx[w].found,
                                               tid |-> tidword[tx[w].found]])
          /\ \/ k = KeyOf(w)
             \/ pc'[w] = "scan"
    BY <1>3 DEF Enters
  <2>3. PICK r : r = [op |-> "READ", key |-> k, v |-> tx[w].found, tid |-> tidword[tx[w].found]]
    OBVIOUS
  <2>4. r.key = k /\ tx'[w].rset = Append(tx[w].rset, r)
    BY <2>2, <2>3
  <2>5. tx'[w].rset[Len(tx'[w].rset)] = r
    BY <1>0, <2>4
  <2>6. KeyOf(w)' = KeyOf(w)
    BY <1>1, <2>1 DEF KeyOf
  <2> QED
    BY <2>2, <2>4, <2>5, <2>6 DEF NamedOf
<1> QED
  BY <1>0, <1>2, <1>3 DEF OperationView, Fails, Steps, Finds, Expects, Reloads, Passes, Scans,
     Collects, Adds, Inserts, Added

\* Every step of a worker keeps account of the keys of everybody.
LEMMA NamedStep ==
  ASSUME Base, NEW w \in Workers, WorkerStep(w), NEW u \in Workers, NamedOf(u)
  PROVE  NamedOf(u)'
<1>0. TypeOK /\ Place /\ WorkerInv(w)
  BY BaseParts
<1>1. CASE u # w
  <2>1. tx'[u] = tx[u] /\ pc'[u] = pc[u] /\ done'[u] = done[u] /\ load' = load
    BY <1>0, <1>1, FreshOthers, OwnStep
  <2> QED
    BY <2>1 DEF NamedOf, Program, KeyOf
<1>2. CASE u = w /\ OperationStep(w)
  BY <1>2, NamedOperation
<1>3. CASE u = w /\ PhaseStep(w)
  <2>1. pc'[w] \notin Operating
    BY <1>0, <1>3, PhaseView DEF Operating
  <2> QED
    BY <1>3, <2>1 DEF NamedOf, Operating
<1>4. CASE u = w /\ (Begin(w) \/ WriteDone(w) \/ AbortDone(w))
  <2>1. tx'[w] = NewTx /\ pc'[w] \in {"op", "idle", "retry"}
    BY <1>0, <1>4, NewTxView
  <2>2. tx'[w].rset = <<>> /\ tx'[w].scan = <<>> /\ DOMAIN tx'[w].wset = {}
    BY <2>1, NewTxOK DEF NewTx
  <2> QED
    BY <1>4, <2>1, <2>2 DEF NamedOf
<1> QED
  BY <1>1, <1>2, <1>3, <1>4 DEF WorkerStep, OperationStep, PhaseStep

-----------------------------------------------------------------------------
(* What the client is given                                                *)

\* A step of an operation reports the transaction's own version of a key, or the body of a
\* record in the read set under its key.
NewReport(w) ==
  \A r \in tx'[w].reads :
    \/ r \in tx[w].reads
    \/ r[2] = Me(w) /\ r[1] \in DOMAIN tx[w].wset
    \/ \E i \in 1 .. Len(tx[w].rset) : r[1] = tx[w].rset[i].key /\ r[2] = body[tx[w].rset[i].v]

\* One report is added.
LEMMA OneReport ==
  ASSUME NEW w \in Workers, NEW k, NEW x, tx'[w].reads = tx[w].reads \cup {<<k, x>>},
         \/ x = Me(w) /\ k \in DOMAIN tx[w].wset
         \/ \E i \in 1 .. Len(tx[w].rset) : k = tx[w].rset[i].key /\ x = body[tx[w].rset[i].v]
  PROVE  NewReport(w)
<1>1. ASSUME NEW r \in tx'[w].reads, r \notin tx[w].reads PROVE r[1] = k /\ r[2] = x
  BY <1>1
<1> QED
  BY <1>1 DEF NewReport

\* The steps of read.
LEMMA ReadReports ==
  ASSUME Base, NEW w \in Workers, NamedOf(w), EntriesOf(w), Read(w) \/ ReadBody(w)
  PROVE  NewReport(w)
<1>0. TypeOK /\ Place /\ TxOK(tx[w]) /\ DOMAIN tx = Workers /\ tx[w].rset \in Seq(ReadEntries)
  BY BaseParts, Typed, TxFields
<1>1. CASE Read(w)
  <2>1. PICK y : y = Reread(tx[w], KeyOf(w))
    OBVIOUS
  <2>2. OpFails(w) \/ (\E v : tx' = [tx EXCEPT ![w].found = v]) \/ tx' = [tx EXCEPT ![w] = y]
    BY <1>1, <2>1 DEF Read, Reread
  <2>3. CASE OpFails(w)
    BY <1>0, <2>3, GivenFails DEF SameGiven, NewReport
  <2>4. ASSUME NEW v, tx' = [tx EXCEPT ![w].found = v] PROVE NewReport(w)
    BY <1>0, <2>4 DEF TxOK, TxTypes, NewReport
  <2>5. CASE tx' = [tx EXCEPT ![w] = y]
    <3>1. tx'[w] = y
      BY <1>0, <2>5, Assign
    <3>2. y.reads = tx[w].reads
      BY <1>0, <2>1 DEF Reread, TxOK, TxTypes
    <3> QED
      BY <3>1, <3>2 DEF NewReport
  <2> QED
    BY <2>2, <2>3, <2>4, <2>5
<1>2. CASE ReadBody(w)
  <2>1. pc[w] = "body"
    BY <1>2 DEF ReadBody
  <2>2. PICK k : k = KeyOf(w)
    OBVIOUS
  <2>3. PICK x : x = body[tx[w].found]
    OBVIOUS
  <2>4. PICK y : y = Report(tx[w], k, x)
    OBVIOUS
  <2>5. tx' = [tx EXCEPT ![w] = y]
    BY <1>2, <2>2, <2>3, <2>4 DEF ReadBody
  <2>6. y.reads = tx[w].reads \cup {<<k, x>>}
    BY <1>0, <2>4 DEF Report, TxOK, TxTypes
  <2>7. tx'[w].reads = tx[w].reads \cup {<<k, x>>}
    BY <1>0, <2>5, <2>6, Assign
  <2>8. PICK i \in 1 .. Len(tx[w].rset) : i = Len(tx[w].rset)
    BY <1>0, <2>1 DEF EntriesOf
  <2>9. tx[w].rset[i].v = tx[w].found /\ tx[w].rset[i].key = k
    BY <2>1, <2>2, <2>8 DEF EntriesOf, NamedOf, Operating
  <2> QED
    BY <2>3, <2>7, <2>9, OneReport
<1> QED
  BY <1>1, <1>2

\* The steps of scan.
LEMMA ScanReports ==
  ASSUME TypeOK, Place, NEW w \in Workers, Scan(w) \/ ScanRecord(w) \/ ScanBodies(w)
  PROVE  NewReport(w)
<1>0. /\ TxOK(tx[w]) /\ DOMAIN tx = Workers /\ tx[w].scan \in Seq(Keys \X Values)
      /\ tx[w].rset \in Seq(ReadEntries) /\ tx[w].bodies \in Nat
  BY Typed, TxFields
<1>1. CASE tx'[w].reads = tx[w].reads
  BY <1>1 DEF NewReport
<1>2. CASE Scan(w)
  <2>1. PICK q, n : tx' = [tx EXCEPT ![w].scan = q, ![w].bodies = n]
    BY <1>2 DEF Scan
  <2> QED
    BY <1>0, <1>1, <2>1 DEF TxOK, TxTypes
<1>3. ASSUME NEW k, NEW x, NEW q, tx' = [tx EXCEPT ![w].scan = q, ![w].reads = @ \cup {<<k, x>>}]
      PROVE  tx'[w].reads = tx[w].reads \cup {<<k, x>>}
  BY <1>0, <1>3 DEF TxOK, TxTypes
<1>4. CASE ScanRecord(w)
  <2>1. PICK k : k = Head(tx[w].scan)[1]
    OBVIOUS
  <2>2. PICK q : q = Tail(tx[w].scan)
    OBVIOUS
  <2>3. CASE ReadsOf(w, k) # {}
    <3>1. PICK i : i = Least(ReadsOf(w, k))
      OBVIOUS
    <3>2. i \in ReadsOf(w, k)
      <4>1. ReadsOf(w, k) \in SUBSET Nat
        BY <1>0 DEF ReadsOf
      <4> QED
        BY <2>3, <3>1, <4>1, LeastExists DEF Least
    <3>3. i \in 1 .. Len(tx[w].rset) /\ tx[w].rset[i].key = k
      BY <3>2 DEF ReadsOf
    <3>4. PICK x : x = body[tx[w].rset[i].v]
      OBVIOUS
    <3>5. LookUp(w, k) = tx[w].rset[i].v
      BY <2>3, <3>1 DEF LookUp
    <3>6. tx' = [tx EXCEPT ![w].scan = q, ![w].reads = @ \cup {<<k, x>>}]
      BY <1>4, <2>1, <2>2, <2>3, <3>4, <3>5, Zenon DEF ScanRecord
    <3>7. tx'[w].reads = tx[w].reads \cup {<<k, x>>}
      BY <1>3, <3>6
    <3> QED
      BY <3>3, <3>4, <3>7, OneReport
  <2>4. CASE ReadsOf(w, k) = {} /\ InWriteSet(w, k)
    <3>1. PICK x : x = Me(w)
      OBVIOUS
    <3>2. tx' = [tx EXCEPT ![w].scan = q, ![w].reads = @ \cup {<<k, x>>}]
      BY <1>4, <2>1, <2>2, <2>4, <3>1, Zenon DEF ScanRecord
    <3> QED
      BY <1>3, <2>4, <3>1, <3>2, OneReport DEF InWriteSet
  <2>5. CASE ReadsOf(w, k) = {} /\ ~InWriteSet(w, k)
    <3>1. PICK v : v = Head(tx[w].scan)[2]
      OBVIOUS
    <3>2. tx' = [tx EXCEPT ![w].found = v]
      BY <1>4, <2>1, <2>5, <3>1, Zenon DEF ScanRecord
    <3> QED
      BY <1>0, <1>1, <3>2 DEF TxOK, TxTypes
  <2> QED
    BY <2>3, <2>4, <2>5
<1>5. CASE ScanBodies(w)
  <2>1. CASE tx[w].bodies < Len(tx[w].rset)
    <3>1. PICK i \in 1 .. Len(tx[w].rset) : i = tx[w].bodies + 1
      BY <1>0, <2>1
    <3>2. PICK k : k = tx[w].rset[i].key
      OBVIOUS
    <3>3. PICK x : x = body[tx[w].rset[i].v]
      OBVIOUS
    <3>4. tx' = [tx EXCEPT ![w].bodies = i, ![w].reads = @ \cup {<<k, x>>}]
      BY <1>5, <2>1, <3>1, <3>2, <3>3, Zenon DEF ScanBodies
    <3>5. tx'[w].reads = tx[w].reads \cup {<<k, x>>}
      BY <1>0, <3>4 DEF TxOK, TxTypes
    <3> QED
      BY <3>2, <3>3, <3>5, OneReport
  <2>2. CASE ~(tx[w].bodies < Len(tx[w].rset))
    <3>1. tx' = [tx EXCEPT ![w].ip = @ + 1]
      BY <1>5, <2>2 DEF ScanBodies
    <3> QED
      BY <1>0, <1>1, <3>1 DEF TxOK, TxTypes
  <2> QED
    BY <2>1, <2>2
<1> QED
  BY <1>2, <1>4, <1>5

\* Every step of an operation.
LEMMA OperationReports ==
  ASSUME Base, NEW w \in Workers, NamedOf(w), EntriesOf(w), OperationStep(w)
  PROVE  NewReport(w)
<1>0. TypeOK /\ Place
  BY BaseParts
<1>1. CASE SameGiven(w)
  BY <1>1 DEF SameGiven, NewReport
<1> QED
  BY <1>0, <1>1, GivenWrite, GivenInternal, ReadReports, ScanReports DEF OperationStep

\* A version that is not older than s, for an older t.
LEMMA AsNewOlder ==
  ASSUME TypeOK, NEW b, NEW s \in Tids, NEW t \in Tids, AsNew(b, s), ~Newer(t, s)
  PROVE  AsNew(b, t)
<1>1. CASE b = INITIAL /\ ~Newer(s, ZeroTid)
  <2>1. ZeroTid \in Tids
    BY DEF ZeroTid, Tid, Tids
  <2>2. ~Newer(t, ZeroTid)
    BY <1>1, <2>1, NewerTransitive
  <2> QED
    BY <1>1, <2>2 DEF AsNew
<1>2. ASSUME NEW j \in Txs, commits[j].id = b, ~Newer(s, commits[j].tid) PROVE AsNew(b, t)
  <2>1. commits[j] \in CommitTypes
    BY DEF TypeOK, Txs
  <2>2. commits[j].tid \in Tids
    BY <2>1 DEF CommitTypes
  <2>3. ~Newer(t, commits[j].tid)
    BY <1>2, <2>2, NewerTransitive
  <2> QED
    BY <1>2, <2>3 DEF AsNew
<1> QED
  BY <1>1, <1>2 DEF AsNew

\* The body of a record in the read set is that of the version whose TID is there, a newer
\* one, or validation will reject the entry.
LEMMA BodyExplained ==
  ASSUME Base, Exact, NEW w \in Workers, pc[w] \in Operating, EntriesOf(w), FreshOf(w), ValidatedOf(w),
         PresentOf(w), \A u \in Workers : WritingOf(u), NEW i \in 1 .. Len(tx[w].rset), NEW r,
         r[1] = tx[w].rset[i].key, r[2] = body[tx[w].rset[i].v]
  PROVE  Doomed(w) \/ Explained(w, r)
<1>0. TypeOK /\ tx[w].rset \in Seq(ReadEntries) /\ tidword \in [Values -> Tids]
  BY BaseParts, Typed, TxFields
<1>1. PICK e \in ReadEntries : e = tx[w].rset[i]
  BY <1>0
<1>2. Entry(w, e) /\ e.v \in Values /\ e.tid \in Tids
  BY <1>1 DEF EntriesOf, ReadEntries
<1>3. CASE ~Seen(e)
  <2>1. e.key \in Fresh(w) /\ tx[w].wset[e.key].v = e.v
    BY <1>2, <1>3 DEF Entry
  <2>2. r[2] = Me(w)
    BY <1>1, <2>1 DEF FreshOf
  <2>3. r[1] \in DOMAIN tx[w].wset
    BY <1>1, <2>1 DEF Fresh, Inserted
  <2> QED
    BY <2>2, <2>3 DEF Explained
<1>4. CASE Seen(e)
  <2>0. Settled(e.v) /\ ~Newer(e.tid, tidword[e.v])
    BY <1>2, <1>4 DEF Entry
  <2>1. ASSUME Stale(w, e) PROVE Doomed(w)
    <3>1. i >= tx[w].itr
      BY <1>0 DEF ValidatedOf
    <3> QED
      BY <1>1, <1>4, <2>1, <3>1 DEF Doomed
  <2>2. PICK t \in Tids : t = tidword[e.v]
    BY <1>0, <1>2
  <2>3. CASE Torn(e.v)
    BY <1>2, <1>4, <2>1, <2>3, TornOverwrites
  <2>4. CASE Newer(t, e.tid)
    BY <2>1, <2>2, <2>4 DEF Stale
  <2>5. CASE ~Torn(e.v) /\ ~Newer(t, e.tid)
    <3>1. t.absent = FALSE
      BY <1>1, <1>4, <2>2, <2>5 DEF PresentOf
    <3>2. PICK b : b = r[2] /\ b = body[e.v]
      BY <1>1
    <3>3. AsNew(b, t)
      BY <1>2, <2>0, <2>2, <2>5, <3>1, <3>2 DEF Exact
    <3>4. AsNew(b, e.tid)
      BY <1>0, <1>2, <2>0, <2>2, <3>3, AsNewOlder
    <3> QED
      BY <1>1, <1>4, <3>2, <3>4 DEF Explained
  <2> QED
    BY <2>3, <2>4, <2>5
<1> QED
  BY <1>2, <1>3, <1>4

\* The read set of w gets no shorter, and validation has passed no stale entry.
Extends(w) ==
  /\ Len(tx'[w].rset) \in Nat /\ Len(tx[w].rset) <= Len(tx'[w].rset)
  /\ \A i \in 1 .. Len(tx[w].rset) :
       /\ tx'[w].rset[i] = tx[w].rset[i]
       /\ Seen(tx[w].rset[i]) /\ i >= tx[w].itr /\ Stale(w, tx[w].rset[i]) => i >= tx'[w].itr
  /\ Me(w)' = Me(w) /\ DOMAIN tx[w].wset \subseteq DOMAIN tx'[w].wset

\* A transaction that validation will reject stays one.
LEMMA DoomedStays ==
  ASSUME Base, NEW x \in Workers, WorkerStep(x), NEW w \in Workers, EntriesOf(w), Extends(w), Doomed(w)
  PROVE  Doomed(w)'
<1>0. TypeOK /\ tx[w].rset \in Seq(ReadEntries)
  BY BaseParts, Typed, TxFields
<1>1. PICK i \in 1 .. Len(tx[w].rset) :
        Seen(tx[w].rset[i]) /\ i >= tx[w].itr /\ Stale(w, tx[w].rset[i])
  BY DEF Doomed
<1>2. PICK r \in ReadEntries : r = tx[w].rset[i] /\ r = tx'[w].rset[i]
  BY <1>0 DEF Extends
<1>3. Settled(r.v)
  BY <1>1, <1>2 DEF EntriesOf, Entry
<1>4. Stale(w, r)'
  BY <1>1, <1>2, <1>3, StaleStays
<1>5. i >= tx'[w].itr /\ i \in 1 .. Len(tx'[w].rset)
  BY <1>0, <1>1 DEF Extends
<1>6. Stale(w, tx[w].rset[i])'
  BY <1>2, <1>4
<1> QED
  BY <1>1, <1>2, <1>5, <1>6 DEF Doomed

\* What explains a report explains it later.
LEMMA ExplainedStays ==
  ASSUME Base, NEW x \in Workers, WorkerStep(x), NEW w \in Workers, Extends(w), NEW r, Explained(w, r)
  PROVE  Explained(w, r)'
<1>0. TypeOK /\ tx[w].rset \in Seq(ReadEntries)
  BY BaseParts, Typed, TxFields
<1>1. CASE r[2] = Me(w) /\ r[1] \in DOMAIN tx[w].wset
  BY <1>1 DEF Explained, Extends
<1>2. ASSUME NEW i \in 1 .. Len(tx[w].rset), Seen(tx[w].rset[i]), tx[w].rset[i].key = r[1],
             AsNew(r[2], tx[w].rset[i].tid)
      PROVE  Explained(w, r)'
  <2>1. PICK e \in ReadEntries : e = tx[w].rset[i] /\ e = tx'[w].rset[i]
    BY <1>0 DEF Extends
  <2>2. PICK t \in Tids : t = e.tid
    BY DEF ReadEntries
  <2>3. PICK b : b = r[2]
    OBVIOUS
  <2>4. AsNew(b, t)'
    BY <1>0, <1>2, <2>1, <2>2, <2>3, NotNewerThanItself, AsNewStays
  <2>5. i \in 1 .. Len(tx'[w].rset)
    BY <1>0 DEF Extends
  <2> QED
    BY <1>2, <2>1, <2>2, <2>3, <2>4, <2>5 DEF Explained
<1> QED
  BY <1>1, <1>2 DEF Explained

\* A step of another worker changes nothing of the transaction.
LEMMA OtherExtends ==
  ASSUME Base, NEW x \in Workers, WorkerStep(x), NEW w \in Workers, w # x
  PROVE  Extends(w) /\ tx'[w] = tx[w] /\ pc'[w] = pc[w]
<1>0. Len(tx[w].rset) \in Nat
  BY BaseParts, Typed, TxFields
<1>1. tx'[w] = tx[w] /\ pc'[w] = pc[w] /\ Me(w)' = Me(w)
  BY FreshOthers
<1> QED
  BY <1>0, <1>1 DEF Extends

\* A step of an operation adds to its sets.
LEMMA OperationExtends ==
  ASSUME Base, NEW w \in Workers, OperationStep(w)
  PROVE  Extends(w) /\ pc[w] \in Operating
<1>0. /\ TypeOK /\ Place /\ tx[w].rset \in Seq(ReadEntries) /\ OperationView(w) /\ NewGiven(w)
  BY BaseParts, Typed, TxFields, OperationViews, GivenOperation
<1>1. pc[w] \in Operating
  BY <1>0, Zenon DEF OperationView, Fails, Steps, Finds, Expects, Reloads, Passes, Enters, Scans,
              Collects, Adds, Inserts, Added, Operating
<1>2. /\ Len(tx'[w].rset) \in Nat /\ Len(tx[w].rset) <= Len(tx'[w].rset)
      /\ \A i \in 1 .. Len(tx[w].rset) : tx'[w].rset[i] = tx[w].rset[i]
  <2>1. tx'[w].rset = tx[w].rset \/ \E r : tx'[w].rset = Append(tx[w].rset, r)
    BY <1>0, Zenon DEF OperationView, Fails, Steps, Finds, Expects, Reloads, Passes, Enters, Scans,
                Collects, Adds, Inserts, SameSets
  <2>2. ASSUME NEW r, tx'[w].rset = Append(tx[w].rset, r)
        PROVE  /\ Len(tx'[w].rset) = Len(tx[w].rset) + 1
               /\ \A i \in 1 .. Len(tx[w].rset) : tx'[w].rset[i] = tx[w].rset[i]
    BY <1>0, <2>2
  <2> QED
    BY <1>0, <2>1, <2>2
<1>3. Me(w)' = Me(w) /\ tx'[w].itr = tx[w].itr
  BY <1>0 DEF OperationView, NewGiven, Me
<1>4. DOMAIN tx[w].wset \subseteq DOMAIN tx'[w].wset
  BY <1>0, Zenon DEF OperationView, Fails, Steps, Finds, Expects, Reloads, Passes, Enters, Scans,
              Collects, Adds, Inserts, Added, SameSets
<1> QED
  BY <1>1, <1>2, <1>3, <1>4 DEF Extends

\* So do lockWriteSet and validationPhase, which passes no stale entry.
LEMMA PhaseExtends ==
  ASSUME Base, NEW w \in Workers, PhaseStep(w), EntriesOf(w), pc'[w] \in {"lock", "validate"}
  PROVE  Extends(w) /\ pc[w] \in {"op", "lock", "validate"} /\ tx'[w].reads = tx[w].reads
<1>0. /\ TypeOK /\ Place /\ WorkerInv(w) /\ tx[w].rset \in Seq(ReadEntries) /\ tx[w].itr \in Nat
      /\ tx'[w].rset = tx[w].rset /\ tx'[w].wset = tx[w].wset /\ tx'[w].reads = tx[w].reads
  BY BaseParts, Typed, TxFields, PhaseView, GivenPhase DEF SameSets
<1>1. pc[w] \in {"op", "lock", "validate"} /\ Me(w)' = Me(w)
  <2>1. StartValidation(w) \/ LockOne(w) \/ TakeEpoch(w) \/ ValidateOne(w)
    BY <1>0, GivenPhase
  <2> QED
    BY <2>1, Zenon DEF StartValidation, LockOne, TakeEpoch, ValidateOne, Me
<1>2. ASSUME NEW i \in 1 .. Len(tx[w].rset), Seen(tx[w].rset[i]), i >= tx[w].itr,
             Stale(w, tx[w].rset[i])
      PROVE  i >= tx'[w].itr
  <2>1. CASE tx'[w].itr = tx[w].itr
    BY <1>2, <2>1
  <2>2. CASE /\ tx'[w].itr = tx[w].itr + 1
             /\ ~Rejected(w, tx[w].rset[tx[w].itr], tidword[tx[w].rset[tx[w].itr].v])
    <3>1. PICK r \in ReadEntries : r = tx[w].rset[i]
      BY <1>0
    <3>2. Entry(w, r)
      BY <3>1 DEF EntriesOf
    <3>3. Rejected(w, r, tidword[r.v])
      BY <1>2, <3>1, <3>2, StaleIsRejected
    <3>4. i # tx[w].itr
      BY <2>2, <3>1, <3>3
    <3> QED
      BY <1>0, <1>2, <2>2, <3>4
  <2> QED
    BY <1>0, <2>1, <2>2, GivenPhase
<1> QED
  BY <1>0, <1>1, <1>2 DEF Extends

\* What the client was given is explained, or the transaction fails: every step.
LEMMA ReportsStep ==
  ASSUME Base, Exact, NEW x \in Workers, WorkerStep(x),
         NEW w \in Workers, NamedOf(w), EntriesOf(w), FreshOf(w), ValidatedOf(w), PresentOf(w),
         \A u \in Workers : WritingOf(u), ReportsOf(w)
  PROVE  ReportsOf(w)'
<1>1. ASSUME Extends(w), Doomed(w) \/ \A r \in tx'[w].reads : Explained(w, r)
      PROVE  ReportsOf(w)'
  <2>1. CASE Doomed(w)
    BY <1>1, <2>1, DoomedStays DEF ReportsOf
  <2>2. CASE \A r \in tx'[w].reads : Explained(w, r)
    <3>1. ASSUME NEW r \in tx'[w].reads PROVE Explained(w, r)'
      BY <1>1, <2>2, <3>1, ExplainedStays
    <3> QED
      BY <3>1 DEF ReportsOf
  <2> QED
    BY <1>1, <2>1, <2>2
<1>2. CASE w # x
  BY <1>1, <1>2, OtherExtends DEF ReportsOf
<1>3. CASE w = x /\ OperationStep(w)
  <2>1. Extends(w) /\ pc[w] \in Operating /\ NewReport(w)
    BY <1>3, OperationExtends, OperationReports
  <2>2. ASSUME NEW r \in tx'[w].reads PROVE Doomed(w) \/ Explained(w, r)
    <3>1. CASE r \in tx[w].reads
      BY <2>1, <3>1 DEF ReportsOf
    <3>2. CASE r[2] = Me(w) /\ r[1] \in DOMAIN tx[w].wset
      BY <3>2 DEF Explained
    <3>3. CASE \E i \in 1 .. Len(tx[w].rset) : r[1] = tx[w].rset[i].key /\ r[2] = body[tx[w].rset[i].v]
      BY <2>1, <3>3, BodyExplained
    <3> QED
      BY <2>1, <3>1, <3>2, <3>3 DEF NewReport
  <2> QED
    BY <1>1, <2>1, <2>2
<1>4. CASE w = x /\ PhaseStep(w)
  <2>1. pc'[w] \notin Operating
    BY <1>4, BaseParts, PhaseView DEF Operating
  <2>2. CASE pc'[w] \in {"lock", "validate"}
    BY <1>1, <1>4, <2>2, PhaseExtends DEF ReportsOf, Operating
  <2>3. CASE pc'[w] \notin {"lock", "validate"}
    BY <2>1, <2>3 DEF ReportsOf
  <2> QED
    BY <2>2, <2>3
<1>5. CASE w = x /\ (Begin(w) \/ WriteDone(w) \/ AbortDone(w))
  <2>1. tx'[w].reads = {}
    BY <1>5, BaseParts, NewTxView DEF NewTx
  <2> QED
    BY <2>1 DEF ReportsOf
<1> QED
  BY <1>2, <1>3, <1>4, <1>5 DEF WorkerStep, OperationStep, PhaseStep

-----------------------------------------------------------------------------
(* Commits and their records                                               *)

\* The TID of a commit is newer than the worker's last one.
LEMMA CommitTidIsNext ==
  ASSUME TypeOK, NEW w \in Workers
  PROVE  Newer(CommitTid(w), mrctid[w]) /\ mrctid[w] \in Tids /\ CommitTid(w) \in Tids
<1> DEFINE a == MaxTid(tx[w].maxR, tx[w].maxW)
           b == MaxTid(NextTid(a), NextTid(mrctid[w]))
           c == Tid(ThLocalEpoch[w], 0, FALSE, FALSE)
<1>0. /\ tx[w].maxR \in Tids /\ tx[w].maxW \in Tids /\ mrctid[w] \in Tids /\ ThLocalEpoch[w] \in Nat
  BY Typed, TxFields DEF TypeOK, WorkerTypes
<1>1. c \in Tids
  BY <1>0 DEF Tid, Tids
<1>2. a \in Tids
  BY <1>0, MaxTidIsLarger
<1>3. NextTid(a) \in Tids /\ Newer(NextTid(mrctid[w]), mrctid[w]) /\ NextTid(mrctid[w]) \in Tids
  <2> HIDE DEF a
  <2> QED
    BY <1>0, <1>2, NextTidType
<1>4. b \in Tids /\ ~Newer(NextTid(mrctid[w]), b)
  <2> HIDE DEF a
  <2> QED
    BY <1>3, MaxTidIsLarger
<1>5. MaxTid(b, c) \in Tids /\ ~Newer(b, MaxTid(b, c))
  <2> HIDE DEF b, c
  <2> QED
    BY <1>1, <1>4, MaxTidIsLarger
<1>6. CommitTid(w) = MaxTid(b, c)
  BY DEF CommitTid
<1>7. PICK t \in Tids : t = CommitTid(w)
  <2> HIDE DEF b, c
  <2> QED
    BY <1>5, <1>6
<1>8. PICK n \in Tids : n = NextTid(mrctid[w])
  BY <1>3
<1> HIDE DEF a, b, c
<1>9. ~Newer(n, t)
  BY <1>4, <1>5, <1>6, <1>7, <1>8, NewerTransitive
<1>10. Newer(t, mrctid[w])
  BY <1>0, <1>3, <1>8, <1>9 DEF Newer, Tids
<1> QED
  BY <1>0, <1>7, <1>10

\* The parts of a commit.
LEMMA CommitFields ==
  ASSUME TypeOK, NEW j \in Txs
  PROVE  /\ commits[j] \in CommitTypes /\ commits[j].tid \in Tids /\ commits[j].id \in Workers \X Nat
         /\ commits[j].id[1] \in Workers /\ commits[j].id[2] \in Nat /\ commits[j].local \in Nat
         /\ commits[j].reads \in Reports /\ commits[j].writes \in SUBSET Keys
         /\ commits[j].id # INITIAL
<1>1. commits[j] \in CommitTypes
  BY DEF TypeOK, Txs
<1>2. commits[j].id \in Workers \X Nat
  BY <1>1 DEF CommitTypes
<1>3. commits[j].id[1] >= 0
  BY <1>2, TxAssumption DEF Workers
<1>4. commits[j].id # INITIAL
  BY <1>3 DEF INITIAL
<1> QED
  BY <1>1, <1>2, <1>4 DEF CommitTypes

\* A record that is there for good stays, and its TID does not go back.
LEMMA InstalledStays ==
  ASSUME Base, NEW w \in Workers, WorkerStep(w), NEW k \in Keys, NEW t \in Tids, Installed(k, t)
  PROVE  Installed(k, t)'
<1>1. PICK v \in Values : v[1] = k /\ Settled(v) /\ ~Newer(t, tidword[v])
  BY DEF Installed
<1>2. Settled(v)' /\ ~Newer(tidword[v], tidword'[v]) /\ tidword[v] \in Tids /\ tidword'[v] \in Tids
  BY <1>1, SettledStays, SettledGrows
<1>3. ~Newer(t, tidword'[v])
  BY <1>1, <1>2, NewerTransitive
<1> QED
  BY <1>1, <1>2, <1>3 DEF Installed

\* The record that writePhase stores is there for good.
LEMMA StoredSettles ==
  ASSUME Base, NEW w \in Workers, WorkerStep(w), NEW k \in Keys, NEW m \in Tids, Storing(w, k, m)
  PROVE  \E v \in Values : v[1] = k /\ Settled(v)' /\ tidword'[v] = m
<1>0. TypeOK /\ OwnOf(w) /\ k \in DOMAIN tx[w].wset /\ tidword \in [Values -> Tids]
  BY BaseParts DEF WorkerInv, Storing
<1>1. PICK v \in Values : v = tx[w].wset[k].v /\ v[1] = k /\ k \in Owns(w)
  BY <1>0, OwnEntries
<1>2. tree'[k] = v /\ tidword'[v] = m /\ k \notin Fresh(w)'
  BY <1>0, <1>1 DEF Storing
<1>3. ASSUME NEW u \in Workers PROVE k \notin Fresh(u)'
  <2>1. CASE u # w
    BY <1>1, <2>1, FreshIsOwn, FreshOthers
  <2> QED
    BY <1>2, <2>1
<1> QED
  BY <1>1, <1>2, <1>3 DEF Settled

\* The steps of writePhase.
LEMMA WritingSteps ==
  ASSUME NEW w \in Workers, WorkerStep(w), pc[w] \in {"write", "writing"}
  PROVE  WriteBody(w) \/ StoreTid(w) \/ WriteDone(w)
BY Zenon DEF WorkerStep, Begin, Insert, Write, Delete, Read, LoadTid, Recheck, ReadBody, Scan,
     ScanRecord, ScanBodies, StartValidation, LockOne, UnlockLoad, UnlockStore, Unlocked,
     TakeEpoch, ValidateOne, Commit, WriteBody, StoreTid, WriteDone, RemoveInserted,
     AbortDone, Doing

\* What a commit has yet to store, it stores.
LEMMA PendingStays ==
  ASSUME Base, NEW w \in Workers, WorkerStep(w), NEW j \in Txs, NEW k \in Keys, Pending(j, k)
  PROVE  Installed(k, commits[j].tid)' \/ Pending(j, k)'
<1>0. /\ TypeOK /\ Place /\ WorkerInv(w) /\ commits'[j] = commits[j] /\ commits[j].tid \in Tids
  BY BaseParts, CommitsGrow
<1>1. PICK u \in Workers : /\ pc[u] \in {"write", "writing"} /\ commits[j].id = Me(u)
                           /\ k \in tx[u].todo /\ ~Newer(commits[j].tid, tx[u].maxtid)
  BY DEF Pending
<1>2. CASE u # w
  <2>1. tx'[u] = tx[u] /\ pc'[u] = pc[u] /\ Me(u)' = Me(u)
    BY <1>2, FreshOthers
  <2> QED
    BY <1>0, <1>1, <2>1 DEF Pending
<1>3. CASE u = w /\ WriteBody(w)
  <2>1. tx' = tx /\ pc'[w] = "writing" /\ done' = done
    BY <1>0, <1>3, WriteBodyView
  <2>2. Me(w)' = Me(w)
    BY <2>1 DEF Me
  <2> QED
    BY <1>0, <1>1, <1>3, <2>1, <2>2 DEF Pending
<1>4. CASE u = w /\ WriteDone(w)
  BY <1>1, <1>4 DEF WriteDone
<1>5. CASE u = w /\ StoreTid(w)
  <2>1. PICK i \in Keys, m \in Tids : Storing(w, i, m)
    BY <1>0, <1>5, StoreEffect
  <2>2. PICK t \in Tids : t = tx[w].maxtid
    BY <1>0, Typed, TxFields
  <2>3. /\ m.epoch = t.epoch /\ m.tid = t.tid /\ tx'[w].maxtid = m
        /\ tx'[w].todo = tx[w].todo \ {i} /\ pc'[w] = "write"
    BY <2>1, <2>2 DEF Storing
  <2>4. ~Newer(commits[j].tid, m)
    BY <1>1, <1>5, <2>2, <2>3 DEF Newer
  <2>5. CASE k = i
    <3>1. PICK v \in Values : v[1] = i /\ Settled(v)' /\ tidword'[v] = m
      BY <2>1, StoredSettles
    <3> QED
      BY <1>0, <2>4, <2>5, <3>1 DEF Installed
  <2>6. CASE k # i
    <3>1. Me(w)' = Me(w)
      BY <1>5 DEF StoreTid, Me
    <3> QED
      BY <1>0, <1>1, <1>5, <2>3, <2>4, <2>6, <3>1 DEF Pending
  <2> QED
    BY <2>5, <2>6
<1> QED
  BY <1>1, <1>2, <1>3, <1>4, <1>5, WritingSteps

\* A commit that is added has everything to store.
LEMMA CommitPending ==
  ASSUME Base, NEW w \in Workers, WorkerStep(w), Commit(w)
  PROVE  \E n \in Txs' :
           /\ n = Len(commits) + 1 /\ Txs' = Txs \cup {n} /\ n \notin Txs
           /\ commits'[n].id = Me(w) /\ commits'[n].tid = CommitTid(w) /\ commits'[n].local = ThLocalEpoch[w]
           /\ commits'[n].reads = tx[w].reads /\ commits'[n].writes = DOMAIN tx[w].wset
           /\ \A k \in commits'[n].writes : k \in Owns(w) /\ Pending(n, k)'
<1>0. /\ TypeOK /\ Place /\ OwnOf(w) /\ commits \in Seq(CommitTypes)
  BY BaseParts DEF TypeOK, WorkerInv
<1>1. PICK c : /\ c.id = Me(w) /\ c.tid = CommitTid(w) /\ c.local = ThLocalEpoch[w] /\ c.reads = tx[w].reads
               /\ c.writes = DOMAIN tx[w].wset /\ commits' = Append(commits, c)
  BY DEF Commit
<1>2. PICK n : n = Len(commits) + 1
  OBVIOUS
<1>3. n \in Txs' /\ Txs' = Txs \cup {n} /\ n \notin Txs /\ commits'[n] = c
  BY <1>0, <1>1, <1>2 DEF Txs
<1>4. /\ tx'[w].todo = DOMAIN tx[w].wset /\ tx'[w].maxtid = CommitTid(w) /\ CommitTid(w) \in Tids
      /\ pc'[w] = "write" /\ done' = done
  BY <1>0, CommitView
<1>5. Me(w)' = Me(w) /\ ~Newer(CommitTid(w), CommitTid(w))
  BY <1>4, NotNewerThanItself DEF Me
<1>6. ASSUME NEW k \in DOMAIN tx[w].wset PROVE k \in Owns(w) /\ Pending(n, k)'
  BY <1>0, <1>1, <1>3, <1>4, <1>5, OwnEntries DEF Pending
<1> QED
  BY <1>1, <1>2, <1>3, <1>6

\* Every step keeps account of the commits' records.
LEMMA WritesStep ==
  ASSUME Base, NEW w \in Workers, WorkerStep(w), Writes
  PROVE  Writes'
<1>0. /\ TypeOK /\ Place /\ DOMAIN mrctid = Workers /\ mrctid \in [Workers -> Tids]
  BY BaseParts DEF TypeOK, WorkerTypes
<1>1. Txs \subseteq Txs' /\ \A j \in Txs : commits'[j] = commits[j] /\ commits[j].tid \in Tids
  BY <1>0, CommitsGrow
<1>2. \A u \in Workers : Owns(u)' = Owns(u)
  BY OwnStep DEF Owns
<1>3. mrctid' = mrctid \/ (Commit(w) /\ mrctid' = [mrctid EXCEPT ![w] = CommitTid(w)])
  BY OwnStep
<1>4. Newer(CommitTid(w), mrctid[w]) /\ mrctid[w] \in Tids /\ CommitTid(w) \in Tids
  BY <1>0, CommitTidIsNext
<1>5. ASSUME NEW j \in Txs
      PROVE  /\ ~Newer(commits'[j].tid, mrctid'[commits'[j].id[1]])
             /\ \A k \in commits'[j].writes :
                  k \in Owns(commits[j].id[1])' /\ (Installed(k, commits[j].tid)' \/ Pending(j, k)')
  <2>1. PICK u \in Workers : u = commits[j].id[1]
    BY <1>0, CommitFields
  <2>2. PICK t \in Tids : t = commits[j].tid
    BY <1>1
  <2>3. ~Newer(t, mrctid[u])
    BY <2>1, <2>2 DEF Writes
  <2>4. ~Newer(t, mrctid'[u])
    <3>1. CASE mrctid'[u] = mrctid[u]
      BY <2>3, <3>1
    <3>2. CASE u = w /\ mrctid'[u] = CommitTid(w)
      <4>1. PICK m \in Tids : m = CommitTid(w)
        BY <1>4
      <4> QED
        BY <1>4, <2>3, <3>2, <4>1 DEF Newer, Tids
    <3> QED
      BY <1>0, <1>3, <3>1, <3>2
  <2>5. ASSUME NEW k \in commits[j].writes
        PROVE  k \in Owns(u)' /\ (Installed(k, commits[j].tid)' \/ Pending(j, k)')
    <3>1. k \in Keys /\ k \in Owns(u) /\ (Installed(k, t) \/ Pending(j, k))
      BY <1>0, <2>1, <2>2, CommitFields DEF Writes
    <3>2. CASE Installed(k, t)
      <4>1. Installed(k, t)'
        BY <3>1, <3>2, InstalledStays
      <4> QED
        BY <1>1, <1>2, <2>2, <3>1, <4>1
    <3>3. CASE Pending(j, k)
      BY <1>1, <1>2, <3>1, <3>3, PendingStays
    <3> QED
      BY <3>1, <3>2, <3>3
  <2> QED
    BY <1>1, <2>1, <2>2, <2>4, <2>5
<1>6. CASE Txs' = Txs
  BY <1>5, <1>6 DEF Writes
<1>7. CASE Commit(w)
  <2>1. PICK n \in Txs' :
          /\ Txs' = Txs \cup {n} /\ commits'[n].id = Me(w) /\ commits'[n].tid = CommitTid(w)
          /\ \A k \in commits'[n].writes : k \in Owns(w) /\ Pending(n, k)'
    BY <1>7, CommitPending
  <2>2. commits'[n].id[1] = w
    BY <2>1 DEF Me
  <2>3. mrctid'[w] = CommitTid(w)
    BY <1>0, <1>7 DEF Commit
  <2>4. ~Newer(commits'[n].tid, mrctid'[commits'[n].id[1]])
    BY <1>4, <2>1, <2>2, <2>3, NotNewerThanItself
  <2>5. \A k \in commits'[n].writes :
          k \in Owns(commits[n].id[1])' /\ (Installed(k, commits[n].tid)' \/ Pending(n, k)')
    BY <1>2, <2>1, <2>2
  <2> QED
    BY <1>5, <2>1, <2>4, <2>5 DEF Writes
<1> QED
  BY <1>0, <1>6, <1>7, CommitsAre DEF Txs

-----------------------------------------------------------------------------
(* The invariant of the versions                                           *)

\* Every step keeps it.
LEMMA VInvStep ==
  ASSUME Base, RInv, VInv, [Next]_vars
  PROVE  VInv'
<1>1. CASE EpochAdvance \/ UNCHANGED vars
  <2>1. /\ load' = load /\ pc' = pc /\ done' = done /\ tx' = tx /\ tree' = tree /\ tidword' = tidword
        /\ body' = body /\ commits' = commits /\ mrctid' = mrctid
    BY <1>1 DEF EpochAdvance, vars, store
  <2>2. \A v : Settled(v)' = Settled(v) /\ Torn(v)' = Torn(v)
    BY <2>1 DEF Settled, Fresh, Kept, Torn
  <2>3. \A b, t : AsNew(b, t)' = AsNew(b, t)
    BY <2>1 DEF AsNew, Txs
  <2>4. Exact'
    BY <2>1, <2>2, <2>3, Zenon DEF VInv, Exact
  <2>5. Writes'
    <3>1. \A k, t : Installed(k, t)' = Installed(k, t)
      BY <2>1, <2>2, Zenon DEF Installed
    <3>2. \A j, k : Pending(j, k)' = Pending(j, k)
      BY <2>1, Zenon DEF Pending, Me
    <3>3. \A u : Owns(u)' = Owns(u)
      BY <2>1 DEF Owns
    <3> QED
      BY <2>1, <3>1, <3>2, <3>3, Zenon DEF VInv, Writes, Txs
  <2>6. ASSUME NEW w \in Workers PROVE (PresentOf(w) /\ NamedOf(w) /\ ReportsOf(w) /\ StoresOf(w))'
    <3>0. PresentOf(w) /\ NamedOf(w) /\ ReportsOf(w) /\ StoresOf(w)
      BY DEF VInv
    <3>1. PresentOf(w)'
      BY <2>1, <3>0, Zenon DEF PresentOf
    <3>2. NamedOf(w)'
      BY <2>1, <3>0, Zenon DEF NamedOf, Program, KeyOf
    <3>3. StoresOf(w)'
      BY <2>1, <2>3, <3>0, Zenon DEF StoresOf, Me
    <3>4. ReportsOf(w)'
      <4>1. Doomed(w)' = Doomed(w)
        BY <2>1, Zenon DEF Doomed, Stale, Overwrites
      <4>2. \A r : Explained(w, r)' = Explained(w, r)
        BY <2>1, <2>3, Zenon DEF Explained, Me
      <4> QED
        BY <2>1, <3>0, <4>1, <4>2, Zenon DEF ReportsOf
    <3> QED
      BY <3>1, <3>2, <3>3, <3>4
  <2> QED
    BY <2>4, <2>5, <2>6 DEF VInv
<1>2. ASSUME NEW w \in Workers, WorkerStep(w) PROVE VInv'
  <2>0. /\ Exact /\ Writes
        /\ \A u \in Workers : EntriesOf(u) /\ FreshOf(u) /\ WritingOf(u) /\ ValidatedOf(u)
        /\ \A u \in Workers : PresentOf(u) /\ NamedOf(u) /\ ReportsOf(u) /\ StoresOf(u)
    BY DEF RInv, ReaderInv, VInv
  <2>1. Exact' /\ Writes'
    BY <1>2, <2>0, ExactStep, WritesStep
  <2>2. ASSUME NEW u \in Workers PROVE (PresentOf(u) /\ NamedOf(u) /\ ReportsOf(u) /\ StoresOf(u))'
    <3>1. PresentOf(u)' /\ StoresOf(u)'
      BY <1>2, <2>0, PresentOwn, PresentOther, StoresOwn, StoresOther
    <3>2. NamedOf(u)'
      BY <1>2, <2>0, NamedStep
    <3>3. ReportsOf(u)'
      BY <1>2, <2>0, ReportsStep
    <3> QED
      BY <3>1, <3>2, <3>3
  <2> QED
    BY <2>1, <2>2 DEF VInv
<1> QED
  BY <1>1, <1>2 DEF Next

\* At the start every record has its initial body and TID 0.
LEMMA InitVInv == Init => VInv
<1> SUFFICES ASSUME Init PROVE VInv
  OBVIOUS
<1>0. /\ pc = [w \in Workers |-> "retry"] /\ tx = [w \in Workers |-> NewTx]
      /\ body = [v \in Values |-> INITIAL] /\ tidword = [v \in Values |-> ZeroTid] /\ commits = <<>>
  BY DEF Init
<1>1. Txs = {}
  BY <1>0 DEF Txs
<1>2. ~Newer(ZeroTid, ZeroTid)
  BY DEF Newer, ZeroTid, Tid
<1>3. Exact /\ Writes
  BY <1>0, <1>1, <1>2 DEF Exact, AsNew, Writes
<1>4. ASSUME NEW w \in Workers PROVE PresentOf(w) /\ NamedOf(w) /\ ReportsOf(w) /\ StoresOf(w)
  <2>1. pc[w] = "retry" /\ tx[w].rset = <<>>
    BY <1>0 DEF NewTx
  <2> QED
    BY <2>1 DEF PresentOf, NamedOf, ReportsOf, StoresOf, Operating
<1> QED
  BY <1>3, <1>4 DEF VInv

\* Whatever a transaction was given is the version of the TID in its read set or a newer
\* one, or validationPhase will reject it, in every state of a workload without write-write
\* conflicts and repeated reads.
THEOREM VersionInvariance ==
  ASSUME \A ld \in Loads : NoConflicts(ld)
  PROVE  Spec => []VInv
<1>1. Init => VInv
  BY InitVInv
<1>2. VInv /\ RInv /\ (TInv /\ LInv) /\ [Next]_vars => VInv'
  BY VInvStep DEF Base, TInv
<1>3. Spec => [](TInv /\ LInv)
  BY LockInvariance
<1>4. Spec => []RInv
  BY ReadInvariance
<1> QED
  BY <1>1, <1>2, <1>3, <1>4, PTL DEF Spec

-----------------------------------------------------------------------------
(* The order of the transactions                                           *)

\* What is known of every state, of which the invariant of the order makes use.
Known == Base /\ Epochs /\ RInv /\ VInv

\* The parts of it that the proofs use most.
LEMMA KnownParts ==
  ASSUME Known
  PROVE  /\ Base /\ TypeOK /\ Place /\ Epochs /\ Ids /\ History /\ Writes
         /\ \A u \in Workers : WorkerInv(u) /\ OwnOf(u) /\ EntriesOf(u) /\ ValidatedOf(u) /\ GivenOf(u)
                               /\ ReportsOf(u) /\ done[u] \in Nat /\ Me(u) \in Workers \X Nat
<1>1. /\ Base /\ TypeOK /\ Place /\ Epochs /\ Ids /\ History /\ Writes
      /\ \A u \in Workers : EntriesOf(u) /\ ValidatedOf(u) /\ GivenOf(u) /\ ReportsOf(u)
  BY BaseParts DEF Known, RInv, VInv, ReaderInv
<1>2. ASSUME NEW u \in Workers PROVE WorkerInv(u) /\ OwnOf(u) /\ done[u] \in Nat
  BY <1>1, BaseParts, Typed DEF WorkerInv
<1>3. ASSUME NEW u \in Workers PROVE Me(u) \in Workers \X Nat
  BY <1>2 DEF Me
<1> QED
  BY <1>1, <1>2, <1>3

\* The transaction of a worker that has not committed it is not one of the commits.
LEMMA MeIsNew ==
  ASSUME Known, NEW w \in Workers, pc[w] \notin {"write", "writing"}
  PROVE  Me(w) # INITIAL /\ \A j \in Txs : commits[j].id # Me(w)
<1>0. TypeOK /\ Ids /\ done[w] \in Nat
  BY KnownParts
<1>1. w >= 0 /\ Me(w) = <<w, done[w] + 1>>
  BY TxAssumption DEF Workers, Me
<1>2. Me(w) # INITIAL
  BY <1>1 DEF INITIAL
<1>3. ASSUME NEW j \in Txs, commits[j].id = Me(w) PROVE FALSE
  <2>1. commits[j].id[1] = w /\ commits[j].id[2] = done[w] + 1
    BY <1>1, <1>3
  <2> QED
    BY <1>0, <2>1 DEF Ids
<1> QED
  BY <1>2, <1>3

\* The transactions of different workers.
LEMMA MeDiffers ==
  ASSUME NEW w \in Workers, NEW u \in Workers, u # w
  PROVE  Me(u) # Me(w)
BY DEF Me

\* The position of a commit.
LEMMA PositionIs ==
  ASSUME NEW C, NEW n \in Nat, NEW j \in 1 .. n,
         \A i, m \in 1 .. n : C[i].id = C[m].id => i = m
  PROVE  (CHOOSE i \in 1 .. n : C[i].id = C[j].id) = j
OBVIOUS

\* The TID of the version that a commit wrote.
LEMMA TidOfCommit ==
  ASSUME TypeOK, Ids, NEW j \in Txs
  PROVE  TidOf(commits[j].id) = commits[j].tid
<1>1. commits[j].id # INITIAL
  BY CommitFields
<1>2. Len(commits) \in Nat /\ Txs = 1 .. Len(commits)
  BY DEF TypeOK, Txs
<1>3. (CHOOSE i \in Txs : commits[i].id = commits[j].id) = j
  BY <1>2, PositionIs DEF Ids
<1> QED
  BY <1>1, <1>3 DEF TidOf

\* It is the same after a step.
LEMMA TidOfStays ==
  ASSUME Known, NEW w \in Workers, WorkerStep(w), NEW b, b = INITIAL \/ \E j \in Txs : commits[j].id = b
  PROVE  TidOf(b)' = TidOf(b)
<1>0. Base /\ TypeOK /\ Ids
  BY KnownParts
<1>1. CASE b = INITIAL
  BY <1>1 DEF TidOf
<1>2. ASSUME NEW j \in Txs, commits[j].id = b PROVE TidOf(b)' = TidOf(b)
  <2>1. Ids' /\ j \in Txs' /\ commits'[j] = commits[j]
    BY <1>0, CommitsGrow, IdsStep
  <2>2. b # INITIAL /\ TidOf(b) = commits[j].tid
    BY <1>0, <1>2, CommitFields, TidOfCommit
  <2>3. Len(commits') \in Nat /\ Txs' = 1 .. Len(commits')
    <3>1. commits \in Seq(CommitTypes)
      BY <1>0 DEF TypeOK
    <3> QED
      BY <1>0, <3>1, CommitsAre DEF Txs
  <2>4. (CHOOSE i \in Txs' : commits'[i].id = commits'[j].id) = j
    BY <2>1, <2>3, PositionIs DEF Ids
  <2>5. TidOf(b)' = commits'[j].tid
    BY <1>2, <2>1, <2>2, <2>4 DEF TidOf
  <2> QED
    BY <2>1, <2>2, <2>5
<1> QED
  BY <1>1, <1>2

\* The dependencies between the commits so far do not change.
LEMMA DependenciesStay ==
  ASSUME Known, NEW w \in Workers, WorkerStep(w), NEW i \in Txs, NEW j \in Txs, DependsOn(i, j)'
  PROVE  DependsOn(i, j)
<1>0. TypeOK /\ History
  BY KnownParts
<1>1. commits'[i] = commits[i] /\ commits'[j] = commits[j]
  BY <1>0, CommitsGrow
<1>2. CASE WR(i, j)'
  BY <1>1, <1>2 DEF WR, DependsOn
<1>3. CASE WW(i, j)'
  BY <1>1, <1>3 DEF WW, DependsOn
<1>4. CASE RW(i, j)'
  <2>1. PICK r \in commits[i].reads : /\ r[1] \in commits[j].writes /\ r[2] # commits[j].id
                                      /\ Newer(commits[j].tid, TidOf(r[2])')
    BY <1>1, <1>4 DEF RW
  <2>2. PICK b : b = r[2]
    OBVIOUS
  <2>3. b = INITIAL \/ \E n \in Txs : commits[n].id = b
    BY <1>0, <2>1, <2>2 DEF History
  <2>4. TidOf(b)' = TidOf(b)
    BY <2>3, TidOfStays
  <2>5. Newer(commits[j].tid, TidOf(r[2]))
    BY <2>1, <2>2, <2>4
  <2> QED
    BY <2>1, <2>5 DEF RW, DependsOn
<1> QED
  BY <1>2, <1>3, <1>4 DEF DependsOn

\* What comes before a worker that does not take the step.
LEMMA OldBefore ==
  ASSUME Known, NEW w \in Workers, WorkerStep(w), NEW u \in Workers, u # w, NEW f, NEW i \in Txs,
         BeforeOne(f, u, i)
  PROVE  BeforeOne(f, u, i)'
<1>0. Base /\ TypeOK /\ EntriesOf(u)
  BY KnownParts
<1>1. commits'[i] = commits[i]
  BY <1>0, CommitsGrow
<1>2. tx'[u] = tx[u] /\ Me(u)' = Me(u) /\ Extends(u)
  BY <1>0, FreshOthers, OtherExtends
<1>3. Doomed(u) => Doomed(u)'
  BY <1>0, <1>2, DoomedStays
<1> QED
  BY <1>1, <1>2, <1>3, Zenon DEF BeforeOne

\* What comes after it.
LEMMA OldAfter ==
  ASSUME Known, NEW w \in Workers, WorkerStep(w), NEW u \in Workers, u # w, NEW f, NEW m
  PROVE  /\ \A j \in Txs : AfterCommit(f, u, m, j) => AfterCommit(f, u, m, j)'
         /\ \A x \in Workers \ {w} : AfterWorker(f, u, m, x) => AfterWorker(f, u, m, x)'
<1>0. Base /\ TypeOK
  BY KnownParts
<1>1. \A j \in Txs : commits'[j] = commits[j]
  BY <1>0, CommitsGrow
<1>2. \A x \in Workers \ {w} : tx'[x] = tx[x] /\ Me(x)' = Me(x)
  BY <1>0, FreshOthers
<1>3. ASSUME NEW j \in Txs, AfterCommit(f, u, m, j) PROVE AfterCommit(f, u, m, j)'
  BY <1>1, <1>2, <1>3, Zenon DEF AfterCommit
<1>4. ASSUME NEW x \in Workers \ {w}, AfterWorker(f, u, m, x) PROVE AfterWorker(f, u, m, x)'
  <2>1. tx'[u] = tx[u] /\ Me(u)' = Me(u) /\ tx'[x] = tx[x] /\ Me(x)' = Me(x)
    BY <1>2
  <2> QED
    BY <1>4, <2>1 DEF AfterWorker
<1> QED
  BY <1>3, <1>4

\* No other worker holds the record of an entry that passes validation.
LEMMA AcceptedIsFree ==
  ASSUME Known, NEW w \in Workers, NEW r \in ReadEntries, Seen(r), Entry(w, r),
         ~Rejected(w, r, tidword[r.v]), NEW u \in Workers, u # w
  PROVE  r.key \notin Kept(u) \/ pc[u] \notin {"validate", "write", "writing"}
<1>0. /\ TypeOK /\ Place /\ WorkerInv(u) /\ OwnOf(u) /\ OwnOf(w) /\ LocksOf(u) /\ r.v[1] = r.key
      /\ tree[r.key] = r.v /\ \A ld \in Loads : NoConflicts(ld)
  BY KnownParts, BaseParts DEF WorkerInv, Entry, Settled
<1>1. SUFFICES ASSUME r.key \in Kept(u), pc[u] \in {"validate", "write", "writing"} PROVE FALSE
  OBVIOUS
<1>2. r.key \in DOMAIN tx[u].wset
  BY <1>0, <1>1, KeptWritten DEF Place, PlaceOf
<1>3. r.key \in Owns(u) /\ tree[r.key] = tx[u].wset[r.key].v
  BY <1>0, <1>1, <1>2 DEF OwnOf, OwnWrites, Removed
<1>4. tidword[r.v].lock = TRUE
  BY <1>0, <1>1, <1>3 DEF LocksOf
<1>5. r.key \in DOMAIN tx[w].wset
  BY <1>4 DEF Rejected, InWriteSet
<1>6. r.key \in Owns(w)
  BY <1>0, <1>5 DEF OwnOf, OwnWrites
<1> QED
  BY <1>0, <1>3, <1>6, OwnsDiffer

\* Nobody has overwritten an entry that passes validation, or is about to.
LEMMA AcceptedAfter ==
  ASSUME Known, NEW w \in Workers, pc[w] = "validate", NEW m \in 1 .. Len(tx[w].rset), NEW f,
         Seen(tx[w].rset[m]), ~Rejected(w, tx[w].rset[m], tidword[tx[w].rset[m].v])
  PROVE  /\ \A j \in Txs : AfterCommit(f, w, m, j)
         /\ \A u \in Validating \ {w} : AfterWorker(f, w, m, u)
<1>0. /\ TypeOK /\ Place /\ EntriesOf(w) /\ Writes /\ tx[w].rset \in Seq(ReadEntries)
      /\ tidword \in [Values -> Tids]
  BY KnownParts, BaseParts, Typed, TxFields
<1>1. PICK r \in ReadEntries : r = tx[w].rset[m]
  BY <1>0
<1>2. /\ Entry(w, r) /\ Seen(r) /\ ~Rejected(w, r, tidword[r.v]) /\ r.v \in Values /\ r.tid \in Tids
  BY <1>0, <1>1 DEF EntriesOf, ReadEntries
<1>3. \A u \in Workers \ {w} : pc[u] \in {"validate", "write", "writing"} => r.key \notin Kept(u)
  BY <1>2, AcceptedIsFree
<1>4. ASSUME NEW u \in Validating \ {w}, r.key \in DOMAIN tx[u].wset PROVE FALSE
  <2>1. pc[u] = "validate" /\ u \in Workers
    BY DEF Validating
  <2>2. r.key \in Kept(u)
    BY <1>4, <2>1 DEF Kept
  <2> QED
    BY <1>3, <2>1, <2>2
<1>5. ASSUME NEW j \in Txs, r.key \in commits[j].writes, Newer(commits[j].tid, r.tid) PROVE FALSE
  <2>0. commits[j].tid \in Tids
    BY <1>0, CommitFields
  <2>1. CASE Installed(r.key, commits[j].tid)
    <3>1. PICK v \in Values : v[1] = r.key /\ Settled(v) /\ ~Newer(commits[j].tid, tidword[v])
      BY <2>1 DEF Installed
    <3>2. v = r.v
      BY <1>2, <3>1 DEF Entry, Settled
    <3>3. PICK t \in Tids : t = tidword[r.v]
      BY <1>0, <1>2
    <3>4. t.epoch = r.tid.epoch /\ t.tid = r.tid.tid
      BY <1>2, <3>3 DEF Rejected
    <3>5. ~Newer(commits[j].tid, t)
      BY <3>1, <3>2, <3>3
    <3> QED
      BY <1>5, <3>4, <3>5 DEF Newer
  <2>2. CASE Pending(j, r.key)
    <3>1. PICK u \in Workers : pc[u] \in {"write", "writing"} /\ r.key \in tx[u].todo
      BY <2>2 DEF Pending
    <3>2. u # w /\ r.key \in Kept(u)
      BY <3>1 DEF Kept
    <3> QED
      BY <1>3, <3>1, <3>2
  <2> QED
    BY <1>0, <1>5, <2>1, <2>2 DEF Writes
<1>6. \A j \in Txs : AfterCommit(f, w, m, j)
  BY <1>1, <1>5 DEF AfterCommit
<1>7. \A u \in Validating \ {w} : AfterWorker(f, w, m, u)
  BY <1>1, <1>4 DEF AfterWorker
<1> QED
  BY <1>6, <1>7

\* Who is at validation after the step of w: the others that were, and w if it has taken its
\* epoch or a read has passed.
LEMMA ValidatingStep ==
  ASSUME Known, NEW w \in Workers, WorkerStep(w)
  PROVE  /\ Validating' \ {w} = Validating \ {w} /\ (w \in Validating' <=> pc'[w] = "validate")
         /\ \A u \in Workers \ {w} :
              tx'[u] = tx[u] /\ Me(u)' = Me(u) /\ ThLocalEpoch'[u] = ThLocalEpoch[u]
         /\ GlobalEpoch' = GlobalEpoch
<1>0. Base /\ TypeOK
  BY KnownParts
<1>1. Frame(w)
  BY <1>0, FrameStep
<1>2. \A u \in Workers \ {w} : Me(u)' = Me(u) /\ pc'[u] = pc[u]
  BY <1>0, FreshOthers
<1> QED
  BY <1>1, <1>2 DEF Frame, Validating

\* A worker comes to validation, or stays there, in two ways.
LEMMA ToValidate ==
  ASSUME Known, NEW w \in Workers, WorkerStep(w), pc'[w] = "validate"
  PROVE  \/ TakeEpoch(w)
         \/ /\ ValidateOne(w) /\ tx[w].itr \in 1 .. Len(tx[w].rset)
            /\ ~Rejected(w, tx[w].rset[tx[w].itr], tidword[tx[w].rset[tx[w].itr].v])
            /\ tx'[w].itr = tx[w].itr + 1
<1>0. Base /\ TypeOK /\ Place /\ WorkerInv(w)
  BY KnownParts
<1>1. CASE OperationStep(w)
  <2>1. pc'[w] # "validate"
    BY <1>0, <1>1, OperationViews, Zenon DEF OperationView, Fails, Steps, Finds, Expects, Reloads, Passes,
      Enters, Scans, Collects, Adds, Inserts, Added
  <2> QED
    BY <2>1
<1>2. CASE PhaseStep(w)
  <2>1. ~StartValidation(w)
    BY <1>0, StartValidationView
  <2>2. ~LockOne(w)
    <3>1. LockOne(w) => Goto(w, "unlock") \/ (pc' = pc /\ pc[w] = "lock")
      BY DEF LockOne
    <3> QED
      BY <1>0, <3>1, GotoIs
  <2> QED
    BY <1>0, <1>2, <2>1, <2>2, GivenPhase
<1>3. CASE Begin(w) \/ WriteDone(w) \/ AbortDone(w)
  BY <1>0, <1>3, NewTxView
<1> QED
  BY <1>1, <1>2, <1>3 DEF WorkerStep, OperationStep, PhaseStep

\* The transactions that are in the order.
LEMMA OrderedTypes ==
  ASSUME Known, NEW a \in Ordered
  PROVE  a[1] \in Workers \X Nat /\ a[2] \in Nat
<1>0. TypeOK /\ \A u \in Workers : Me(u) \in Workers \X Nat /\ ThLocalEpoch[u] \in Nat
  BY KnownParts DEF TypeOK, WorkerTypes
<1>1. ASSUME NEW j \in Txs, a = <<commits[j].id, commits[j].local>>
      PROVE  a[1] \in Workers \X Nat /\ a[2] \in Nat
  BY <1>0, <1>1, CommitFields
<1>2. ASSUME NEW u \in Validating, a = <<Me(u), ThLocalEpoch[u]>>
      PROVE  a[1] \in Workers \X Nat /\ a[2] \in Nat
  BY <1>0, <1>2 DEF Validating
<1> QED
  BY <1>1, <1>2 DEF Ordered

\* A step that takes no epoch and commits nothing.
LEMMA QuietOrder ==
  ASSUME Known, NEW w \in Workers, WorkerStep(w), commits' = commits, ~TakeEpoch(w),
         NEW f \in [Workers \X Nat -> Nat], NEW n \in Nat, InOrderOf(f, n)
  PROVE  InOrderOf(f, n)'
<1>0. /\ Base /\ TypeOK /\ Place /\ WorkerInv(w) /\ EntriesOf(w) /\ tx[w].itr \in Nat
      /\ tx[w].rset \in Seq(ReadEntries)
  BY KnownParts, Typed, TxFields
<1>1. /\ Validating' \ {w} = Validating \ {w} /\ (w \in Validating' <=> pc'[w] = "validate")
      /\ \A u \in Workers \ {w} : tx'[u] = tx[u] /\ Me(u)' = Me(u) /\ ThLocalEpoch'[u] = ThLocalEpoch[u]
      /\ GlobalEpoch' = GlobalEpoch /\ Txs' = Txs
  BY ValidatingStep DEF Txs
<1>2. ASSUME pc'[w] = "validate"
      PROVE  /\ ValidateOne(w) /\ tx[w].itr \in 1 .. Len(tx[w].rset) /\ PhaseStep(w) /\ pc[w] = "validate"
             /\ ~Rejected(w, tx[w].rset[tx[w].itr], tidword[tx[w].rset[tx[w].itr].v])
             /\ tx'[w].itr = tx[w].itr + 1 /\ tx'[w].rset = tx[w].rset /\ tx'[w].wset = tx[w].wset
             /\ ThLocalEpoch' = ThLocalEpoch /\ Me(w)' = Me(w)
  <2>1. /\ ValidateOne(w) /\ tx[w].itr \in 1 .. Len(tx[w].rset)
        /\ ~Rejected(w, tx[w].rset[tx[w].itr], tidword[tx[w].rset[tx[w].itr].v])
        /\ tx'[w].itr = tx[w].itr + 1
    BY <1>2, ToValidate
  <2>2. PhaseStep(w) /\ pc[w] = "validate" /\ ThLocalEpoch' = ThLocalEpoch /\ Me(w)' = Me(w)
    BY <2>1 DEF PhaseStep, ValidateOne, epochVars, Me
  <2> QED
    BY <1>0, <2>1, <2>2, PhaseView DEF SameSets
<1>3. Validating' \subseteq Validating
  BY <1>1, <1>2 DEF Validating
<1>4. Ordered' \subseteq Ordered
  <2>1. ASSUME NEW u \in Validating' PROVE Me(u)' = Me(u) /\ ThLocalEpoch'[u] = ThLocalEpoch[u] /\ u \in Validating
    BY <1>1, <1>2, <1>3 DEF Validating
  <2> QED
    BY <1>1, <2>1 DEF Ordered
<1>5. EpochsInOrder(f)'
  BY <1>1, <1>4 DEF InOrderOf, EpochsInOrder
<1>6. Forward(f)'
  BY <1>1, DependenciesStay DEF InOrderOf, Forward
<1>7. ASSUME NEW u \in Validating', u # w PROVE (AfterOf(f, u) /\ \A i \in Txs : BeforeOne(f, u, i))'
  <2>0. u \in Validating /\ u \in Workers /\ tx'[u] = tx[u] /\ Me(u)' = Me(u)
    BY <1>1, <1>3, <1>7 DEF Validating
  <2>1. AfterOf(f, u) /\ \A i \in Txs : BeforeOne(f, u, i)
    BY <2>0 DEF InOrderOf
  <2>2. \A i \in Txs : BeforeOne(f, u, i)'
    BY <1>7, <2>0, <2>1, OldBefore
  <2>3. ASSUME NEW m \in 1 .. Len(tx[u].rset), m < tx[u].itr, Seen(tx[u].rset[m])
        PROVE  /\ \A j \in Txs : AfterCommit(f, u, m, j)'
               /\ \A x \in Validating' \ {u} : AfterWorker(f, u, m, x)'
    <3>1. /\ \A j \in Txs : AfterCommit(f, u, m, j)
          /\ \A x \in Validating \ {u} : AfterWorker(f, u, m, x)
      BY <2>1, <2>3 DEF AfterOf
    <3>2. \A j \in Txs : AfterCommit(f, u, m, j)'
      BY <1>7, <2>0, <3>1, OldAfter
    <3>3. ASSUME NEW x \in Validating' \ {u}, x # w PROVE AfterWorker(f, u, m, x)'
      BY <1>3, <1>7, <2>0, <3>1, <3>3, OldAfter DEF Validating
    <3>4. ASSUME w \in Validating' \ {u} PROVE AfterWorker(f, u, m, w)'
      <4>1. AfterWorker(f, u, m, w) /\ tx'[w].wset = tx[w].wset /\ Me(w)' = Me(w)
        BY <1>1, <1>2, <1>3, <3>1, <3>4
      <4> QED
        BY <2>0, <4>1 DEF AfterWorker
    <3> QED
      BY <3>2, <3>3, <3>4
  <2>4. AfterOf(f, u)'
    BY <1>1, <2>0, <2>3 DEF AfterOf
  <2> QED
    BY <1>1, <2>2, <2>4
<1>8. ASSUME w \in Validating' PROVE (AfterOf(f, w) /\ \A i \in Txs : BeforeOne(f, w, i))'
  <2>0. pc'[w] = "validate" /\ w \in Validating
    BY <1>1, <1>3, <1>8
  <2>1. AfterOf(f, w) /\ \A i \in Txs : BeforeOne(f, w, i)
    BY <2>0 DEF InOrderOf
  <2>2. ASSUME NEW i \in Txs PROVE BeforeOne(f, w, i)'
    <3>1. Extends(w) /\ tx'[w].reads = tx[w].reads
      BY <1>0, <1>2, <2>0, PhaseExtends
    <3>2. Doomed(w) => Doomed(w)'
      BY <1>0, <3>1, DoomedStays
    <3>3. BeforeOne(f, w, i) /\ Me(w)' = Me(w) /\ tx'[w].wset = tx[w].wset
      BY <1>2, <2>0, <2>1
    <3> QED
      BY <3>1, <3>2, <3>3, Zenon DEF BeforeOne
  <2>3. ASSUME NEW m \in 1 .. Len(tx[w].rset), m < tx[w].itr + 1, Seen(tx[w].rset[m])
        PROVE  /\ \A j \in Txs : AfterCommit(f, w, m, j)'
               /\ \A x \in Validating' \ {w} : AfterWorker(f, w, m, x)'
    <3>1. /\ \A j \in Txs : AfterCommit(f, w, m, j)
          /\ \A x \in Validating \ {w} : AfterWorker(f, w, m, x)
      <4>1. CASE m < tx[w].itr
        BY <2>1, <2>3, <4>1 DEF AfterOf
      <4>2. CASE m = tx[w].itr
        BY <1>2, <2>0, <2>3, <4>2, AcceptedAfter
      <4> QED
        BY <1>0, <2>3, <4>1, <4>2
    <3>2. tx'[w].rset = tx[w].rset /\ Me(w)' = Me(w)
      BY <1>2, <2>0
    <3>3. \A j \in Txs : AfterCommit(f, w, m, j)'
      BY <3>1, <3>2, Zenon DEF AfterCommit
    <3>4. ASSUME NEW x \in Validating' \ {w} PROVE AfterWorker(f, w, m, x)'
      <4>1. AfterWorker(f, w, m, x) /\ tx'[x] = tx[x] /\ Me(x)' = Me(x)
        BY <1>1, <1>3, <3>1 DEF Validating
      <4> QED
        BY <3>2, <4>1 DEF AfterWorker
    <3> QED
      BY <3>3, <3>4
  <2>4. AfterOf(f, w)'
    <3>1. tx'[w].rset = tx[w].rset /\ tx'[w].itr = tx[w].itr + 1
      BY <1>2, <2>0
    <3> QED
      BY <1>1, <2>3, <3>1 DEF AfterOf
  <2> QED
    BY <1>1, <2>2, <2>4
<1> QED
  BY <1>5, <1>6, <1>7, <1>8 DEF InOrderOf

\* The worker that takes its epoch is the last in the order.
LEMMA TakeEpochOrder ==
  ASSUME Known, NEW w \in Workers, WorkerStep(w), TakeEpoch(w),
         NEW f \in [Workers \X Nat -> Nat], NEW n \in Nat, InOrderOf(f, n)
  PROVE  \E g \in [Workers \X Nat -> Nat] : \E i \in Nat : InOrderOf(g, i)'
<1>0. /\ Base /\ TypeOK /\ ValidatedOf(w) /\ GlobalEpoch \in Nat /\ ThLocalEpoch \in [Workers -> Nat]
      /\ \A u \in Workers : Me(u) \in Workers \X Nat
  BY KnownParts DEF TypeOK, WorkerTypes
<1>1. /\ tx' = tx /\ pc[w] = "lock" /\ pc'[w] = "validate" /\ commits' = commits /\ done' = done
      /\ ThLocalEpoch'[w] = GlobalEpoch
  BY <1>0, TakeEpochView
<1>2. /\ Validating' \ {w} = Validating \ {w} /\ w \in Validating'
      /\ \A u \in Workers \ {w} : ThLocalEpoch'[u] = ThLocalEpoch[u]
      /\ GlobalEpoch' = GlobalEpoch /\ Txs' = Txs
  BY <1>1, ValidatingStep DEF Txs
<1>3. w \notin Validating /\ Validating' = Validating \cup {w} /\ Validating \subseteq Workers
  BY <1>1, <1>2 DEF Validating
<1>4. \A u : Me(u)' = Me(u)
  BY <1>1 DEF Me
<1>5. PICK a \in Workers \X Nat : a = Me(w)
  BY <1>0
<1>6. \A j \in Txs : commits[j].id # a /\ commits[j].id \in Workers \X Nat
  BY <1>0, <1>1, <1>5, MeIsNew, CommitFields
<1>7. \A u \in Validating : Me(u) # a /\ Me(u) \in Workers \X Nat
  BY <1>0, <1>3, <1>5, MeDiffers
<1>8. PICK g : g = [f EXCEPT ![a] = n]
  OBVIOUS
<1>9. /\ g \in [Workers \X Nat -> Nat] /\ g[a] = n
      /\ \A x \in Workers \X Nat : x # a => g[x] = f[x] /\ g[x] < n
  BY <1>5, <1>8 DEF InOrderOf
<1>10. \A x \in Workers \X Nat : g[x] < n + 1
  <2>1. ASSUME NEW x \in Workers \X Nat PROVE g[x] < n + 1
    <3>1. g[x] \in Nat /\ (g[x] < n \/ g[x] = n)
      BY <1>9
    <3> QED
      BY <3>1
  <2> QED
    BY <2>1
<1>11. EpochsInOrder(g)'
  <2>1. Ordered' = Ordered \cup {<<a, GlobalEpoch>>}
    <3>1. \A u \in Validating : Me(u)' = Me(u) /\ ThLocalEpoch'[u] = ThLocalEpoch[u]
      BY <1>2, <1>3, <1>4
    <3>2. {<<Me(u)', ThLocalEpoch'[u]>> : u \in Validating'}
            = {<<Me(u), ThLocalEpoch[u]>> : u \in Validating} \cup {<<a, GlobalEpoch>>}
      BY <1>1, <1>3, <1>4, <1>5, <3>1
    <3> QED
      BY <1>1, <1>2, <3>2 DEF Ordered
  <2>2. \A b \in Ordered : b[1] # a /\ b[1] \in Workers \X Nat /\ b[2] \in Nat /\ b[2] <= GlobalEpoch
    <3>1. ASSUME NEW b \in Ordered PROVE b[1] # a
      BY <1>6, <1>7 DEF Ordered
    <3> QED
      BY <3>1, OrderedTypes DEF InOrderOf, EpochsInOrder
  <2>3. ASSUME NEW b \in Ordered', NEW c \in Ordered', g[b[1]] < g[c[1]] PROVE b[2] <= c[2]
    <3>1. CASE b \in Ordered /\ c \in Ordered
      <4>1. f[b[1]] < f[c[1]]
        BY <1>9, <2>2, <2>3, <3>1
      <4> QED
        BY <3>1, <4>1 DEF InOrderOf, EpochsInOrder
    <3>2. CASE b \in Ordered /\ c = <<a, GlobalEpoch>>
      BY <2>2, <3>2
    <3>3. CASE b = <<a, GlobalEpoch>> /\ c \in Ordered
      <4>1. g[b[1]] = n /\ g[c[1]] < n /\ g[c[1]] \in Nat
        BY <1>9, <2>2, <3>3
      <4> QED
        BY <2>3, <4>1
    <3>4. CASE b = <<a, GlobalEpoch>> /\ c = <<a, GlobalEpoch>>
      BY <1>0, <3>4
    <3> QED
      BY <2>1, <3>1, <3>2, <3>3, <3>4
  <2>4. \A b \in Ordered' : b[2] <= GlobalEpoch
    BY <1>0, <2>1, <2>2
  <2> QED
    BY <1>2, <2>3, <2>4 DEF EpochsInOrder
<1>12. Forward(g)'
  <2>1. ASSUME NEW i \in Txs, NEW j \in Txs, DependsOn(i, j)' PROVE g[commits[i].id] < g[commits[j].id]
    <3>1. f[commits[i].id] < f[commits[j].id]
      BY <2>1, DependenciesStay DEF InOrderOf, Forward
    <3> QED
      BY <1>6, <1>9, <3>1
  <2> QED
    BY <1>1, <1>2, <2>1 DEF Forward
<1>13. ASSUME NEW u \in Validating PROVE (AfterOf(g, u) /\ \A i \in Txs : BeforeOne(g, u, i))'
  <2>0. /\ AfterOf(f, u) /\ (\A i \in Txs : BeforeOne(f, u, i)) /\ u \in Workers /\ u # w
        /\ g[Me(u)] = f[Me(u)] /\ f[Me(u)] < n
    BY <1>3, <1>7, <1>9 DEF InOrderOf
  <2>1. ASSUME NEW i \in Txs PROVE BeforeOne(g, u, i)'
    <3>1. BeforeOne(f, u, i)' /\ g[commits[i].id] = f[commits[i].id]
      BY <1>6, <1>9, <2>0, OldBefore
    <3> QED
      BY <1>1, <1>4, <2>0, <3>1 DEF BeforeOne
  <2>2. ASSUME NEW m \in 1 .. Len(tx[u].rset), m < tx[u].itr, Seen(tx[u].rset[m])
        PROVE  /\ \A j \in Txs : AfterCommit(g, u, m, j)'
               /\ \A x \in Validating' \ {u} : AfterWorker(g, u, m, x)'
    <3>1. /\ \A j \in Txs : AfterCommit(f, u, m, j)
          /\ \A x \in Validating \ {u} : AfterWorker(f, u, m, x)
      BY <2>0, <2>2 DEF AfterOf
    <3>2. ASSUME NEW j \in Txs PROVE AfterCommit(g, u, m, j)'
      <4>1. AfterCommit(f, u, m, j) /\ g[commits[j].id] = f[commits[j].id]
        BY <1>6, <1>9, <3>1
      <4> QED
        BY <1>1, <1>4, <2>0, <4>1 DEF AfterCommit
    <3>3. ASSUME NEW x \in Validating' \ {u} PROVE AfterWorker(g, u, m, x)'
      <4>1. CASE x = w
        <5>1. g[Me(u)] < g[Me(x)]
          BY <1>5, <1>9, <2>0, <4>1
        <5> QED
          BY <1>1, <1>4, <5>1 DEF AfterWorker
      <4>2. CASE x \in Validating
        <5>1. AfterWorker(f, u, m, x) /\ g[Me(x)] = f[Me(x)]
          BY <1>7, <1>9, <3>1, <4>2
        <5> QED
          BY <1>1, <1>4, <2>0, <5>1 DEF AfterWorker
      <4> QED
        BY <1>3, <4>1, <4>2
    <3> QED
      BY <3>2, <3>3
  <2>3. AfterOf(g, u)'
    BY <1>1, <1>2, <2>2 DEF AfterOf
  <2> QED
    BY <1>2, <2>1, <2>3
<1>14. (AfterOf(g, w) /\ \A i \in Txs : BeforeOne(g, w, i))'
  <2>1. ASSUME NEW i \in Txs PROVE BeforeOne(g, w, i)'
    <3>1. g[commits[i].id] < g[Me(w)]
      BY <1>5, <1>6, <1>9
    <3> QED
      BY <1>1, <1>4, <3>1 DEF BeforeOne
  <2>2. tx[w].itr = 1
    BY <1>0, <1>1 DEF ValidatedOf
  <2>3. \A m \in 1 .. Len(tx[w].rset) : ~(m < tx[w].itr)
    BY <2>2
  <2>4. AfterOf(g, w)'
    BY <1>1, <2>3 DEF AfterOf
  <2> QED
    BY <1>2, <2>1, <2>4
<1>15. InOrderOf(g, n + 1)'
  BY <1>3, <1>10, <1>11, <1>12, <1>13, <1>14 DEF InOrderOf
<1> QED
  BY <1>9, <1>15

-----------------------------------------------------------------------------
(* The order at a commit                                                   *)

\* A TID that is newer than b is newer than what is not newer than b.
LEMMA NewerThan ==
  ASSUME NEW a \in Tids, NEW b \in Tids, NEW c \in Tids, Newer(a, b), ~Newer(c, b)
  PROVE  Newer(a, c)
BY DEF Newer, Tids

\* A worker's key is in its own commits only, and they are older than its next one.
LEMMA WriterOfKey ==
  ASSUME Known, NEW w \in Workers, NEW k \in Owns(w), NEW j \in Txs, k \in commits[j].writes
  PROVE  commits[j].id[1] = w /\ ~Newer(commits[j].tid, CommitTid(w))
<1>0. /\ TypeOK /\ Writes /\ commits[j].tid \in Tids /\ commits[j].id[1] \in Workers
      /\ \A ld \in Loads : NoConflicts(ld)
  BY KnownParts, BaseParts, CommitFields
<1>1. k \in Owns(commits[j].id[1]) /\ ~Newer(commits[j].tid, mrctid[commits[j].id[1]])
  BY <1>0 DEF Writes
<1>2. commits[j].id[1] = w
  BY <1>0, <1>1, OwnsDiffer
<1>3. Newer(CommitTid(w), mrctid[w]) /\ mrctid[w] \in Tids /\ CommitTid(w) \in Tids
  BY <1>0, CommitTidIsNext
<1>4. ~Newer(commits[j].tid, CommitTid(w))
  <2>1. ASSUME Newer(commits[j].tid, CommitTid(w)) PROVE FALSE
    <3>1. ~Newer(mrctid[w], CommitTid(w))
      BY <1>3 DEF Newer, Tids
    <3>2. Newer(commits[j].tid, mrctid[w])
      BY <1>0, <1>3, <2>1, <3>1, NewerThan
    <3> QED
      BY <1>1, <1>2, <3>2
  <2> QED
    BY <2>1
<1> QED
  BY <1>2, <1>4

\* A transaction that commits has had every read accepted.
LEMMA CommitNotDoomed ==
  ASSUME Known, NEW w \in Workers, Commit(w)
  PROVE  pc[w] = "validate" /\ w \in Validating /\ ~Doomed(w) /\ tx[w].itr \in Nat
         /\ \A m \in 1 .. Len(tx[w].rset) : m < tx[w].itr
<1>0. TypeOK /\ tx[w].itr \in Nat /\ tx[w].rset \in Seq(ReadEntries)
  BY KnownParts, Typed, TxFields
<1>1. pc[w] = "validate" /\ tx[w].itr > Len(tx[w].rset)
  BY DEF Commit
<1>2. \A m \in 1 .. Len(tx[w].rset) : m < tx[w].itr /\ ~(m >= tx[w].itr)
  BY <1>0, <1>1
<1> QED
  BY <1>0, <1>1, <1>2 DEF Doomed, Validating

\* The TID of the version that the new commit writes.
LEMMA NewTidOf ==
  ASSUME Known, NEW w \in Workers, WorkerStep(w), Commit(w)
  PROVE  TidOf(Me(w))' = CommitTid(w)
<1>0. Base /\ TypeOK /\ Ids /\ commits \in Seq(CommitTypes)
  BY KnownParts DEF TypeOK
<1>1. PICK n \in Txs' : commits'[n].id = Me(w) /\ commits'[n].tid = CommitTid(w)
  BY <1>0, CommitPending
<1>2. Ids' /\ Len(commits') \in Nat /\ Txs' = 1 .. Len(commits')
  BY <1>0, IdsStep, CommitsAre DEF Txs
<1>3. (CHOOSE i \in Txs' : commits'[i].id = commits'[n].id) = n
  BY <1>1, <1>2, PositionIs DEF Ids
<1>4. Me(w) # INITIAL /\ Me(w)' = Me(w)
  <2>1. pc[w] = "validate" /\ done' = done
    BY DEF Commit
  <2> QED
    BY <2>1, MeIsNew DEF Me
<1>5. TidOf(Me(w))' = commits'[n].tid
  BY <1>1, <1>3, <1>4 DEF TidOf
<1> QED
  BY <1>1, <1>5

\* What the new commit depends on comes before it.
LEMMA CommitDepends ==
  ASSUME Known, NEW w \in Workers, WorkerStep(w), Commit(w), NEW f, NEW n \in Txs', NEW i \in Txs,
         commits'[n].id = Me(w), commits'[n].reads = tx[w].reads, commits'[n].writes = DOMAIN tx[w].wset,
         \A k \in commits'[n].writes : k \in Owns(w), BeforeOne(f, w, i), DependsOn(i, n)'
  PROVE  f[commits[i].id] < f[Me(w)]
<1>0. TypeOK /\ commits'[i] = commits[i] /\ ~Doomed(w)
  BY KnownParts, CommitsGrow, CommitNotDoomed
<1>1. CASE WR(i, n)'
  <2>1. PICK k \in commits[i].writes : <<k, commits[i].id>> \in tx[w].reads
    BY <1>0, <1>1 DEF WR
  <2>2. PICK r \in tx[w].reads : r[2] = commits[i].id
    BY <2>1
  <2> QED
    BY <1>0, <2>2 DEF BeforeOne
<1>2. CASE WW(i, n)'
  <2>1. PICK k \in commits[i].writes : k \in commits'[n].writes
    BY <1>0, <1>2 DEF WW
  <2>2. commits[i].id[1] = w
    BY <2>1, WriterOfKey
  <2> QED
    BY <2>2 DEF BeforeOne
<1>3. CASE RW(i, n)'
  <2>1. PICK r \in commits[i].reads : r[1] \in DOMAIN tx[w].wset
    BY <1>0, <1>3 DEF RW
  <2> QED
    BY <2>1 DEF BeforeOne
<1> QED
  BY <1>1, <1>2, <1>3 DEF DependsOn

\* What depends on the new commit comes after it: a commit that has overwritten one of its reads.
LEMMA DependsOnCommit ==
  ASSUME Known, NEW w \in Workers, WorkerStep(w), Commit(w), NEW f, NEW n \in Txs', NEW j \in Txs,
         commits'[n].id = Me(w), commits'[n].tid = CommitTid(w), commits'[n].reads = tx[w].reads,
         commits'[n].writes = DOMAIN tx[w].wset, \A k \in commits'[n].writes : k \in Owns(w),
         AfterOf(f, w), DependsOn(n, j)'
  PROVE  f[Me(w)] < f[commits[j].id]
<1>0. /\ TypeOK /\ Ids /\ History /\ commits'[j] = commits[j] /\ commits[j].tid \in Tids
      /\ pc[w] = "validate" /\ ~Doomed(w) /\ ReportsOf(w) /\ tx[w].rset \in Seq(ReadEntries)
      /\ \A m \in 1 .. Len(tx[w].rset) : m < tx[w].itr
  BY KnownParts, CommitsGrow, CommitNotDoomed, Typed, TxFields
<1>1. Me(w) # INITIAL /\ \A i \in Txs : commits[i].id # Me(w)
  BY <1>0, MeIsNew
<1>2. CASE WR(n, j)'
  <2>1. PICK r \in commits[j].reads : r[2] = Me(w)
    BY <1>0, <1>2 DEF WR
  <2> QED
    BY <1>0, <1>1, <2>1 DEF History
<1>3. CASE WW(n, j)'
  <2>1. PICK k \in commits[j].writes : k \in commits'[n].writes /\ Newer(commits[j].tid, CommitTid(w))
    BY <1>0, <1>3 DEF WW
  <2> QED
    BY <2>1, WriterOfKey
<1>4. CASE RW(n, j)'
  <2>1. PICK r \in tx[w].reads : r[1] \in commits[j].writes /\ Newer(commits[j].tid, TidOf(r[2])')
    BY <1>0, <1>4 DEF RW
  <2>2. PICK b : b = r[2]
    OBVIOUS
  <2>3. Newer(commits[j].tid, TidOf(b)')
    BY <2>1, <2>2
  <2>4. CASE r[2] = Me(w) /\ r[1] \in DOMAIN tx[w].wset
    <3>1. TidOf(b)' = CommitTid(w)
      <4>1. b = Me(w) /\ done' = done
        BY <2>2, <2>4 DEF Commit
      <4>2. TidOf(Me(w))' = TidOf(b)'
        BY <4>1 DEF Me, TidOf
      <4> QED
        BY <4>2, NewTidOf
    <3>2. ~Newer(commits[j].tid, CommitTid(w))
      BY <2>1, <2>4, WriterOfKey
    <3> QED
      BY <2>3, <3>1, <3>2
  <2>5. ASSUME NEW m \in 1 .. Len(tx[w].rset), Seen(tx[w].rset[m]), tx[w].rset[m].key = r[1],
               AsNew(r[2], tx[w].rset[m].tid)
        PROVE  f[Me(w)] < f[commits[j].id]
    <3>0. PICK e \in ReadEntries : e = tx[w].rset[m]
      BY <1>0
    <3>1. e.tid \in Tids /\ AsNew(b, e.tid)
      BY <2>2, <2>5, <3>0 DEF ReadEntries
    <3>2. Newer(commits[j].tid, e.tid)
      <4>1. CASE b = INITIAL /\ ~Newer(e.tid, ZeroTid)
        <5>1. TidOf(b)' = ZeroTid /\ ZeroTid \in Tids
          BY <4>1 DEF TidOf, ZeroTid, Tid, Tids
        <5> QED
          BY <1>0, <2>3, <3>1, <4>1, <5>1, NewerThan
      <4>2. ASSUME NEW i \in Txs, commits[i].id = b, ~Newer(e.tid, commits[i].tid)
            PROVE  Newer(commits[j].tid, e.tid)
        <5>1. TidOf(b)' = TidOf(b)
          BY <4>2, TidOfStays
        <5>2. TidOf(b) = commits[i].tid /\ commits[i].tid \in Tids
          BY <1>0, <4>2, TidOfCommit, CommitFields
        <5> QED
          BY <1>0, <2>3, <3>1, <4>2, <5>1, <5>2, NewerThan
      <4> QED
        BY <3>1, <4>1, <4>2 DEF AsNew
    <3>3. AfterCommit(f, w, m, j)
      BY <1>0, <2>5 DEF AfterOf
    <3>4. tx[w].rset[m].key \in commits[j].writes /\ Newer(commits[j].tid, tx[w].rset[m].tid)
      BY <2>1, <2>5, <3>0, <3>2
    <3> QED
      BY <3>3, <3>4 DEF AfterCommit
  <2>6. Explained(w, r)
    BY <1>0, <2>1 DEF ReportsOf
  <2> QED
    BY <2>4, <2>5, <2>6 DEF Explained
<1> QED
  BY <1>2, <1>3, <1>4 DEF DependsOn

\* The new commit and the workers that are still at validation.
LEMMA CommitBeforeOne ==
  ASSUME Known, NEW w \in Workers, WorkerStep(w), Commit(w), NEW f, NEW n \in Txs',
         commits'[n].id = Me(w), commits'[n].reads = tx[w].reads, AfterOf(f, w),
         NEW u \in Validating, u # w
  PROVE  BeforeOne(f, u, n)'
<1>0. /\ Base /\ TypeOK /\ u \in Workers /\ pc[u] = "validate" /\ EntriesOf(u) /\ GivenOf(u) /\ OwnOf(u)
      /\ OwnOf(w) /\ ReportsOf(w) /\ \A ld \in Loads : NoConflicts(ld)
  BY KnownParts, BaseParts DEF Validating
<1>1. /\ pc[w] = "validate" /\ ~Doomed(w) /\ \A m \in 1 .. Len(tx[w].rset) : m < tx[w].itr
  BY CommitNotDoomed
<1>2. Me(w) # INITIAL /\ Me(u) # Me(w) /\ \A i \in Txs : commits[i].id # Me(w)
  BY <1>0, <1>1, MeIsNew, MeDiffers
<1>3. tx'[u] = tx[u] /\ Me(u)' = Me(u) /\ Extends(u)
  BY <1>0, FreshOthers, OtherExtends
<1>4. ASSUME NEW r \in tx[u].reads, r[2] = Me(w) PROVE Doomed(u)'
  <2>1. Accounted(u, Me(w))
    <3>1. Me(w) \in Given(u)
      BY <1>4 DEF Given
    <3> QED
      BY <1>0, <3>1 DEF GivenOf
  <2>2. \A t : ~Wrote(Me(w), t)
    BY <1>2 DEF Wrote
  <2>3. Doomed(u)
    BY <1>2, <2>1, <2>2 DEF Accounted, Doomed
  <2> QED
    BY <1>0, <1>3, <2>3, DoomedStays
<1>5. Me(w)[1] # u
  BY DEF Me
<1>6. ASSUME NEW r \in tx[w].reads, r[1] \in DOMAIN tx[u].wset PROVE f[Me(w)] < f[Me(u)]
  <2>0. r[1] \in Owns(u)
    BY <1>0, <1>6 DEF OwnOf, OwnWrites
  <2>1. Explained(w, r)
    BY <1>0, <1>1, <1>6 DEF ReportsOf
  <2>2. ~(r[1] \in DOMAIN tx[w].wset)
    <3>1. r[1] \in DOMAIN tx[w].wset => r[1] \in Owns(w)
      BY <1>0 DEF OwnOf, OwnWrites
    <3> QED
      BY <1>0, <2>0, <3>1, OwnsDiffer
  <2>3. PICK m \in 1 .. Len(tx[w].rset) : Seen(tx[w].rset[m]) /\ tx[w].rset[m].key = r[1]
    BY <2>1, <2>2 DEF Explained
  <2>4. AfterWorker(f, w, m, u)
    BY <1>1, <2>3 DEF AfterOf
  <2> QED
    BY <1>6, <2>3, <2>4 DEF AfterWorker
<1> QED
  BY <1>3, <1>4, <1>5, <1>6 DEF BeforeOne

\* What comes after the reads of the workers at validation.
LEMMA CommitAfterOf ==
  ASSUME Known, NEW w \in Workers, WorkerStep(w), Commit(w), NEW f, NEW n \in Txs', Txs' = Txs \cup {n},
         commits'[n].id = Me(w), commits'[n].writes = DOMAIN tx[w].wset, Validating' = Validating \ {w},
         NEW u \in Validating, u # w, AfterOf(f, u)
  PROVE  AfterOf(f, u)'
<1>0. Base /\ u \in Workers /\ w \in Validating
  BY KnownParts, CommitNotDoomed DEF Validating
<1>1. tx'[u] = tx[u] /\ Me(u)' = Me(u)
  BY <1>0, FreshOthers
<1>2. ASSUME NEW m \in 1 .. Len(tx[u].rset), m < tx[u].itr, Seen(tx[u].rset[m])
      PROVE  /\ \A j \in Txs' : AfterCommit(f, u, m, j)'
             /\ \A x \in Validating' \ {u} : AfterWorker(f, u, m, x)'
  <2>1. /\ \A j \in Txs : AfterCommit(f, u, m, j)
        /\ \A x \in Validating \ {u} : AfterWorker(f, u, m, x)
    BY <1>2 DEF AfterOf
  <2>2. \A j \in Txs : AfterCommit(f, u, m, j)'
    BY <1>0, <2>1, OldAfter
  <2>3. AfterCommit(f, u, m, n)'
    <3>1. AfterWorker(f, u, m, w)
      BY <1>0, <2>1
    <3> QED
      BY <1>1, <3>1 DEF AfterCommit, AfterWorker
  <2>4. ASSUME NEW x \in Validating' \ {u} PROVE AfterWorker(f, u, m, x)'
    <3>1. x \in Workers \ {w} /\ AfterWorker(f, u, m, x)
      BY <2>1 DEF Validating
    <3> QED
      BY <1>0, <3>1, OldAfter
  <2> QED
    BY <2>2, <2>3, <2>4
<1> QED
  BY <1>1, <1>2 DEF AfterOf

\* The worker that commits keeps its place.
LEMMA CommitOrder ==
  ASSUME Known, NEW w \in Workers, WorkerStep(w), Commit(w),
         NEW f \in [Workers \X Nat -> Nat], NEW n \in Nat, InOrderOf(f, n)
  PROVE  InOrderOf(f, n)'
<1>0. Base /\ TypeOK /\ w \in Validating
  BY KnownParts, CommitNotDoomed
<1>1. PICK c \in Txs' :
        /\ Txs' = Txs \cup {c}
        /\ commits'[c].id = Me(w) /\ commits'[c].tid = CommitTid(w) /\ commits'[c].local = ThLocalEpoch[w]
        /\ commits'[c].reads = tx[w].reads /\ commits'[c].writes = DOMAIN tx[w].wset
        /\ \A k \in commits'[c].writes : k \in Owns(w)
  BY <1>0, CommitPending
<1>2. /\ pc'[w] # "validate" /\ ThLocalEpoch' = ThLocalEpoch /\ GlobalEpoch' = GlobalEpoch /\ done' = done
  <2>1. pc \in [Workers -> Pcs]
    BY <1>0 DEF TypeOK, WorkerTypes
  <2> QED
    BY <2>1 DEF Commit, Goto, epochVars
<1>3. Validating' = Validating \ {w} /\ Validating \subseteq Workers
  BY <1>2, ValidatingStep DEF Validating
<1>4. \A j \in Txs : commits'[j] = commits[j]
  BY <1>0, CommitsGrow
<1>5. AfterOf(f, w) /\ \A i \in Txs : BeforeOne(f, w, i)
  BY <1>0 DEF InOrderOf
<1>6. Ordered' \subseteq Ordered
  <2>1. ASSUME NEW j \in Txs' PROVE <<commits'[j].id, commits'[j].local>> \in Ordered
    <3>1. CASE j \in Txs
      BY <1>4, <3>1 DEF Ordered
    <3>2. CASE j = c
      BY <1>0, <1>1, <3>2 DEF Ordered
    <3> QED
      BY <1>1, <3>1, <3>2
  <2>2. ASSUME NEW u \in Validating' PROVE <<Me(u)', ThLocalEpoch'[u]>> \in Ordered
    BY <1>2, <1>3 DEF Ordered, Me
  <2> QED
    BY <2>1, <2>2 DEF Ordered
<1>7. EpochsInOrder(f)'
  BY <1>2, <1>6 DEF InOrderOf, EpochsInOrder
<1>8. Forward(f)'
  <2>1. ASSUME NEW i \in Txs', NEW j \in Txs', DependsOn(i, j)' PROVE f[commits'[i].id] < f[commits'[j].id]
    <3>1. CASE i \in Txs /\ j \in Txs
      BY <1>4, <2>1, <3>1, DependenciesStay DEF InOrderOf, Forward
    <3>2. CASE i \in Txs /\ j = c
      BY <1>1, <1>4, <1>5, <2>1, <3>2, CommitDepends
    <3>3. CASE i = c /\ j \in Txs
      BY <1>1, <1>4, <1>5, <2>1, <3>3, DependsOnCommit
    <3>4. CASE i = c /\ j = c
      BY <2>1, <3>4 DEF DependsOn
    <3> QED
      BY <1>1, <3>1, <3>2, <3>3, <3>4
  <2> QED
    BY <2>1 DEF Forward
<1>9. ASSUME NEW u \in Validating' PROVE (AfterOf(f, u) /\ \A i \in Txs : BeforeOne(f, u, i))'
  <2>0. u \in Validating /\ u # w /\ u \in Workers /\ AfterOf(f, u) /\ \A i \in Txs : BeforeOne(f, u, i)
    BY <1>3 DEF InOrderOf
  <2>1. AfterOf(f, u)'
    BY <1>1, <1>3, <2>0, CommitAfterOf
  <2>2. BeforeOne(f, u, c)'
    BY <1>1, <1>5, <2>0, CommitBeforeOne
  <2>3. \A i \in Txs : BeforeOne(f, u, i)'
    BY <2>0, OldBefore
  <2> QED
    BY <1>1, <2>1, <2>2, <2>3
<1> QED
  BY <1>7, <1>8, <1>9 DEF InOrderOf

-----------------------------------------------------------------------------
(* Serializability                                                         *)

\* The order is kept by an epoch that is advanced.
LEMMA AdvanceOrder ==
  ASSUME Known, EpochAdvance \/ UNCHANGED vars, NEW f, NEW n, InOrderOf(f, n)
  PROVE  InOrderOf(f, n)'
<1>0. GlobalEpoch \in Nat
  BY KnownParts DEF TypeOK
<1>1. /\ pc' = pc /\ done' = done /\ tx' = tx /\ tidword' = tidword /\ commits' = commits
      /\ ThLocalEpoch' = ThLocalEpoch
  BY DEF EpochAdvance, vars, epochVars, store
<1>2. GlobalEpoch' \in Nat /\ GlobalEpoch <= GlobalEpoch'
  BY <1>0 DEF EpochAdvance, vars, epochVars
<1>3. Txs' = Txs /\ Validating' = Validating /\ \A w : Me(w)' = Me(w)
  BY <1>1 DEF Txs, Validating, Me
<1>4. Ordered' = Ordered
  BY <1>1, <1>3, Zenon DEF Ordered
<1>5. EpochsInOrder(f)'
  <2>1. \A a \in Ordered : a[2] \in Nat /\ a[2] <= GlobalEpoch
    BY OrderedTypes DEF InOrderOf, EpochsInOrder
  <2>2. \A a \in Ordered : a[2] <= GlobalEpoch'
    BY <1>0, <1>2, <2>1
  <2> QED
    BY <1>4, <2>2 DEF InOrderOf, EpochsInOrder
<1>6. Forward(f)'
  <2>1. \A b : TidOf(b)' = TidOf(b)
    BY <1>1 DEF TidOf, Txs
  <2>2. \A i, j : DependsOn(i, j)' = DependsOn(i, j)
    BY <1>1, <2>1, Zenon DEF DependsOn, WR, WW, RW
  <2> QED
    BY <1>1, <1>3, <2>2, Zenon DEF InOrderOf, Forward
<1>7. ASSUME NEW w \in Validating PROVE (AfterOf(f, w) /\ \A i \in Txs : BeforeOne(f, w, i))'
  <2>0. AfterOf(f, w) /\ \A i \in Txs : BeforeOne(f, w, i)
    BY DEF InOrderOf
  <2>1. Doomed(w)' = Doomed(w)
    BY <1>1, Zenon DEF Doomed, Stale, Overwrites
  <2>2. \A i : BeforeOne(f, w, i)' = BeforeOne(f, w, i)
    BY <1>1, <1>3, <2>1, Zenon DEF BeforeOne
  <2>3. \A m, j : AfterCommit(f, w, m, j)' = AfterCommit(f, w, m, j)
    BY <1>1, <1>3, Zenon DEF AfterCommit
  <2>4. \A m, u : AfterWorker(f, w, m, u)' = AfterWorker(f, w, m, u)
    BY <1>1, <1>3, Zenon DEF AfterWorker
  <2>5. AfterOf(f, w)'
    BY <1>1, <1>3, <2>0, <2>3, <2>4, Zenon DEF AfterOf
  <2> QED
    BY <1>3, <2>0, <2>2, <2>5
<1> QED
  BY <1>3, <1>5, <1>6, <1>7 DEF InOrderOf

\* Every step leaves the transactions in an order.
LEMMA OInvStep ==
  ASSUME Known, OInv, [Next]_vars
  PROVE  OInv'
<1>0. TypeOK
  BY KnownParts
<1>1. PICK f \in [Workers \X Nat -> Nat] : \E n \in Nat : InOrderOf(f, n)
  BY DEF OInv
<1>2. PICK n \in Nat : InOrderOf(f, n)
  BY <1>1
<1>3. CASE EpochAdvance \/ UNCHANGED vars
  <2>1. InOrderOf(f, n)'
    BY <1>2, <1>3, AdvanceOrder
  <2> QED
    BY <2>1 DEF OInv
<1>4. ASSUME NEW w \in Workers, WorkerStep(w) PROVE OInv'
  <2>1. CASE TakeEpoch(w)
    BY <1>2, <1>4, <2>1, TakeEpochOrder DEF OInv
  <2>2. CASE Commit(w)
    <3>1. InOrderOf(f, n)'
      BY <1>2, <1>4, <2>2, CommitOrder
    <3> QED
      BY <3>1 DEF OInv
  <2>3. CASE commits' = commits /\ ~TakeEpoch(w)
    <3>1. InOrderOf(f, n)'
      BY <1>2, <1>4, <2>3, QuietOrder
    <3> QED
      BY <3>1 DEF OInv
  <2> QED
    BY <1>0, <1>4, <2>1, <2>2, <2>3, CommitsAre
<1> QED
  BY <1>3, <1>4 DEF Next

\* At the start there is nothing to be put in order.
LEMMA InitOInv == Init => OInv
<1> SUFFICES ASSUME Init PROVE OInv
  OBVIOUS
<1>1. Txs = {} /\ Validating = {}
  BY DEF Init, Txs, Validating
<1>2. Ordered = {}
  BY <1>1 DEF Ordered
<1>3. PICK f \in [Workers \X Nat -> Nat] : f = [x \in Workers \X Nat |-> 0]
  OBVIOUS
<1>4. InOrderOf(f, 1)
  BY <1>1, <1>2, <1>3 DEF InOrderOf, EpochsInOrder, Forward
<1> QED
  BY <1>4 DEF OInv

\* The transactions can be put in an order that all dependencies between the committed ones
\* and their epochs follow, in every state of a workload without write-write conflicts: the
\* one in which they take their epochs, between lockWriteSet and the validation of the read
\* set.
THEOREM OrderInvariance ==
  ASSUME \A ld \in Loads : NoConflicts(ld)
  PROVE  Spec => []OInv
<1>0. \A ld \in Loads : NoConflicts(ld)
  OBVIOUS
<1>1. Init => OInv
  BY InitOInv
<1>2. TInv /\ LInv /\ RInv /\ VInv => Known
  BY <1>0 DEF Known, Base, TInv
<1>3. OInv /\ (TInv /\ LInv) /\ RInv /\ VInv /\ [Next]_vars => OInv'
  BY <1>2, OInvStep
<1>4. Spec => [](TInv /\ LInv)
  BY <1>0, LockInvariance
<1>5. Spec => []RInv
  BY <1>0, ReadInvariance
<1>6. Spec => []VInv
  BY VersionInvariance
<1> QED
  BY <1>1, <1>3, <1>4, <1>5, <1>6, PTL DEF Spec

\* Committed transactions are serializable: in any set of them, the first in the order
\* depends on no other (read, lockWriteSet, validationPhase, writePhase).
THEOREM CommitsSerializable ==
  ASSUME \A ld \in Loads : NoConflicts(ld)
  PROVE  Spec => []Serializable
<1>1. TypeOK /\ OInv => Serializable
  <2> SUFFICES ASSUME TypeOK, OInv, NEW S \in (SUBSET Txs) \ {{}}
               PROVE  \E j \in S : \A i \in S : ~DependsOn(i, j)
    BY DEF Serializable
  <2>1. PICK f \in [Workers \X Nat -> Nat] : Forward(f)
    BY DEF OInv, InOrderOf
  <2>2. \A i \in S : i \in Txs /\ f[commits[i].id] \in Nat
    BY <2>1, CommitFields
  <2>3. PICK R : R = {f[commits[i].id] : i \in S}
    OBVIOUS
  <2>4. R \in SUBSET Nat /\ R # {}
    <3>1. PICK i : i \in S
      OBVIOUS
    <3>2. f[commits[i].id] \in R
      BY <2>3, <3>1
    <3> QED
      BY <2>2, <2>3, <3>2
  <2>5. PICK x \in R : \A y \in R : x <= y
    BY <2>4, LeastExists
  <2>6. PICK j \in S : x = f[commits[j].id]
    BY <2>3, <2>5
  <2>7. ASSUME NEW i \in S, DependsOn(i, j) PROVE FALSE
    <3>1. f[commits[i].id] < f[commits[j].id]
      BY <2>1, <2>2, <2>7 DEF Forward
    <3>2. f[commits[j].id] <= f[commits[i].id]
      BY <2>3, <2>5, <2>6
    <3> QED
      BY <2>2, <3>1, <3>2
  <2> QED
    BY <2>7
<1>2. Spec => []TypeOK
  BY TypeCorrect
<1>3. Spec => []OInv
  BY OrderInvariance
<1> QED
  BY <1>1, <1>2, <1>3, PTL

\* No transaction depends on one of a later epoch, not even by overwriting what it read, so
\* the suffix of epochs that a crash takes from the logs leaves a serializable history
\* (validationPhase takes the epoch between locking and validation).
THEOREM DependenciesInEpochOrder ==
  ASSUME \A ld \in Loads : NoConflicts(ld)
  PROVE  Spec => []EpochOrder
<1>1. OInv /\ CommitInLocalEpoch => EpochOrder
  <2> SUFFICES ASSUME OInv, CommitInLocalEpoch, NEW i \in Txs, NEW j \in Txs, DependsOn(i, j)
               PROVE  commits[i].tid.epoch <= commits[j].tid.epoch
    BY DEF EpochOrder
  <2>1. PICK f \in [Workers \X Nat -> Nat] : EpochsInOrder(f) /\ Forward(f)
    BY DEF OInv, InOrderOf
  <2>2. f[commits[i].id] < f[commits[j].id]
    BY <2>1 DEF Forward
  <2>3. <<commits[i].id, commits[i].local>> \in Ordered /\ <<commits[j].id, commits[j].local>> \in Ordered
    BY DEF Ordered
  <2>4. commits[i].local <= commits[j].local
    BY <2>1, <2>2, <2>3 DEF EpochsInOrder
  <2> QED
    BY <2>4 DEF CommitInLocalEpoch
<1>2. Spec => []CommitInLocalEpoch
  BY CommitsInEpoch
<1>3. Spec => []OInv
  BY OrderInvariance
<1> QED
  BY <1>1, <1>2, <1>3, PTL
=============================================================================
