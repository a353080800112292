-------------------------- MODULE SiloTxReadProofs --------------------------
(***************************************************************************)
(* Proofs about what the transactions of SiloTx read, for every number of  *)
(* workers, every set of keys and every input in which no two workers      *)
(* write the same record.                                                  *)
(***************************************************************************)
EXTENDS SiloTxLockProofs

-----------------------------------------------------------------------------
(* The inductive invariant                                                 *)

\* The keys of the records that w has put into the tree and that are neither
\* committed nor taken out again.
Fresh(w) == Kept(w) \cap Inserted(tx[w].wset)

\* v is the record of its key for good.
Settled(v) == tree[v[1]] = v /\ \A u \in Workers : v[1] \notin Fresh(u)

\* Transaction b has committed with a TID not newer than t.
Wrote(b, t) == \E j \in Txs : commits[j].id = b /\ ~Newer(commits[j].tid, t)

\* writePhase is assigning the body of v.
Torn(v) == \E u \in Workers : pc[u] = "writing" /\ tx[u].wset[Least(tx[u].todo)].v = v

\* A settled record has the body of a committed transaction, not newer than its TID.
Versions ==
  \A v \in Values :
    Settled(v) => body[v] = INITIAL \/ Wrote(body[v], tidword[v]) \/ Torn(v)

\* The records that scan and read_internal are looking at are in the tree, or locked:
\* then they may be gone.
Sighted(v) == tree[v[1]] = v \/ tidword[v].lock = TRUE

\* ... whatever the worker holds: the rest of a scan, the record found, the word expected.
SightsOf(w) ==
  /\ \A i \in 1 .. Len(tx[w].scan) :
       tx[w].scan[i][2][1] = tx[w].scan[i][1] /\ Sighted(tx[w].scan[i][2])
  /\ pc[w] \in {"load", "recheck"} => Sighted(tx[w].found)
  /\ pc[w] \in {"load", "recheck"} /\ tx[w].scan = <<>> => tx[w].found[1] = KeyOf(w)
  /\ pc[w] = "recheck" => tx[w].expected.lock = FALSE

\* The program counters at which the operations of the transaction are being run.
Operating == {"op", "load", "recheck", "body", "scan"}

\* An entry of read_internal; insert's has the TID word of the new record, which is locked.
Seen(r) == r.tid.lock = FALSE

\* What was read is settled, and its TID has not gone back since; what was inserted is
\* the worker's own.
Entry(w, r) ==
  /\ r.v[1] = r.key
  /\ Seen(r) => Settled(r.v) /\ ~Newer(r.tid, tidword[r.v])
  /\ ~Seen(r) /\ pc[w] \in Operating => r.key \in Fresh(w) /\ tx[w].wset[r.key].v = r.v

\* The read set; read_internal takes the body right after it has made its entry.
EntriesOf(w) ==
  /\ \A i \in 1 .. Len(tx[w].rset) : Entry(w, tx[w].rset[i])
  /\ pc[w] = "body" => Len(tx[w].rset) # 0 /\ tx[w].rset[Len(tx[w].rset)].v = tx[w].found

\* A record that was inserted has the body of its transaction.
FreshOf(w) == \A k \in Fresh(w) : body[tx[w].wset[k].v] = Me(w)

\* A transaction in writePhase has committed, and its TID is newer than those of the
\* records it has still to store.
WritingOf(w) ==
  pc[w] \in {"write", "writing"} =>
    /\ Wrote(Me(w), tx[w].maxtid)
    /\ \A k \in tx[w].todo \cap Lockable(tx[w].wset) :
         Newer(tx[w].maxtid, tidword[tx[w].wset[k].v])

\* maxR covers the reads that were validated.
ValidatedOf(w) ==
  /\ pc[w] \in Operating \cup {"lock"} => tx[w].itr = 1
  /\ pc[w] = "validate" =>
       \A i \in 1 .. Len(tx[w].rset) : i < tx[w].itr => ~Newer(tx[w].rset[i].tid, tx[w].maxR)

\* u has committed a newer version of the record than the one read in entry r.
Overwrites(u, r) ==
  /\ pc[u] \in {"write", "writing"} /\ Newer(tx[u].maxtid, r.tid)
  /\ \E k \in tx[u].todo : tx[u].wset[k].v = r.v

\* Validation will reject entry r of w.
Stale(w, r) ==
  Newer(tidword[r.v], r.tid) \/ \E u \in Workers \ {w} : Overwrites(u, r)

\* A body that w was given is its own, or of a committed transaction that is not newer
\* than a TID in the read set, or else the transaction is bound to fail.
Accounted(w, b) ==
  \/ b = INITIAL \/ b = Me(w)
  \/ \E i \in 1 .. Len(tx[w].rset) :
       \/ Seen(tx[w].rset[i]) /\ i >= tx[w].itr /\ Stale(w, tx[w].rset[i])
       \/ Wrote(b, tx[w].rset[i].tid)

\* The bodies that w was given.
Given(w) == {r[2] : r \in tx[w].reads}

\* Until it has been decided, everything a transaction was given is accounted for.
GivenOf(w) ==
  pc[w] \in Operating \cup {"lock", "validate"} => \A b \in Given(w) : Accounted(w, b)

\* What holds of each worker.
ReaderInv(w) ==
  SightsOf(w) /\ EntriesOf(w) /\ FreshOf(w) /\ WritingOf(w) /\ ValidatedOf(w) /\ GivenOf(w)

\* A transaction commits once.
Ids ==
  /\ \A j \in Txs :
       /\ commits[j].id[1] \in Workers
       /\ \/ commits[j].id[2] <= done[commits[j].id[1]]
          \/ /\ commits[j].id[2] = done[commits[j].id[1]] + 1
             /\ pc[commits[j].id[1]] \in {"write", "writing"}
  /\ \A i, j \in Txs : commits[i].id = commits[j].id => i = j

\* What it read is its own or that of an older commit.
History ==
  \A j \in Txs : \A r \in commits[j].reads :
    r[2] = INITIAL \/ r[2] = commits[j].id
    \/ \E i \in Txs : commits[i].id = r[2] /\ Newer(commits[j].tid, commits[i].tid)

\* The inductive invariant, on top of TInv and LInv.
RInv == Versions /\ Ids /\ History /\ \A w \in Workers : ReaderInv(w)

-----------------------------------------------------------------------------
(* What a step does to the records                                         *)

\* The inserted records of a worker are as they were.
SameFresh(w) ==
  Fresh(w)' = Fresh(w) /\ \A k \in Fresh(w) : tx'[w].wset[k] = tx[w].wset[k]

\* The step touches no record.
Quiet(w) == tree' = tree /\ tidword' = tidword /\ body' = body /\ SameFresh(w)

\* insert puts a record into the tree.
Inserting(w, k) ==
  /\ k \in Owns(w) /\ tree[k] = NULL /\ tree' = [tree EXCEPT ![k] = <<k, w>>]
  /\ tidword' = [tidword EXCEPT ![<<k, w>>] = Tid(0, 0, TRUE, TRUE)]
  /\ body' = [body EXCEPT ![<<k, w>>] = Me(w)]
  /\ k \notin Fresh(w) /\ Fresh(w)' = Fresh(w) \cup {k} /\ tx'[w].wset[k].v = <<k, w>>
  /\ \A j \in Fresh(w) : tx'[w].wset[j] = tx[w].wset[j]

\* lockWriteSet or unlockWriteSet changes the lock bit of the record of key k.
Relocking(w, k, m) ==
  /\ k \in DOMAIN tx[w].wset /\ tree[k] = tx[w].wset[k].v
  /\ tidword' = [tidword EXCEPT ![tx[w].wset[k].v] = m]
  /\ m.epoch = tidword[tx[w].wset[k].v].epoch /\ m.tid = tidword[tx[w].wset[k].v].tid
  /\ m.absent = tidword[tx[w].wset[k].v].absent
  /\ tree' = tree /\ body' = body /\ SameFresh(w)
  /\ pc[w] \notin {"write", "writing"}

\* writePhase begins to assign a body.
Tearing(w, k) ==
  /\ pc[w] = "write" /\ pc'[w] = "writing" /\ tx'[w] = tx[w]
  /\ k = Least(tx[w].todo) /\ k \in DOMAIN tx[w].wset /\ tree[k] = tx[w].wset[k].v
  /\ tx[w].wset[k].op = "WRITE"
  /\ body' = [body EXCEPT ![tx[w].wset[k].v] = TORN]
  /\ tree' = tree /\ tidword' = tidword /\ SameFresh(w)

\* writePhase stores the TID word of the record of key k, and with it ends the assignment.
Storing(w, k, m) ==
  /\ pc[w] \in {"write", "writing"} /\ pc'[w] = "write"
  /\ k = Least(tx[w].todo) /\ k \in tx[w].todo /\ k \in DOMAIN tx[w].wset /\ tree[k] = tx[w].wset[k].v
  /\ tidword' = [tidword EXCEPT ![tx[w].wset[k].v] = m]
  /\ m.epoch = tx[w].maxtid.epoch /\ m.tid = tx[w].maxtid.tid
  /\ tx'[w].maxtid = m /\ tx'[w].todo = tx[w].todo \ {k} /\ tx'[w].wset = tx[w].wset
  /\ \/ pc[w] = "writing" /\ body' = [body EXCEPT ![tx[w].wset[k].v] = Me(w)]
     \/ pc[w] = "write" /\ tx[w].wset[k].op # "WRITE" /\ body' = body
  /\ tree' = tree /\ Fresh(w)' = Fresh(w) \ {k}

\* abort takes an inserted record out of the tree.
Removing(w, k) ==
  /\ k \in Fresh(w) /\ tree' = [tree EXCEPT ![k] = NULL] /\ tidword' = tidword /\ body' = body
  /\ Fresh(w)' = Fresh(w) \ {k} /\ \A j \in Fresh(w) : tx'[w].wset[j] = tx[w].wset[j]

\* One of the six.
Effect(w) ==
  \/ Quiet(w)
  \/ \E k \in Keys : Inserting(w, k)
  \/ \E k \in Keys : \E m \in Tids : Relocking(w, k, m)
  \/ \E k \in Keys : Tearing(w, k)
  \/ \E k \in Keys : \E m \in Tids : Storing(w, k, m)
  \/ \E k \in Keys : Removing(w, k)

\* An inserted record is in the tree, locked and of the worker's keys.
LEMMA FreshIs ==
  ASSUME TypeOK, Place, NEW w \in Workers, WorkerInv(w), NEW k \in Fresh(w)
  PROVE  /\ k \in DOMAIN tx[w].wset /\ k \in Owns(w) /\ k \in Keys
         /\ tx[w].wset[k].v \in Values /\ tx[w].wset[k].v[1] = k /\ tree[k] = tx[w].wset[k].v
         /\ tidword[tx[w].wset[k].v].lock = TRUE
<1>1. k \in Kept(w) /\ k \in Inserted(tx[w].wset) /\ k \in DOMAIN tx[w].wset
  BY DEF Fresh, Inserted
<1>2. OwnOf(w) /\ LocksOf(w)
  BY DEF WorkerInv
<1>3. k \notin Removed(w)
  BY <1>1 DEF Removed, Kept
<1>4. tree[k] = tx[w].wset[k].v
  BY <1>1, <1>2, <1>3 DEF OwnOf, OwnWrites
<1>5. tidword[tx[w].wset[k].v].lock = TRUE
  BY <1>1, <1>2 DEF LocksOf
<1> QED
  BY <1>1, <1>2, <1>4, <1>5, OwnEntries

\* The operations: only insert touches a record.
LEMMA OperationEffect ==
  ASSUME TypeOK, Place, NEW w \in Workers, WorkerInv(w), OperationStep(w)
  PROVE  Effect(w)
<1>0. OperationView(w)
  BY OperationViews
<1>1. ASSUME SameSets(w), pc[w] \in Operating, pc'[w] \in Operating PROVE SameFresh(w)
  BY <1>1 DEF SameSets, SameFresh, Fresh, Kept, Operating
<1>2. CASE Fails(w)
  <2>1. /\ pc[w] \in Operating /\ pc'[w] = "abort" /\ tx'[w].todo = Inserted(tx[w].wset)
        /\ tx'[w].wset = tx[w].wset /\ UNCHANGED store
    BY <1>2 DEF Fails, SameSets, Operating
  <2>2. SameFresh(w)
    BY <2>1 DEF SameFresh, Fresh, Kept, Operating
  <2> QED
    BY <2>1, <2>2 DEF Effect, Quiet, store
<1>3. CASE Steps(w) \/ Finds(w) \/ Expects(w) \/ Reloads(w) \/ Passes(w) \/ Scans(w) \/ Collects(w)
  <2>1. SameSets(w) /\ pc[w] \in Operating /\ pc'[w] \in Operating /\ UNCHANGED store
    BY <1>3 DEF Steps, Finds, Expects, Reloads, Passes, Scans, Collects, Operating
  <2> QED
    BY <1>1, <2>1 DEF Effect, Quiet, store
<1>4. CASE Enters(w)
  <2>1. /\ tx'[w].wset = tx[w].wset /\ pc[w] = "recheck" /\ pc'[w] \in {"body", "scan"}
        /\ UNCHANGED store
    BY <1>4 DEF Enters
  <2>2. SameFresh(w)
    BY <2>1 DEF SameFresh, Fresh, Kept
  <2> QED
    BY <2>1, <2>2 DEF Effect, Quiet, store
<1>5. CASE Adds(w)
  <2>1. PICK k \in Keys, op \in {"WRITE", "DELETE"} : Added(w, k, LookUp(w, k), op) /\ UNCHANGED store
    BY <1>5 DEF Adds
  <2>2. /\ pc[w] = "op" /\ pc'[w] = "op" /\ k \notin DOMAIN tx[w].wset
        /\ DOMAIN tx'[w].wset = DOMAIN tx[w].wset \cup {k}
        /\ \A j \in DOMAIN tx[w].wset : tx'[w].wset[j] = tx[w].wset[j]
        /\ tx'[w].wset[k].op = op
    BY <2>1 DEF Added
  <2>3. Inserted(tx'[w].wset) = Inserted(tx[w].wset)
    BY <2>2 DEF Inserted
  <2>4. SameFresh(w)
    BY <2>2, <2>3 DEF SameFresh, Fresh, Kept, Inserted
  <2> QED
    BY <2>1, <2>4 DEF Effect, Quiet, store
<1>6. CASE Inserts(w)
  <2>1. PICK k \in Keys :
          /\ Added(w, k, <<k, w>>, "INSERT")
          /\ tree[k] = NULL /\ tree' = [tree EXCEPT ![k] = <<k, w>>]
          /\ tidword' = [tidword EXCEPT ![<<k, w>>] = Tid(0, 0, TRUE, TRUE)]
          /\ body' = [body EXCEPT ![<<k, w>>] = Me(w)]
    BY <1>6 DEF Inserts
  <2>2. /\ pc[w] = "op" /\ pc'[w] = "op" /\ k \notin DOMAIN tx[w].wset
        /\ DOMAIN tx'[w].wset = DOMAIN tx[w].wset \cup {k}
        /\ \A j \in DOMAIN tx[w].wset : tx'[w].wset[j] = tx[w].wset[j]
        /\ tx'[w].wset[k].op = "INSERT" /\ tx'[w].wset[k].v = <<k, w>>
    BY <2>1 DEF Added
  <2>3. Inserted(tx'[w].wset) = Inserted(tx[w].wset) \cup {k}
    BY <2>2 DEF Inserted
  <2>4. k \notin Fresh(w) /\ Fresh(w)' = Fresh(w) \cup {k} /\ \A j \in Fresh(w) : tx'[w].wset[j] = tx[w].wset[j]
    BY <2>2, <2>3 DEF Fresh, Kept, Inserted
  <2>5. k \in Owns(w)
    BY <2>1, AddedIsOwned
  <2>6. Inserting(w, k)
    BY <2>1, <2>2, <2>4, <2>5 DEF Inserting
  <2> QED
    BY <2>6 DEF Effect
<1> QED
  BY <1>0, <1>2, <1>3, <1>4, <1>5, <1>6 DEF OperationView

\* writePhase stores the TID word of one record.
LEMMA StoreEffect ==
  ASSUME TypeOK, Place, NEW w \in Workers, WorkerInv(w), StoreTid(w)
  PROVE  \E k \in Keys : \E m \in Tids : Storing(w, k, m)
<1>0. OwnOf(w)
  BY DEF WorkerInv
<1>1. PICK k : k = Least(tx[w].todo)
  OBVIOUS
<1>2. /\ pc[w] \in {"write", "writing"} /\ pc'[w] = "write" /\ tx'[w].todo = tx[w].todo \ {k}
      /\ tx[w].todo # {} /\ tree' = tree /\ tx'[w].wset = tx[w].wset
  BY <1>1, StoreTidView DEF SameSets
<1>3. PICK m \in Tids : /\ m.epoch = tx[w].maxtid.epoch /\ m.tid = tx[w].maxtid.tid
                        /\ tx'[w].maxtid = m /\ tidword' = [tidword EXCEPT ![tx[w].wset[k].v] = m]
  BY <1>1, StoreTidView
<1>4. k \in tx[w].todo /\ k \in Keys /\ k \in DOMAIN tx[w].wset /\ tree[k] = tx[w].wset[k].v
  BY <1>0, <1>1, <1>2, FirstKey DEF OwnOf, OwnWrites, Removed
<1>5. \/ pc[w] = "writing" /\ body' = [body EXCEPT ![tx[w].wset[k].v] = Me(w)]
      \/ pc[w] = "write" /\ tx[w].wset[k].op # "WRITE" /\ body' = body
  BY <1>1 DEF StoreTid
<1>6. Fresh(w)' = Fresh(w) \ {k}
  BY <1>2, <1>4 DEF Fresh, Kept
<1>7. Storing(w, k, m)
  BY <1>1, <1>2, <1>3, <1>4, <1>5, <1>6 DEF Storing
<1> QED
  BY <1>3, <1>4, <1>7

\* What the steps after the operations change.
LEMMA PhaseEffect ==
  ASSUME TypeOK, Place, NEW w \in Workers, WorkerInv(w), PhaseStep(w)
  PROVE  Effect(w)
<1>0. /\ OwnOf(w) /\ LoopOf(w) /\ tx'[w].wset = tx[w].wset /\ tx[w].todo \subseteq DOMAIN tx[w].wset
  BY PhaseView DEF WorkerInv, SameSets, Place, PlaceOf
<1>1. ASSUME UNCHANGED store, SameFresh(w) PROVE Effect(w)
  BY <1>1 DEF Effect, Quiet, store
<1>2. ASSUME tx[w].todo # {}, pc[w] # "abort"
      PROVE  /\ Least(tx[w].todo) \in tx[w].todo /\ Least(tx[w].todo) \in Keys
             /\ Least(tx[w].todo) \in DOMAIN tx[w].wset
             /\ tx[w].wset[Least(tx[w].todo)].v \in Values
             /\ tidword[tx[w].wset[Least(tx[w].todo)].v] \in Tids
             /\ tree[Least(tx[w].todo)] = tx[w].wset[Least(tx[w].todo)].v
  <2>1. Least(tx[w].todo) \notin Removed(w)
    BY <1>2 DEF Removed
  <2> QED
    BY <1>0, <1>2, <2>1, FirstKey DEF OwnOf, OwnWrites
<1>3. CASE StartValidation(w)
  <2>1. /\ pc[w] = "op" /\ pc'[w] = "lock" /\ tx'[w].todo = Lockable(tx[w].wset) /\ UNCHANGED store
    BY <1>3, StartValidationView
  <2>2. SameFresh(w)
    BY <1>0, <2>1 DEF SameFresh, Fresh, Kept, Lockable, Inserted
  <2> QED
    BY <1>1, <2>1, <2>2
<1>4. CASE LockOne(w)
  <2>1. PICK k : k = Least(tx[w].todo)
    OBVIOUS
  <2>2. PICK v : v = tx[w].wset[k].v
    OBVIOUS
  <2>3. ~tidword[v].lock
    BY <1>4, <2>1, <2>2, LockIsFree, Zenon DEF LockOne
  <2>4. Takes(w, k, v)
    BY <1>4, <2>1, <2>2, <2>3, LockView
  <2>5. /\ pc[w] = "lock" /\ pc'[w] = "lock" /\ tx'[w].todo = tx[w].todo \ {k} /\ tx[w].todo # {}
        /\ tidword' = [tidword EXCEPT ![v].lock = TRUE] /\ tree' = tree /\ body' = body
    BY <2>4, Zenon DEF Takes
  <2>6. k \in tx[w].todo /\ k \in Keys /\ k \in DOMAIN tx[w].wset /\ tidword[v] \in Tids /\ tree[k] = v
    BY <1>2, <2>1, <2>2, <2>5
  <2>7. PICK m : m = [tidword[v] EXCEPT !.lock = TRUE]
    OBVIOUS
  <2>8. m \in Tids /\ m.epoch = tidword[v].epoch /\ m.tid = tidword[v].tid /\ m.absent = tidword[v].absent
    BY <2>6, <2>7 DEF Tids
  <2>9. tidword' = [tidword EXCEPT ![v] = m]
    BY <2>5, <2>7
  <2>10. k \notin Inserted(tx[w].wset)
    BY <1>0, <2>5, <2>6 DEF LoopOf, Lockable, Inserted
  <2>11. SameFresh(w)
    BY <1>0, <2>5, <2>10 DEF SameFresh, Fresh, Kept
  <2>12. Relocking(w, k, m)
    BY <2>2, <2>5, <2>6, <2>8, <2>9, <2>11 DEF Relocking
  <2> QED
    BY <2>6, <2>8, <2>12 DEF Effect
<1>5. CASE UnlockLoad(w)
  <2>1. pc[w] = "unlock" /\ pc'[w] = "unlockstore" /\ tx'[w].todo = tx[w].todo /\ UNCHANGED store
    BY <1>5, UnlockLoadView
  <2>2. SameFresh(w)
    BY <1>0, <2>1 DEF SameFresh, Fresh, Kept
  <2> QED
    BY <1>1, <2>1, <2>2
<1>6. CASE UnlockStore(w)
  <2>1. PICK k : k = Least(tx[w].todo)
    OBVIOUS
  <2>2. PICK v : v = tx[w].wset[k].v
    OBVIOUS
  <2>3. /\ pc[w] = "unlockstore" /\ pc'[w] = "unlock" /\ tx'[w].todo = tx[w].todo \ {k} /\ tx[w].todo # {}
        /\ tidword' = [tidword EXCEPT ![v] = [tx[w].expected EXCEPT !.lock = FALSE]]
        /\ tree' = tree /\ body' = body
    BY <1>6, <2>1, <2>2, UnlockStoreView
  <2>4. k \in tx[w].todo /\ k \in Keys /\ k \in DOMAIN tx[w].wset /\ tidword[v] \in Tids /\ tree[k] = v
    BY <1>2, <2>1, <2>2, <2>3
  <2>5. tx[w].expected = tidword[v]
    BY <1>0, <2>1, <2>2, <2>3 DEF LoopOf
  <2>6. PICK m : m = [tx[w].expected EXCEPT !.lock = FALSE]
    OBVIOUS
  <2>7. m \in Tids /\ m.epoch = tidword[v].epoch /\ m.tid = tidword[v].tid /\ m.absent = tidword[v].absent
    BY <2>4, <2>5, <2>6 DEF Tids
  <2>8. k \notin Inserted(tx[w].wset)
    BY <1>0, <2>3, <2>4 DEF LoopOf, Lockable, Inserted
  <2>9. SameFresh(w)
    BY <1>0, <2>3, <2>8 DEF SameFresh, Fresh, Kept
  <2>10. Relocking(w, k, m)
    BY <2>2, <2>3, <2>4, <2>6, <2>7, <2>9 DEF Relocking
  <2> QED
    BY <2>4, <2>7, <2>10 DEF Effect
<1>7. CASE Unlocked(w)
  <2>1. /\ pc[w] = "unlock" /\ tx[w].todo = {} /\ UNCHANGED store
        /\ pc'[w] = "abort" /\ tx'[w].todo = Inserted(tx[w].wset)
    BY <1>0, <1>7, UnlockedView DEF LoopOf
  <2>2. SameFresh(w)
    BY <1>0, <2>1 DEF SameFresh, Fresh, Kept
  <2> QED
    BY <1>1, <2>1, <2>2
<1>8. CASE TakeEpoch(w)
  <2>1. pc[w] = "lock" /\ pc'[w] = "validate" /\ tx[w].todo = {} /\ tx' = tx /\ UNCHANGED store
    BY <1>8, TakeEpochView
  <2>2. SameFresh(w)
    BY <2>1 DEF SameFresh, Fresh, Kept
  <2> QED
    BY <1>1, <2>1, <2>2
<1>9. CASE ValidateOne(w)
  <2>1. PICK r : r = tx[w].rset[tx[w].itr]
    OBVIOUS
  <2>2. CASE Rejected(w, r, tidword[r.v])
    <3>1. /\ pc[w] = "validate" /\ pc'[w] = "unlock" /\ tx'[w].todo = Lockable(tx[w].wset)
          /\ UNCHANGED store
      BY <1>9, <2>1, <2>2, RejectView
    <3>2. SameFresh(w)
      BY <1>0, <3>1 DEF SameFresh, Fresh, Kept, Inserted
    <3> QED
      BY <1>1, <3>1, <3>2
  <2>3. CASE ~Rejected(w, r, tidword[r.v])
    <3>1. pc[w] = "validate" /\ pc'[w] = "validate" /\ UNCHANGED store
      BY <1>9, <2>1, <2>3, AcceptView
    <3>2. SameFresh(w)
      BY <1>0, <3>1 DEF SameFresh, Fresh, Kept
    <3> QED
      BY <1>1, <3>1, <3>2
  <2> QED
    BY <2>2, <2>3
<1>10. CASE Commit(w)
  <2>1. pc[w] = "validate" /\ pc'[w] = "write" /\ tx'[w].todo = DOMAIN tx[w].wset /\ UNCHANGED store
    BY <1>10, CommitView
  <2>2. SameFresh(w)
    BY <1>0, <2>1 DEF SameFresh, Fresh, Kept
  <2> QED
    BY <1>1, <2>1, <2>2
<1>11. CASE WriteBody(w)
  <2>1. PICK k : k = Least(tx[w].todo)
    OBVIOUS
  <2>2. /\ pc[w] = "write" /\ pc'[w] = "writing" /\ tx' = tx /\ tx[w].todo # {}
        /\ body' = [body EXCEPT ![tx[w].wset[k].v] = TORN] /\ tree' = tree /\ tidword' = tidword
    BY <1>11, <2>1, WriteBodyView
  <2>3. k \in Keys /\ k \in DOMAIN tx[w].wset /\ tree[k] = tx[w].wset[k].v
    BY <1>2, <2>1, <2>2
  <2>4. SameFresh(w)
    BY <2>2 DEF SameFresh, Fresh, Kept
  <2>5. tx[w].wset[k].op = "WRITE"
    BY <1>11, <2>1 DEF WriteBody
  <2>6. Tearing(w, k)
    BY <2>1, <2>2, <2>3, <2>4, <2>5 DEF Tearing
  <2> QED
    BY <2>3, <2>6 DEF Effect
<1>12. CASE StoreTid(w)
  BY <1>12, StoreEffect DEF Effect
<1>13. CASE RemoveInserted(w)
  <2>1. PICK k : k = Least(tx[w].todo)
    OBVIOUS
  <2>2. /\ pc[w] = "abort" /\ pc'[w] = "abort" /\ tx'[w].todo = tx[w].todo \ {k} /\ tx[w].todo # {}
        /\ tree' = [tree EXCEPT ![k] = NULL] /\ tidword' = tidword /\ body' = body
    BY <1>13, <2>1, RemoveInsertedView
  <2>3. k \in tx[w].todo /\ k \in Keys
    BY <2>1, <2>2, FirstKey
  <2>4. k \in Fresh(w) /\ Fresh(w)' = Fresh(w) \ {k}
    BY <1>0, <2>2, <2>3 DEF Fresh, Kept, LoopOf
  <2>5. Removing(w, k)
    BY <1>0, <2>2, <2>4 DEF Removing
  <2> QED
    BY <2>3, <2>5 DEF Effect
<1> QED
  BY <1>3, <1>4, <1>5, <1>6, <1>7, <1>8, <1>9, <1>10, <1>11, <1>12, <1>13 DEF PhaseStep

\* A transaction that is over leaves no inserted record behind that is not committed.
LEMMA NewTxFresh ==
  ASSUME TypeOK, Place, NEW w \in Workers, Begin(w) \/ WriteDone(w) \/ AbortDone(w)
  PROVE  Fresh(w) = {} /\ Fresh(w)' = {}
<1>1. /\ tx'[w] = NewTx
      /\ pc[w] \in {"retry", "idle"} \/ (pc[w] \in {"write", "abort"} /\ tx[w].todo = {})
  BY NewTxView
<1>2. Inserted(NewTx.wset) = {}
  BY DEF NewTx, Inserted
<1>3. CASE pc[w] \in {"retry", "idle"}
  <2>1. tx[w] = NewTx
    BY <1>3 DEF Place, PlaceOf
  <2> QED
    BY <1>1, <1>2, <2>1 DEF Fresh
<1>4. CASE pc[w] \in {"write", "abort"} /\ tx[w].todo = {}
  BY <1>1, <1>2, <1>4 DEF Fresh, Kept
<1> QED
  BY <1>1, <1>3, <1>4

\* Every step of a worker has one of these effects.
LEMMA EffectStep ==
  ASSUME TypeOK, Place, NEW w \in Workers, WorkerInv(w), WorkerStep(w)
  PROVE  Effect(w)
<1>1. CASE OperationStep(w)
  BY <1>1, OperationEffect
<1>2. CASE PhaseStep(w)
  BY <1>2, PhaseEffect
<1>3. CASE Begin(w) \/ WriteDone(w) \/ AbortDone(w)
  <2>1. UNCHANGED store
    BY <1>3, NewTxView
  <2> QED
    BY <1>3, <2>1, NewTxFresh DEF Effect, Quiet, SameFresh, store
<1> QED
  BY <1>1, <1>2, <1>3 DEF WorkerStep, OperationStep, PhaseStep

-----------------------------------------------------------------------------
(* Settled records                                                         *)

\* What is known of every state, of which the invariant of the readers makes use.
Base == TypeOK /\ Place /\ LInv /\ \A ld \in Loads : NoConflicts(ld)

\* The parts of it that the proofs use most.
LEMMA BaseParts ==
  ASSUME Base
  PROVE  /\ TypeOK /\ Place /\ TreeKeys /\ \A u \in Workers : WorkerInv(u)
         /\ \A ld \in Loads : NoConflicts(ld)
         /\ tree \in [Keys -> Values \cup {NULL}] /\ tidword \in [Values -> Tids]
         /\ body \in [Values -> Bodies] /\ NULL \notin Values
         /\ \A v \in Values : v[1] \in Keys
<1>1. TypeOK /\ Place /\ LInv /\ \A ld \in Loads : NoConflicts(ld)
  BY DEF Base
<1>2. TreeKeys /\ \A u \in Workers : WorkerInv(u)
  BY <1>1 DEF LInv
<1>3. /\ tree \in [Keys -> Values \cup {NULL}] /\ tidword \in [Values -> Tids]
      /\ body \in [Values -> Bodies]
  BY <1>1 DEF TypeOK, StoreTypes
<1>4. \A v \in Values : v[1] \in Keys
  BY DEF Values
<1> QED
  BY <1>1, <1>2, <1>3, <1>4, NullIsNoValue

\* The inserted records of the others.
LEMMA FreshOthers ==
  ASSUME Base, NEW w \in Workers, WorkerStep(w), NEW u \in Workers, u # w
  PROVE  /\ tx'[u] = tx[u] /\ pc'[u] = pc[u] /\ done'[u] = done[u] /\ Me(u)' = Me(u)
         /\ Fresh(u)' = Fresh(u)
<1>1. Frame(w)
  BY BaseParts, FrameStep
<1>2. tx'[u] = tx[u] /\ pc'[u] = pc[u] /\ done'[u] = done[u]
  BY <1>1 DEF Frame
<1> QED
  BY <1>2 DEF Fresh, Kept, Me

\* A worker's record is not an inserted one of another worker.
LEMMA FreshIsOwn ==
  ASSUME Base, NEW w \in Workers, NEW u \in Workers, u # w, NEW k \in Owns(w)
  PROVE  k \notin Fresh(u)
<1>1. ASSUME k \in Fresh(u) PROVE FALSE
  <2>1. k \in Owns(u)
    BY <1>1, BaseParts, FreshIs
  <2> QED
    BY <2>1, BaseParts, OwnsDiffer
<1> QED
  BY <1>1

\* A settled record stays settled: it is in the tree, and only an inserted record
\* that is not committed is taken out of it.
LEMMA SettledStays ==
  ASSUME Base, NEW w \in Workers, WorkerStep(w), NEW v \in Values, Settled(v)
  PROVE  Settled(v)'
<1>0. /\ v[1] \in Keys /\ tree[v[1]] = v /\ v # NULL /\ \A u \in Workers : v[1] \notin Fresh(u)
      /\ tree \in [Keys -> Values \cup {NULL}]
  BY BaseParts DEF Settled
<1>1. ASSUME tree'[v[1]] = tree[v[1]], v[1] \notin Fresh(w)' PROVE Settled(v)'
  BY <1>0, <1>1, FreshOthers DEF Settled
<1>2. Effect(w)
  BY BaseParts, EffectStep
<1>3. CASE Quiet(w)
  BY <1>0, <1>1, <1>3 DEF Quiet, SameFresh
<1>4. ASSUME NEW k \in Keys, Inserting(w, k) PROVE Settled(v)'
  BY <1>0, <1>1, <1>4 DEF Inserting
<1>5. ASSUME NEW k \in Keys, NEW m \in Tids, Relocking(w, k, m) PROVE Settled(v)'
  BY <1>0, <1>1, <1>5 DEF Relocking, SameFresh
<1>6. ASSUME NEW k \in Keys, Tearing(w, k) PROVE Settled(v)'
  BY <1>0, <1>1, <1>6 DEF Tearing, SameFresh
<1>7. ASSUME NEW k \in Keys, NEW m \in Tids, Storing(w, k, m) PROVE Settled(v)'
  BY <1>0, <1>1, <1>7 DEF Storing
<1>8. ASSUME NEW k \in Keys, Removing(w, k) PROVE Settled(v)'
  BY <1>0, <1>1, <1>8 DEF Removing
<1> QED
  BY <1>2, <1>3, <1>4, <1>5, <1>6, <1>7, <1>8 DEF Effect

\* A record becomes settled when writePhase stores its TID word.
LEMMA BecomesSettled ==
  ASSUME Base, NEW w \in Workers, WorkerStep(w), NEW v \in Values, ~Settled(v), Settled(v)'
  PROVE  \E k \in Keys : \E m \in Tids : Storing(w, k, m) /\ k \in Fresh(w) /\ v = tx[w].wset[k].v
<1>0. /\ v[1] \in Keys /\ tree'[v[1]] = v /\ v # NULL /\ \A u \in Workers : v[1] \notin Fresh(u)'
      /\ tree \in [Keys -> Values \cup {NULL}]
  BY BaseParts DEF Settled
<1>1. ASSUME tree'[v[1]] = tree[v[1]], v[1] \notin Fresh(w) PROVE FALSE
  <2>1. \A u \in Workers : v[1] \notin Fresh(u)
    BY <1>0, <1>1, FreshOthers
  <2> QED
    BY <1>0, <1>1, <2>1 DEF Settled
<1>2. Effect(w)
  BY BaseParts, EffectStep
<1>3. CASE Quiet(w)
  BY <1>0, <1>1, <1>3 DEF Quiet, SameFresh
<1>4. ASSUME NEW k \in Keys, Inserting(w, k) PROVE FALSE
  BY <1>0, <1>1, <1>4 DEF Inserting
<1>5. ASSUME NEW k \in Keys, NEW m \in Tids, Relocking(w, k, m) PROVE FALSE
  BY <1>0, <1>1, <1>5 DEF Relocking, SameFresh
<1>6. ASSUME NEW k \in Keys, Tearing(w, k) PROVE FALSE
  BY <1>0, <1>1, <1>6 DEF Tearing, SameFresh
<1>7. ASSUME NEW k \in Keys, NEW m \in Tids, Storing(w, k, m) PROVE k \in Fresh(w) /\ v = tx[w].wset[k].v
  <2>1. tree' = tree /\ Fresh(w)' = Fresh(w) \ {k} /\ tree[k] = tx[w].wset[k].v
    BY <1>7 DEF Storing
  <2>2. v[1] \in Fresh(w) /\ v[1] = k
    BY <1>0, <1>1, <2>1
  <2> QED
    BY <1>0, <2>1, <2>2
<1>8. ASSUME NEW k \in Keys, Removing(w, k) PROVE FALSE
  BY <1>0, <1>1, <1>8 DEF Removing
<1> QED
  BY <1>2, <1>3, <1>4, <1>5, <1>6, <1>7, <1>8 DEF Effect

\* The TID of a settled record does not go back.
LEMMA SettledGrows ==
  ASSUME Base, NEW w \in Workers, WorkerStep(w), NEW v \in Values, Settled(v)
  PROVE  ~Newer(tidword[v], tidword'[v]) /\ tidword[v] \in Tids /\ tidword'[v] \in Tids
<1>1. tree[v[1]] = v /\ v[1] \in Keys /\ v # NULL /\ tree'[v[1]] = v
  BY SettledStays, BaseParts DEF Settled
<1>2. Grows
  BY BaseParts, GrowsStep
<1>3. TypeOK'
  BY BaseParts, TypeStep DEF Next
<1>4. tidword' \in [Values -> Tids] /\ tidword \in [Values -> Tids]
  BY <1>3, BaseParts DEF TypeOK, StoreTypes
<1> QED
  BY <1>1, <1>2, <1>4 DEF Grows

-----------------------------------------------------------------------------
(* The history of commits                                                  *)

\* The step of a worker adds its commit to the history or leaves it alone.
LEMMA CommitsAre ==
  ASSUME TypeOK, NEW w \in Workers, WorkerStep(w)
  PROVE  \/ commits' = commits
         \/ /\ Commit(w)
            /\ commits' = Append(commits, [id |-> Me(w), tid |-> CommitTid(w),
                                           local |-> ThLocalEpoch[w], conflict |-> tx[w].conflict,
                                           reads |-> tx[w].reads, rereads |-> tx[w].rereads,
                                           writes |-> DOMAIN tx[w].wset])
BY Zenon DEF WorkerStep, Begin, Insert, Write, Delete, Read, LoadTid, Recheck, ReadBody, Scan,
       ScanRecord, ScanBodies, StartValidation, LockOne, UnlockLoad, UnlockStore, Unlocked,
       TakeEpoch, ValidateOne, Commit, WriteBody, StoreTid, WriteDone, RemoveInserted,
       AbortDone, NextTransaction

\* The commits so far stay.
LEMMA CommitsGrow ==
  ASSUME TypeOK, NEW w \in Workers, WorkerStep(w)
  PROVE  Txs \subseteq Txs' /\ \A j \in Txs : commits'[j] = commits[j] /\ commits[j].tid \in Tids
<1>1. commits \in Seq(CommitTypes)
  BY DEF TypeOK
<1>2. commits' = commits \/ \E c : commits' = Append(commits, c)
  BY CommitsAre
<1>3. \A j \in Txs : commits[j] \in CommitTypes
  BY <1>1 DEF Txs
<1>4. \A j \in Txs : commits[j].tid \in Tids
  BY <1>3 DEF CommitTypes
<1>5. ASSUME NEW c, commits' = Append(commits, c)
      PROVE  Len(commits') = Len(commits) + 1 /\ \A j \in 1 .. Len(commits) : commits'[j] = commits[j]
  BY <1>1, <1>5
<1> QED
  BY <1>1, <1>2, <1>4, <1>5 DEF Txs

\* A commit stays one, with the same TID or an older bound on it.
LEMMA WroteStays ==
  ASSUME TypeOK, NEW w \in Workers, WorkerStep(w), NEW b, NEW s \in Tids, NEW t \in Tids,
         Wrote(b, s), ~Newer(s, t)
  PROVE  Wrote(b, t)'
<1>1. PICK j \in Txs : commits[j].id = b /\ ~Newer(commits[j].tid, s)
  BY DEF Wrote
<1>2. j \in Txs' /\ commits'[j] = commits[j] /\ commits[j].tid \in Tids
  BY CommitsGrow
<1>3. ~Newer(commits[j].tid, t)
  BY <1>1, <1>2, NewerTransitive
<1> QED
  BY <1>1, <1>2, <1>3 DEF Wrote

-----------------------------------------------------------------------------
(* The bodies of settled records                                           *)

\* A body that is being assigned is finished by the worker's next step.
LEMMA WritingStores ==
  ASSUME Base, NEW w \in Workers, WorkerStep(w), pc[w] = "writing"
  PROVE  \E k \in Keys : \E m \in Tids : Storing(w, k, m)
<1>1. StoreTid(w)
  BY DEF WorkerStep, Begin, Insert, Write, Delete, Read, LoadTid, Recheck, ReadBody, Scan,
         ScanRecord, ScanBodies, StartValidation, LockOne, UnlockLoad, UnlockStore, Unlocked,
         TakeEpoch, ValidateOne, Commit, WriteBody, StoreTid, WriteDone, RemoveInserted,
         AbortDone, Doing
<1> QED
  BY <1>1, BaseParts, StoreEffect

\* The record that writePhase stores has the body of the transaction, which has
\* committed, or was deleted and has the one it had.
LEMMA StoredVersion ==
  ASSUME Base, Versions, NEW w \in Workers, FreshOf(w), WritingOf(w), WorkerStep(w),
         NEW k \in Keys, NEW m \in Tids, Storing(w, k, m), NEW v \in Values, v = tx[w].wset[k].v
  PROVE  \E b : b = body'[v] /\ (b = INITIAL \/ Wrote(b, m)')
<1>0. /\ TypeOK /\ Place /\ body \in [Values -> Bodies] /\ tidword \in [Values -> Tids]
      /\ \A u \in Workers : OwnOf(u)
      /\ tx[w].maxtid \in Tids /\ k \in DOMAIN tx[w].wset
  BY BaseParts, Typed, TxFields DEF WorkerInv, Storing
<1>1. v[1] = k /\ k \in Owns(w)
  BY <1>0, OwnEntries
<1>2. PICK b : b = body'[v]
  OBVIOUS
<1>3. ASSUME b = Me(w) PROVE Wrote(b, m)'
  <2>1. /\ pc[w] \in {"write", "writing"}
        /\ m.epoch = tx[w].maxtid.epoch /\ m.tid = tx[w].maxtid.tid
    BY Zenon DEF Storing
  <2>2. Wrote(b, tx[w].maxtid)
    BY <1>3, <2>1 DEF WritingOf
  <2>3. ~Newer(tx[w].maxtid, m)
    BY <1>0, <2>1 DEF Newer, Tids
  <2> QED
    BY <1>0, <2>2, <2>3, WroteStays
<1>4. CASE pc[w] = "writing"
  <2>1. b = Me(w)
    BY <1>0, <1>2, <1>4 DEF Storing
  <2> QED
    BY <1>2, <1>3, <2>1
<1>5. CASE pc[w] = "write" /\ k \in Inserted(tx[w].wset)
  <2>1. k \in Fresh(w) /\ body' = body
    BY <1>5 DEF Storing, Fresh, Kept
  <2>2. b = Me(w)
    BY <1>2, <2>1 DEF FreshOf
  <2> QED
    BY <1>2, <1>3, <2>2
<1>6. CASE pc[w] = "write" /\ k \notin Inserted(tx[w].wset)
  <2>1. body' = body /\ tree[k] = v
    BY <1>6 DEF Storing
  <2>2. Settled(v)
    <3>1. \A u \in Workers : k \notin Fresh(u)
      BY <1>1, <1>6, FreshIsOwn DEF Fresh
    <3> QED
      BY <1>1, <2>1, <3>1 DEF Settled
  <2>3. ~Torn(v)
    <3>1. ASSUME NEW u \in Workers, pc[u] = "writing", tx[u].wset[Least(tx[u].todo)].v = v PROVE FALSE
      <4>1. u # w
        BY <1>6, <3>1
      <4>2. tx[u].todo # {}
        BY <1>0, <3>1 DEF Place, PlaceOf
      <4>3. Least(tx[u].todo) \in DOMAIN tx[u].wset
        BY <1>0, <4>2, FirstKey
      <4>4. v[1] \in Owns(u)
        BY <1>0, <3>1, <4>3, OwnEntries
      <4> QED
        BY <1>1, <4>1, <4>4, BaseParts, OwnsDiffer
    <3> QED
      BY <3>1 DEF Torn
  <2>4. b = INITIAL \/ Wrote(b, tidword[v])
    BY <1>2, <2>1, <2>2, <2>3 DEF Versions
  <2>5. ~Newer(tidword[v], m) /\ tidword[v] \in Tids
    <3>1. tidword'[v] = m
      BY <1>0 DEF Storing
    <3> QED
      BY <2>2, <3>1, SettledGrows
  <2> QED
    BY <1>0, <1>2, <2>4, <2>5, WroteStays
<1>7. pc[w] \in {"write", "writing"}
  BY Zenon DEF Storing
<1> QED
  BY <1>4, <1>5, <1>6, <1>7

\* A step changes the body of a settled record only in writePhase.
LEMMA SettledBody ==
  ASSUME Base, NEW w \in Workers, WorkerStep(w), NEW v \in Values, Settled(v),
         ~\E k \in Keys : \E m \in Tids : Storing(w, k, m) /\ v = tx[w].wset[k].v
  PROVE  body'[v] = body[v] \/ Torn(v)'
<1>0. /\ body \in [Values -> Bodies] /\ tree[v[1]] = v /\ v # NULL
  BY BaseParts DEF Settled
<1>1. Effect(w)
  BY BaseParts, EffectStep
<1>2. CASE Quiet(w)
  BY <1>2 DEF Quiet
<1>3. ASSUME NEW k \in Keys, Inserting(w, k) PROVE body'[v] = body[v]
  <2>1. <<k, w>>[1] = k
    OBVIOUS
  <2>2. v # <<k, w>>
    BY <1>0, <1>3, <2>1 DEF Inserting
  <2> QED
    BY <1>0, <1>3, <2>2 DEF Inserting
<1>4. ASSUME NEW k \in Keys, NEW m \in Tids, Relocking(w, k, m) PROVE body'[v] = body[v]
  BY <1>4 DEF Relocking
<1>5. ASSUME NEW k \in Keys, Tearing(w, k) PROVE body'[v] = body[v] \/ Torn(v)'
  <2>1. CASE v = tx[w].wset[k].v
    <3>1. pc'[w] = "writing" /\ tx'[w].wset[Least(tx'[w].todo)].v = v
      BY <1>5, <2>1 DEF Tearing
    <3> QED
      BY <3>1 DEF Torn
  <2>2. CASE v # tx[w].wset[k].v
    BY <1>0, <1>5, <2>2 DEF Tearing
  <2> QED
    BY <2>1, <2>2
<1>6. ASSUME NEW k \in Keys, NEW m \in Tids, Storing(w, k, m) PROVE body'[v] = body[v]
  <2>1. v # tx[w].wset[k].v
    BY <1>6
  <2> QED
    BY <1>0, <1>6, <2>1, Zenon DEF Storing
<1>7. ASSUME NEW k \in Keys, Removing(w, k) PROVE body'[v] = body[v]
  BY <1>7 DEF Removing
<1> QED
  BY <1>1, <1>2, <1>3, <1>4, <1>5, <1>6, <1>7 DEF Effect

\* A settled record has a body that was committed, or is being written.
LEMMA VersionsStep ==
  ASSUME Base, Versions, NEW w \in Workers, FreshOf(w), WritingOf(w), WorkerStep(w)
  PROVE  Versions'
<1> SUFFICES ASSUME NEW v \in Values, Settled(v)'
             PROVE  body'[v] = INITIAL \/ Wrote(body[v], tidword[v])' \/ Torn(v)'
  BY DEF Versions
<1>0. TypeOK /\ body \in [Values -> Bodies] /\ tidword \in [Values -> Tids]
  BY BaseParts
<1>1. CASE \E k \in Keys : \E m \in Tids : Storing(w, k, m) /\ v = tx[w].wset[k].v
  <2>1. PICK k \in Keys, m \in Tids : Storing(w, k, m) /\ v = tx[w].wset[k].v
    BY <1>1
  <2>2. PICK b : b = body'[v] /\ (b = INITIAL \/ Wrote(b, m)')
    BY <2>1, StoredVersion
  <2>3. tidword'[v] = m
    BY <1>0, <2>1 DEF Storing
  <2> QED
    BY <2>2, <2>3 DEF Wrote
<1>2. CASE ~\E k \in Keys : \E m \in Tids : Storing(w, k, m) /\ v = tx[w].wset[k].v
  <2>1. Settled(v)
    BY <1>2, BecomesSettled
  <2>2. ~Newer(tidword[v], tidword'[v]) /\ tidword[v] \in Tids /\ tidword'[v] \in Tids
    BY <2>1, SettledGrows
  <2>3. CASE Torn(v)
    <3>1. PICK u \in Workers : pc[u] = "writing" /\ tx[u].wset[Least(tx[u].todo)].v = v
      BY <2>3 DEF Torn
    <3>2. CASE u = w
      <4>1. PICK k \in Keys, m \in Tids : Storing(w, k, m)
        BY <3>1, <3>2, WritingStores
      <4> QED
        BY <1>2, <3>1, <3>2, <4>1, Zenon DEF Storing
    <3>3. CASE u # w
      <4>1. tx'[u] = tx[u] /\ pc'[u] = pc[u]
        BY <3>3, FreshOthers
      <4> QED
        BY <3>1, <4>1 DEF Torn
    <3> QED
      BY <3>2, <3>3
  <2>4. CASE body[v] = INITIAL \/ Wrote(body[v], tidword[v])
    <3>1. body'[v] = body[v] \/ Torn(v)'
      BY <1>2, <2>1, SettledBody
    <3>2. PICK b : b = body[v]
      OBVIOUS
    <3>3. PICK t \in Tids : t = tidword'[v]
      BY <2>2
    <3>4. b = INITIAL \/ Wrote(b, t)'
      BY <1>0, <2>2, <2>4, <3>2, <3>3, WroteStays
    <3> QED
      BY <3>1, <3>2, <3>3, <3>4 DEF Wrote
  <2> QED
    BY <2>1, <2>3, <2>4 DEF Versions
<1> QED
  BY <1>1, <1>2

-----------------------------------------------------------------------------
(* What a worker is given                                                  *)

\* A step of an operation gives a worker what it was given before, its own body, that
\* of the record it has read, or those of its read set.
NewGiven(w) ==
  /\ tx'[w].itr = tx[w].itr
  /\ \A b \in Given(w)' :
       \/ b \in Given(w) \/ b = Me(w)
       \/ pc[w] = "body" /\ b = body[tx[w].found]
       \/ pc[w] = "scan" /\ \E i \in 1 .. Len(tx[w].rset) : b = body[tx[w].rset[i].v]

\* The fields of a transaction that say what it was given.
SameGiven(w) ==
  tx'[w].itr = tx[w].itr /\ tx'[w].reads = tx[w].reads

\* An operation that reads no body.
LEMMA NothingGiven ==
  ASSUME NEW w \in Workers, SameGiven(w)
  PROVE  NewGiven(w)
BY DEF SameGiven, NewGiven, Given

\* A warning, and the end of an operation.
LEMMA GivenFails ==
  ASSUME TypeOK, NEW w \in Workers, OpFails(w) \/ tx' = [tx EXCEPT ![w].ip = @ + 1]
  PROVE  SameGiven(w)
<1>0. TxOK(tx[w])
  BY Typed
<1>1. CASE OpFails(w)
  <2>1. PICK t : t = [tx[w] EXCEPT !.failed = TRUE, !.todo = Inserted(tx[w].wset)]
    OBVIOUS
  <2>2. tx' = [tx EXCEPT ![w] = t]
    BY <1>1, <2>1 DEF OpFails
  <2>3. tx'[w] = t
    BY <2>2, Assign
  <2> QED
    BY <1>0, <2>1, <2>3 DEF TxOK, TxTypes, SameGiven
<1>2. CASE tx' = [tx EXCEPT ![w].ip = @ + 1]
  <2>1. PICK t : t = [tx[w] EXCEPT !.ip = @ + 1]
    OBVIOUS
  <2>2. tx' = [tx EXCEPT ![w] = t]
    BY <1>2, <2>1
  <2>3. tx'[w] = t
    BY <2>2, Assign
  <2> QED
    BY <1>0, <2>1, <2>3 DEF TxOK, TxTypes, SameGiven
<1> QED
  BY <1>1, <1>2

\* r was given the same as t.
AsGiven(t, r) == r.itr = t.itr /\ r.reads = t.reads

\* An entry of the write set, and with it one of the read set.
LEMMA GivenAdd ==
  ASSUME NEW t, TxOK(t), NEW k, NEW v, NEW op, NEW r, r = AddWrite(t, k, v, op)
  PROVE  AsGiven(t, r) /\ \A x : AsGiven(t, [r EXCEPT !.rset = x])
<1> DEFINE W == [j \in DOMAIN t.wset \cup {k} |-> IF j = k THEN [v |-> v, op |-> op] ELSE t.wset[j]]
<1>1. AddWrite(t, k, v, op) = [t EXCEPT !.wset = W, !.ip = t.ip + 1]
  BY DEF AddWrite
<1> HIDE DEF W
<1>2. r = [t EXCEPT !.wset = W, !.ip = t.ip + 1]
  BY <1>1
<1>3. AsGiven(t, r)
  BY <1>2 DEF TxOK, TxTypes, AsGiven
<1>4. DOMAIN r = DOMAIN t /\ {"itr", "reads", "rset"} \subseteq DOMAIN t
  BY <1>2 DEF TxOK, TxTypes
<1>5. ASSUME NEW x PROVE AsGiven(t, [r EXCEPT !.rset = x])
  BY <1>3, <1>4 DEF AsGiven
<1> QED
  BY <1>3, <1>5

\* insert, write and tx_delete.
LEMMA GivenWrite ==
  ASSUME TypeOK, NEW w \in Workers, Insert(w) \/ Write(w) \/ Delete(w)
  PROVE  SameGiven(w)
<1>0. TxOK(tx[w])
  BY Typed
<1>8. ASSUME NEW y, tx' = [tx EXCEPT ![w] = y], AsGiven(tx[w], y) PROVE SameGiven(w)
  <2>1. tx'[w] = y
    BY <1>8, Assign
  <2> QED
    BY <1>8, <2>1 DEF AsGiven, SameGiven
<1>1. PICK k : k = KeyOf(w)
  OBVIOUS
<1>2. PICK t : t = AddWrite(tx[w], k, <<k, w>>, "INSERT")
  OBVIOUS
<1>3. PICK s : s = AddWrite(tx[w], k, LookUp(w, k), "WRITE")
  OBVIOUS
<1>4. PICK d : d = AddWrite(tx[w], k, LookUp(w, k), "DELETE")
  OBVIOUS
<1>5. CASE Insert(w)
  <2>1. \/ OpFails(w)
        \/ tx' = [tx EXCEPT ![w] = [AddWrite(tx[w], k, <<k, w>>, "INSERT") EXCEPT
                    !.rset = Append(@, [op |-> "READ", key |-> k, v |-> <<k, w>>,
                                        tid |-> Tid(0, 0, TRUE, TRUE)])]]
    BY <1>1, <1>5 DEF Insert
  <2>2. CASE OpFails(w)
    BY <2>2, GivenFails
  <2>3. CASE ~OpFails(w)
    <3>1. PICK x : x = Append(t.rset, [op |-> "READ", key |-> k, v |-> <<k, w>>,
                                       tid |-> Tid(0, 0, TRUE, TRUE)])
      OBVIOUS
    <3>2. PICK y : y = [t EXCEPT !.rset = x]
      OBVIOUS
    <3>3. tx' = [tx EXCEPT ![w] = y]
      BY <1>2, <2>1, <2>3, <3>1, <3>2
    <3>4. AsGiven(tx[w], y)
      BY <1>0, <1>2, <3>2, GivenAdd
    <3> QED
      BY <3>3, <3>4, <1>8
  <2> QED
    BY <2>2, <2>3
<1>6. CASE Write(w)
  <2>1. OpFails(w) \/ tx' = [tx EXCEPT ![w].ip = @ + 1] \/ tx' = [tx EXCEPT ![w] = s]
    BY <1>1, <1>3, <1>6 DEF Write
  <2> QED
    BY <1>0, <1>3, <1>8, <2>1, GivenFails, GivenAdd
<1>7. CASE Delete(w)
  <2>1. OpFails(w) \/ tx' = [tx EXCEPT ![w].ip = @ + 1] \/ tx' = [tx EXCEPT ![w] = d]
    BY <1>1, <1>4, <1>7 DEF Delete
  <2> QED
    BY <1>0, <1>4, <1>8, <2>1, GivenFails, GivenAdd
<1> QED
  BY <1>5, <1>6, <1>7

\* What a client is given beside what it was given before.
LEMMA GivenReport ==
  ASSUME TypeOK, NEW w \in Workers, NEW k, NEW x, NEW y, TxOK(y),
         tx' = [tx EXCEPT ![w] = y], y.itr = tx[w].itr, y.reads = tx[w].reads \cup {<<k, x>>},
         \/ x \in Given(w) \/ x = Me(w)
         \/ pc[w] = "body" /\ x = body[tx[w].found]
         \/ pc[w] = "scan" /\ \E i \in 1 .. Len(tx[w].rset) : x = body[tx[w].rset[i].v]
  PROVE  NewGiven(w)
<1>1. tx'[w] = y
  BY Assign
<1>2. Given(w)' = {r[2] : r \in y.reads}
  BY <1>1 DEF Given
<1>3. \A b \in Given(w)' : b \in Given(w) \/ b = x
  BY <1>2 DEF Given
<1> QED
  BY <1>1, <1>3 DEF NewGiven

\* read itself takes no body from a record.
LEMMA GivenRead ==
  ASSUME TypeOK, Place, NEW w \in Workers, Read(w)
  PROVE  NewGiven(w)
<1>0. TxOK(tx[w])
  BY Typed
<1>1. PICK k \in Keys : k = KeyOf(w)
  BY DoingType DEF Read
<1>3. PICK y : y = Reread(tx[w], k)
  OBVIOUS
<1>4. \/ tx' = [tx EXCEPT ![w] = y]
      \/ tx' = [tx EXCEPT ![w].found = tree[k]]
      \/ OpFails(w)
  BY <1>1, <1>3 DEF Read, Reread
<1>5. CASE tx' = [tx EXCEPT ![w] = y]
  <2>1. tx'[w] = y
    BY <1>5, Typed, Assign
  <2>2. AsGiven(tx[w], y)
    BY <1>0, <1>3 DEF Reread, TxOK, TxTypes, AsGiven
  <2> QED
    BY <2>1, <2>2, NothingGiven DEF AsGiven, SameGiven
<1>6. CASE tx' = [tx EXCEPT ![w].found = tree[k]]
  <2>1. PICK y2 : y2 = [tx[w] EXCEPT !.found = tree[k]]
    OBVIOUS
  <2>2. tx' = [tx EXCEPT ![w] = y2]
    BY <1>6, <2>1
  <2>3. tx'[w] = y2
    BY <2>2, Assign
  <2>4. AsGiven(tx[w], y2)
    BY <1>0, <2>1 DEF TxOK, TxTypes, AsGiven
  <2> QED
    BY <2>3, <2>4, NothingGiven DEF AsGiven, SameGiven
<1>7. CASE OpFails(w)
  BY <1>7, GivenFails, NothingGiven
<1> QED
  BY <1>4, <1>5, <1>6, <1>7

\* read_internal reads no body.
LEMMA GivenInternal ==
  ASSUME TypeOK, Place, NEW w \in Workers, LoadTid(w) \/ Recheck(w)
  PROVE  SameGiven(w)
<1>0. TxOK(tx[w])
  BY Typed
<1>1. ASSUME NEW y, tx' = [tx EXCEPT ![w] = y], AsGiven(tx[w], y) PROVE SameGiven(w)
  <2>1. tx'[w] = y
    BY <1>1, Assign
  <2> QED
    BY <1>1, <2>1 DEF AsGiven, SameGiven
<1>2. ASSUME NEW x, tx' = [tx EXCEPT ![w].scan = x] PROVE SameGiven(w)
  <2>1. PICK y : y = [tx[w] EXCEPT !.scan = x]
    OBVIOUS
  <2>2. AsGiven(tx[w], y)
    BY <1>0, <2>1 DEF TxOK, TxTypes, AsGiven
  <2> QED
    BY <1>1, <1>2, <2>1, <2>2
<1>3. ASSUME NEW x, tx' = [tx EXCEPT ![w].expected = x] PROVE SameGiven(w)
  <2>1. PICK y : y = [tx[w] EXCEPT !.expected = x]
    OBVIOUS
  <2>2. AsGiven(tx[w], y)
    BY <1>0, <2>1 DEF TxOK, TxTypes, AsGiven
  <2> QED
    BY <1>1, <1>3, <2>1, <2>2
<1>4. ASSUME NEW x, tx' = [tx EXCEPT ![w].rset = x] PROVE SameGiven(w)
  <2>1. PICK y : y = [tx[w] EXCEPT !.rset = x]
    OBVIOUS
  <2>2. AsGiven(tx[w], y)
    BY <1>0, <2>1 DEF TxOK, TxTypes, AsGiven
  <2> QED
    BY <1>1, <1>4, <2>1, <2>2
<1>5. ASSUME NEW x, NEW z, tx' = [tx EXCEPT ![w].rset = x, ![w].scan = z] PROVE SameGiven(w)
  <2>1. PICK y : y = [tx[w] EXCEPT !.rset = x, !.scan = z]
    OBVIOUS
  <2>2. AsGiven(tx[w], y)
    BY <1>0, <2>1 DEF TxOK, TxTypes, AsGiven
  <2>3. tx' = [tx EXCEPT ![w] = y]
    BY <1>5, <2>1
  <2> QED
    BY <1>1, <2>2, <2>3
<1>6. ASSUME NEW tid, Expect(w, tid) PROVE SameGiven(w)
  <2>1. \/ OpFails(w) \/ (\E x : tx' = [tx EXCEPT ![w].scan = x])
        \/ (\E x : tx' = [tx EXCEPT ![w].expected = x])
    BY <1>6 DEF Expect
  <2> QED
    BY <1>2, <1>3, <2>1, GivenFails
<1>7. \/ (\E tid : Expect(w, tid)) \/ tx' = tx \/ (\E x : tx' = [tx EXCEPT ![w].rset = x])
      \/ (\E x, z : tx' = [tx EXCEPT ![w].rset = x, ![w].scan = z])
  BY DEF LoadTid, Recheck
<1>8. CASE tx' = tx
  BY <1>8 DEF SameGiven
<1> QED
  BY <1>4, <1>5, <1>6, <1>7, <1>8

\* read takes the body of the record it has found.
LEMMA GivenBody ==
  ASSUME TypeOK, Place, NEW w \in Workers, ReadBody(w)
  PROVE  NewGiven(w)
<1>0. TxOK(tx[w]) /\ pc[w] = "body" /\ PlaceOf(w)
  BY Typed DEF ReadBody, Place
<1>1. PICK k \in Keys : k = KeyOf(w)
  BY <1>0, KeyType DEF PlaceOf
<1>2. PICK x \in Bodies : x = body[tx[w].found]
  BY <1>0, Typed DEF PlaceOf
<1>3. PICK y : y = Report(tx[w], k, x)
  OBVIOUS
<1>4. tx' = [tx EXCEPT ![w] = y]
  BY <1>1, <1>2, <1>3 DEF ReadBody
<1>5. TxOK(y)
  BY <1>0, <1>3, ReportView
<1>6. y.itr = tx[w].itr /\ y.reads = tx[w].reads \cup {<<k, x>>}
  BY <1>0, <1>3 DEF Report, TxOK, TxTypes
<1> QED
  BY <1>0, <1>2, <1>4, <1>5, <1>6, GivenReport

\* A scan takes the bodies of records of the read set, or the transaction's own.
LEMMA GivenScanned ==
  ASSUME TypeOK, NEW w \in Workers, pc[w] = "scan", NEW k \in Keys, NEW x \in Bodies,
         x = Me(w) \/ \E i \in 1 .. Len(tx[w].rset) : x = body[tx[w].rset[i].v],
         \/ \E q \in Seq(Keys \X Values) :
              tx' = [tx EXCEPT ![w].scan = q, ![w].reads = @ \cup {<<k, x>>}]
         \/ \E n \in Nat : tx' = [tx EXCEPT ![w].bodies = n, ![w].reads = @ \cup {<<k, x>>}]
  PROVE  NewGiven(w)
<1>0. TxOK(tx[w]) /\ tx[w].reads \in Reports
  BY Typed, TxFields
<1>1. PICK R : R = tx[w].reads \cup {<<k, x>>}
  OBVIOUS
<1>2. <<k, x>> \in Keys \X Bodies
  OBVIOUS
<1>3. R \in Reports
  BY <1>0, <1>1, <1>2 DEF Reports
<1>4. \E y : /\ TxOK(y) /\ tx' = [tx EXCEPT ![w] = y] /\ y.itr = tx[w].itr /\ y.reads = R
  <2>1. ASSUME NEW q \in Seq(Keys \X Values),
               tx' = [tx EXCEPT ![w].scan = q, ![w].reads = @ \cup {<<k, x>>}]
        PROVE  \E y : /\ TxOK(y) /\ tx' = [tx EXCEPT ![w] = y] /\ y.itr = tx[w].itr /\ y.reads = R
    <3>1. PICK y : y = [tx[w] EXCEPT !.scan = q, !.reads = R]
      OBVIOUS
    <3>2. TxOK(y)
      BY <1>0, <1>3, <3>1 DEF TxOK, TxTypes
    <3>3. y.itr = tx[w].itr /\ y.reads = R
      BY <1>0, <3>1 DEF TxOK, TxTypes
    <3>4. tx' = [tx EXCEPT ![w] = y]
      BY <1>1, <2>1, <3>1
    <3> QED
      BY <3>2, <3>3, <3>4
  <2>2. ASSUME NEW n \in Nat,
               tx' = [tx EXCEPT ![w].bodies = n, ![w].reads = @ \cup {<<k, x>>}]
        PROVE  \E y : /\ TxOK(y) /\ tx' = [tx EXCEPT ![w] = y] /\ y.itr = tx[w].itr /\ y.reads = R
    <3>1. PICK y : y = [tx[w] EXCEPT !.bodies = n, !.reads = R]
      OBVIOUS
    <3>2. TxOK(y)
      BY <1>0, <1>3, <3>1 DEF TxOK, TxTypes
    <3>3. y.itr = tx[w].itr /\ y.reads = R
      BY <1>0, <3>1 DEF TxOK, TxTypes
    <3>4. tx' = [tx EXCEPT ![w] = y]
      BY <1>1, <2>2, <3>1
    <3> QED
      BY <3>2, <3>3, <3>4
  <2> QED
    BY <2>1, <2>2
<1>5. PICK y : /\ TxOK(y) /\ tx' = [tx EXCEPT ![w] = y] /\ y.itr = tx[w].itr /\ y.reads = R
  BY <1>4
<1>6. y.reads = tx[w].reads \cup {<<k, x>>}
  BY <1>1, <1>5
<1>7. CASE x = Me(w)
  BY <1>5, <1>6, <1>7, GivenReport, Zenon
<1>8. CASE \E i \in 1 .. Len(tx[w].rset) : x = body[tx[w].rset[i].v]
  BY <1>5, <1>6, <1>8, GivenReport, Zenon
<1> QED
  BY <1>7, <1>8

\* scan and what it reads.
LEMMA GivenScan ==
  ASSUME TypeOK, Place, NEW w \in Workers, Scan(w) \/ ScanRecord(w) \/ ScanBodies(w)
  PROVE  NewGiven(w)
<1>0. /\ TxOK(tx[w]) /\ tx[w].scan \in Seq(Keys \X Values) /\ tx[w].rset \in Seq(ReadEntries)
      /\ tx[w].bodies \in Nat /\ body \in [Values -> Bodies] /\ done[w] \in Nat
  BY Typed, TxFields
<1>1. ASSUME NEW y, tx' = [tx EXCEPT ![w] = y], AsGiven(tx[w], y) PROVE NewGiven(w)
  <2>1. tx'[w] = y
    BY <1>1, Assign
  <2> QED
    BY <1>1, <2>1, NothingGiven DEF AsGiven, SameGiven
<1>2. CASE Scan(w)
  <2>1. PICK q, n : tx' = [tx EXCEPT ![w].scan = q, ![w].bodies = n]
    BY <1>2 DEF Scan
  <2>2. PICK y : y = [tx[w] EXCEPT !.scan = q, !.bodies = n]
    OBVIOUS
  <2>3. AsGiven(tx[w], y)
    BY <1>0, <2>2 DEF TxOK, TxTypes, AsGiven
  <2>4. tx' = [tx EXCEPT ![w] = y]
    BY <2>1, <2>2
  <2> QED
    BY <1>1, <2>3, <2>4
<1>3. CASE ScanRecord(w)
  <2>1. pc[w] = "scan" /\ tx[w].scan # <<>>
    BY <1>3 DEF ScanRecord
  <2>2. Head(tx[w].scan) \in Keys \X Values /\ Tail(tx[w].scan) \in Seq(Keys \X Values)
    BY <1>0, <2>1, HeadTailProperties
  <2>3. PICK k \in Keys : k = Head(tx[w].scan)[1]
    BY <2>2
  <2>4. PICK q \in Seq(Keys \X Values) : q = Tail(tx[w].scan)
    BY <2>2
  <2>5. CASE ReadsOf(w, k) # {}
    <3>1. PICK i : i = Least(ReadsOf(w, k))
      OBVIOUS
    <3>2. i \in 1 .. Len(tx[w].rset)
      <4>1. ReadsOf(w, k) \in SUBSET Nat /\ ReadsOf(w, k) \subseteq 1 .. Len(tx[w].rset)
        BY <1>0 DEF ReadsOf
      <4> QED
        BY <2>5, <3>1, <4>1, LeastExists DEF Least
    <3>3. tx[w].rset[i] \in ReadEntries
      BY <1>0, <3>2
    <3>4. PICK x \in Bodies : x = body[tx[w].rset[i].v]
      BY <1>0, <3>3 DEF ReadEntries
    <3>5. LookUp(w, k) = tx[w].rset[i].v
      BY <2>5, <3>1 DEF LookUp
    <3>6. tx' = [tx EXCEPT ![w].scan = q, ![w].reads = @ \cup {<<k, x>>}]
      BY <1>3, <2>3, <2>4, <2>5, <3>4, <3>5, Zenon DEF ScanRecord
    <3> QED
      BY <2>1, <3>2, <3>4, <3>6, GivenScanned
  <2>6. CASE ReadsOf(w, k) = {} /\ InWriteSet(w, k)
    <3>0. done[w] + 1 \in Nat
      BY <1>0
    <3>1. PICK x \in Bodies : x = Me(w)
      BY <3>0, Zenon DEF Me, Bodies
    <3>2. tx' = [tx EXCEPT ![w].scan = q, ![w].reads = @ \cup {<<k, x>>}]
      BY <1>3, <2>3, <2>4, <2>6, <3>1, Zenon DEF ScanRecord
    <3> QED
      BY <2>1, <3>1, <3>2, GivenScanned
  <2>7. CASE ReadsOf(w, k) = {} /\ ~InWriteSet(w, k)
    <3>1. PICK v : v = Head(tx[w].scan)[2]
      OBVIOUS
    <3>2. PICK y : y = [tx[w] EXCEPT !.found = v]
      BY Zenon
    <3>3. tx' = [tx EXCEPT ![w] = y]
      BY <1>3, <2>3, <2>7, <3>1, <3>2, Zenon DEF ScanRecord
    <3>4. AsGiven(tx[w], y)
      BY <1>0, <3>2 DEF TxOK, TxTypes, AsGiven
    <3> QED
      BY <1>1, <3>3, <3>4, Zenon
  <2> QED
    BY <2>5, <2>6, <2>7
<1>4. CASE ScanBodies(w)
  <2>1. CASE tx[w].bodies < Len(tx[w].rset)
    <3>1. PICK i \in 1 .. Len(tx[w].rset) : i = tx[w].bodies + 1
      BY <1>0, <2>1
    <3>2. tx[w].rset[i] \in ReadEntries /\ i \in Nat
      BY <1>0
    <3>3. PICK k \in Keys : k = tx[w].rset[i].key
      BY <3>2 DEF ReadEntries
    <3>4. PICK x \in Bodies : x = body[tx[w].rset[i].v]
      BY <1>0, <3>2 DEF ReadEntries
    <3>5. pc[w] = "scan" /\ tx' = [tx EXCEPT ![w].bodies = i, ![w].reads = @ \cup {<<k, x>>}]
      BY <1>4, <2>1, <3>1, <3>3, <3>4, Zenon DEF ScanBodies
    <3> QED
      BY <3>2, <3>4, <3>5, GivenScanned
  <2>2. CASE ~(tx[w].bodies < Len(tx[w].rset))
    <3>1. tx' = [tx EXCEPT ![w].ip = @ + 1]
      BY <1>4, <2>2 DEF ScanBodies
    <3> QED
      BY <3>1, GivenFails, NothingGiven
  <2> QED
    BY <2>1, <2>2
<1> QED
  BY <1>2, <1>3, <1>4

\* Every step of an operation.
LEMMA GivenOperation ==
  ASSUME TypeOK, Place, NEW w \in Workers, OperationStep(w)
  PROVE  NewGiven(w)
BY GivenWrite, GivenRead, GivenInternal, GivenBody, GivenScan, NothingGiven DEF OperationStep

\* lockWriteSet and validationPhase give nothing; a read that passes is counted.
LEMMA GivenPhase ==
  ASSUME TypeOK, Place, NEW w \in Workers, WorkerInv(w), PhaseStep(w), pc'[w] \in {"lock", "validate"}
  PROVE  /\ tx'[w].reads = tx[w].reads
         /\ \/ tx'[w].itr = tx[w].itr /\ tx'[w].maxR = tx[w].maxR
               /\ (StartValidation(w) \/ LockOne(w) \/ TakeEpoch(w))
            \/ /\ ValidateOne(w) /\ tx[w].itr \in 1 .. Len(tx[w].rset)
               /\ ~Rejected(w, tx[w].rset[tx[w].itr], tidword[tx[w].rset[tx[w].itr].v])
               /\ tx'[w].itr = tx[w].itr + 1
<1>0. TxOK(tx[w]) /\ LoopOf(w)
  BY Typed DEF WorkerInv
<1>1. CASE StartValidation(w)
  <2>1. PICK S : S = Lockable(tx[w].wset)
    OBVIOUS
  <2>2. PICK y : y = [tx[w] EXCEPT !.todo = S]
    OBVIOUS
  <2>3. tx' = [tx EXCEPT ![w] = y]
    BY <1>1, <2>1, <2>2 DEF StartValidation
  <2>4. tx'[w] = y
    BY <2>3, Assign
  <2> QED
    BY <1>0, <1>1, <2>2, <2>4 DEF TxOK, TxTypes
<1>2. CASE LockOne(w)
  <2>1. PICK k : k = Least(tx[w].todo)
    OBVIOUS
  <2>2. PICK v : v = tx[w].wset[k].v
    OBVIOUS
  <2>3. ~tidword[v].lock
    <3>1. pc[w] = "lock" /\ tx[w].todo # {}
      BY <1>2, Zenon DEF LockOne
    <3>2. tidword[tx[w].wset[Least(tx[w].todo)].v].lock = FALSE
      BY <3>1, LockIsFree
    <3> QED
      BY <2>1, <2>2, <3>2
  <2>4. tx' = [tx EXCEPT ![w].todo = @ \ {k}, ![w].maxW = MaxTid(@, tidword[v])]
    BY <1>2, <2>1, <2>2, <2>3, Zenon DEF LockOne
  <2>5. PICK S, m : S = tx[w].todo \ {k} /\ m = MaxTid(tx[w].maxW, tidword[v])
    OBVIOUS
  <2>6. PICK y : y = [tx[w] EXCEPT !.todo = S, !.maxW = m]
    OBVIOUS
  <2>7. tx' = [tx EXCEPT ![w] = y]
    BY <2>4, <2>5, <2>6
  <2>8. tx'[w] = y
    BY <2>7, Assign
  <2> QED
    BY <1>0, <1>2, <2>6, <2>8 DEF TxOK, TxTypes
<1>3. CASE TakeEpoch(w)
  BY <1>3, TakeEpochView
<1>4. CASE ValidateOne(w)
  <2>1. PICK r : r = tx[w].rset[tx[w].itr]
    OBVIOUS
  <2>2. ~Rejected(w, r, tidword[r.v])
    BY <1>4, <2>1, RejectView
  <2>3. tx[w].itr \in 1 .. Len(tx[w].rset)
    BY <1>4, <2>1, <2>2, AcceptView
  <2>4. tx' = [tx EXCEPT ![w].itr = @ + 1, ![w].maxR = MaxTid(@, tidword[r.v])]
    BY <1>4, <2>1, <2>2 DEF ValidateOne
  <2>5. PICK n, m : n = tx[w].itr + 1 /\ m = MaxTid(tx[w].maxR, tidword[r.v])
    OBVIOUS
  <2>6. PICK y : y = [tx[w] EXCEPT !.itr = n, !.maxR = m]
    OBVIOUS
  <2>7. tx' = [tx EXCEPT ![w] = y]
    BY <2>4, <2>5, <2>6
  <2>8. tx'[w] = y
    BY <2>7, Assign
  <2>9. y.reads = tx[w].reads /\ y.itr = n
    BY <1>0, <2>6 DEF TxOK, TxTypes
  <2> QED
    BY <1>4, <2>1, <2>2, <2>3, <2>5, <2>8, <2>9
<1>5. CASE Unlocked(w)
  <2>1. pc'[w] = "abort"
    BY <1>0, <1>5, UnlockedView DEF LoopOf
  <2> QED
    BY <2>1
<1>6. CASE UnlockLoad(w) \/ UnlockStore(w) \/ Commit(w)
  BY <1>6, UnlockLoadView, UnlockStoreView, CommitView
<1>7. CASE WriteBody(w) \/ StoreTid(w) \/ RemoveInserted(w)
  BY <1>7, WriteBodyView, StoreTidView, RemoveInsertedView
<1> QED
  BY <1>1, <1>2, <1>3, <1>4, <1>5, <1>6, <1>7 DEF PhaseStep

-----------------------------------------------------------------------------
(* The records that are looked at                                          *)

\* A record that is in the tree or locked stays so: what leaves the tree is an inserted
\* record, which abort does not unlock.
LEMMA SightedStays ==
  ASSUME Base, NEW w \in Workers, WorkerStep(w), NEW v \in Values, Sighted(v)
  PROVE  Sighted(v)'
<1>0. /\ v[1] \in Keys /\ v # NULL /\ tree \in [Keys -> Values \cup {NULL}]
      /\ tidword \in [Values -> Tids]
  BY BaseParts
<1>1. Effect(w)
  BY BaseParts, EffectStep
<1>2. CASE Quiet(w)
  BY <1>2 DEF Quiet, Sighted
<1>3. ASSUME NEW k \in Keys, Inserting(w, k) PROVE Sighted(v)'
  <2>1. /\ tree[k] = NULL /\ tree' = [tree EXCEPT ![k] = <<k, w>>]
        /\ tidword' = [tidword EXCEPT ![<<k, w>>] = Tid(0, 0, TRUE, TRUE)]
    BY <1>3 DEF Inserting
  <2>2. CASE v = <<k, w>>
    <3>1. v[1] = k
      BY <2>2
    <3> QED
      BY <1>0, <2>1, <2>2, <3>1 DEF Sighted
  <2>3. CASE v # <<k, w>>
    <3>1. tidword'[v] = tidword[v]
      BY <1>0, <2>1, <2>3
    <3>2. tree[v[1]] = v => tree'[v[1]] = v
      BY <1>0, <2>1
    <3> QED
      BY <3>1, <3>2 DEF Sighted
  <2> QED
    BY <2>2, <2>3
<1>4. ASSUME NEW k \in Keys, NEW m \in Tids, Relocking(w, k, m) PROVE Sighted(v)'
  <2>1. CASE v = tx[w].wset[k].v
    <3>1. v[1] = k
      BY <2>1, <1>4, BaseParts, OwnEntries DEF WorkerInv, Relocking
    <3> QED
      BY <1>4, <2>1, <3>1 DEF Relocking, Sighted
  <2>2. CASE v # tx[w].wset[k].v
    BY <1>0, <1>4, <2>2 DEF Relocking, Sighted
  <2> QED
    BY <2>1, <2>2
<1>5. ASSUME NEW k \in Keys, Tearing(w, k) PROVE Sighted(v)'
  BY <1>5, Zenon DEF Tearing, Sighted
<1>6. ASSUME NEW k \in Keys, NEW m \in Tids, Storing(w, k, m) PROVE Sighted(v)'
  <2>1. CASE v = tx[w].wset[k].v
    <3>1. k \in DOMAIN tx[w].wset
      BY <1>6 DEF Storing
    <3>2. TypeOK /\ OwnOf(w)
      BY BaseParts DEF WorkerInv
    <3>3. v[1] = k
      BY <2>1, <3>1, <3>2, OwnEntries
    <3>4. tree' = tree /\ tree[k] = v
      BY <1>6, <2>1, Zenon DEF Storing
    <3> QED
      BY <3>3, <3>4 DEF Sighted
  <2>2. CASE v # tx[w].wset[k].v
    BY <1>0, <1>6, <2>2 DEF Storing, Sighted
  <2> QED
    BY <2>1, <2>2
<1>7. ASSUME NEW k \in Keys, Removing(w, k) PROVE Sighted(v)'
  <2>1. k \in Fresh(w) /\ tree' = [tree EXCEPT ![k] = NULL] /\ tidword' = tidword
    BY <1>7 DEF Removing
  <2>2. tree[k] = tx[w].wset[k].v /\ tidword[tx[w].wset[k].v].lock = TRUE
    BY <2>1, BaseParts, FreshIs
  <2>3. CASE tree[v[1]] = v /\ v[1] = k
    BY <2>1, <2>2, <2>3 DEF Sighted
  <2>4. CASE tree[v[1]] = v /\ v[1] # k
    BY <1>0, <2>1, <2>4 DEF Sighted
  <2>5. CASE tidword[v].lock = TRUE
    BY <2>1, <2>5 DEF Sighted
  <2> QED
    BY <2>3, <2>4, <2>5 DEF Sighted
<1> QED
  BY <1>1, <1>2, <1>3, <1>4, <1>5, <1>6, <1>7 DEF Effect

\* read_internal expects a word that was not locked.
LEMMA ExpectsUnlocked ==
  ASSUME TypeOK, Place, NEW w \in Workers, OperationStep(w), Expects(w)
  PROVE  tidword[tx[w].found].lock = FALSE
<1>1. pc[w] \in {"load", "recheck"} /\ pc'[w] = "recheck"
  BY DEF Expects
<1>2. LoadTid(w) \/ Recheck(w)
  BY <1>1, Zenon DEF OperationStep, Insert, Write, Delete, Read, ReadBody, Scan, ScanRecord, ScanBodies, Doing
<1>3. tidword[tx[w].found].lock \in BOOLEAN
  BY <1>1, Typed DEF Place, PlaceOf, Tids
<1>4. CASE LoadTid(w)
  BY <1>3, <1>4 DEF LoadTid
<1>5. CASE Recheck(w)
  <2>1. \/ Goto(w, "body") \/ Goto(w, "scan") \/ Goto(w, "load")
        \/ ~tidword[tx[w].found].lock
    BY <1>5 DEF Recheck
  <2> QED
    BY <1>1, <1>3, <2>1, GotoIs
<1> QED
  BY <1>2, <1>4, <1>5, Zenon

\* A step of another worker.
LEMMA SightsOther ==
  ASSUME Base, NEW w \in Workers, WorkerStep(w), NEW u \in Workers, u # w, SightsOf(u)
  PROVE  SightsOf(u)'
<1>0. TypeOK /\ Place
  BY BaseParts
<1>1. tx'[u] = tx[u] /\ pc'[u] = pc[u] /\ done'[u] = done[u] /\ load' = load
  BY <1>0, FreshOthers, FrameStep DEF Frame
<1>2. KeyOf(u)' = KeyOf(u)
  BY <1>1 DEF KeyOf, Program
<1>3. tx[u].scan \in Seq(Keys \X Values)
  BY <1>0, Typed, TxFields
<1>4. ASSUME NEW i \in 1 .. Len(tx[u].scan)
      PROVE  tx'[u].scan[i][2][1] = tx'[u].scan[i][1] /\ Sighted(tx[u].scan[i][2])'
  <2>1. PICK v \in Values : v = tx[u].scan[i][2]
    BY <1>3
  <2>2. Sighted(v) /\ v[1] = tx[u].scan[i][1]
    BY <2>1 DEF SightsOf
  <2>3. Sighted(v)'
    BY <2>2, SightedStays
  <2> QED
    BY <1>1, <2>1, <2>2, <2>3
<1>5. pc[u] \in {"load", "recheck"} => Sighted(tx[u].found)'
  <2>1. HAVE pc[u] \in {"load", "recheck"}
  <2>2. PICK v \in Values : v = tx[u].found
    BY <1>0, <2>1 DEF Place, PlaceOf
  <2>3. Sighted(v)
    BY <2>1, <2>2 DEF SightsOf
  <2>4. Sighted(v)'
    BY <2>3, SightedStays
  <2> QED
    BY <1>1, <2>2, <2>4
<1> QED
  BY <1>1, <1>2, <1>4, <1>5 DEF SightsOf

\* The list that scan goes through, as it gets shorter.
ScanSighted(w) ==
  \A i \in 1 .. Len(tx[w].scan) :
    tx[w].scan[i][2][1] = tx[w].scan[i][1] /\ Sighted(tx[w].scan[i][2])

\* The records of the list stay where scan may still look at them.
LEMMA ScanSightedStays ==
  ASSUME Base, NEW w \in Workers, WorkerStep(w), ScanSighted(w),
         \/ tx'[w].scan = tx[w].scan \/ tx'[w].scan = <<>>
         \/ tx[w].scan # <<>> /\ tx'[w].scan = Tail(tx[w].scan)
  PROVE  ScanSighted(w)'
<1>1. tx[w].scan \in Seq(Keys \X Values)
  BY BaseParts, Typed, TxFields
<1>2. ASSUME NEW i \in 1 .. Len(tx[w].scan)
      PROVE  /\ tx[w].scan[i][2][1] = tx[w].scan[i][1]
             /\ \E v \in Values : v = tx[w].scan[i][2] /\ Sighted(v)'
  <2>1. PICK v \in Values : v = tx[w].scan[i][2]
    BY <1>1
  <2>2. Sighted(v) /\ v[1] = tx[w].scan[i][1]
    BY <2>1 DEF ScanSighted
  <2> QED
    BY <2>1, <2>2, SightedStays
<1>3. \A i \in 1 .. Len(tx'[w].scan) : \E j \in 1 .. Len(tx[w].scan) : tx'[w].scan[i] = tx[w].scan[j]
  <2>1. CASE tx'[w].scan = tx[w].scan \/ tx'[w].scan = <<>>
    BY <2>1
  <2>2. CASE tx[w].scan # <<>> /\ tx'[w].scan = Tail(tx[w].scan)
    <3>1. \A i \in 1 .. Len(Tail(tx[w].scan)) :
            i + 1 \in 1 .. Len(tx[w].scan) /\ Tail(tx[w].scan)[i] = tx[w].scan[i + 1]
      BY <1>1, <2>2, TailEach
    <3> QED
      BY <2>2, <3>1
  <2> QED
    BY <2>1, <2>2
<1>4. ASSUME NEW i \in 1 .. Len(tx'[w].scan)
      PROVE  tx'[w].scan[i][2][1] = tx'[w].scan[i][1] /\ Sighted(tx[w].scan[i][2])'
  <2>1. PICK j \in 1 .. Len(tx[w].scan) : tx'[w].scan[i] = tx[w].scan[j]
    BY <1>3
  <2>2. PICK v \in Values : v = tx[w].scan[j][2] /\ Sighted(v)'
    BY <1>2
  <2> QED
    BY <1>2, <2>1, <2>2
<1> QED
  BY <1>4 DEF ScanSighted

\* The worker's own step.
LEMMA SightsOwn ==
  ASSUME Base, NEW w \in Workers, WorkerStep(w), SightsOf(w)
  PROVE  SightsOf(w)'
<1>0. /\ TypeOK /\ Place /\ TreeKeys /\ WorkerInv(w) /\ OwnOf(w) /\ ScanSighted(w)
      /\ tree \in [Keys -> Values \cup {NULL}] /\ NULL \notin Values
  BY BaseParts DEF WorkerInv, SightsOf, ScanSighted
<1>1. ASSUME ScanSighted(w)', pc'[w] \notin {"load", "recheck"} PROVE SightsOf(w)'
  BY <1>1 DEF SightsOf, ScanSighted
<1>2. CASE PhaseStep(w)
  <2>1. tx'[w].scan = tx[w].scan /\ pc'[w] \notin {"load", "recheck"}
    BY <1>0, <1>2, PhaseView
  <2> QED
    BY <1>0, <1>1, <2>1, ScanSightedStays
<1>3. CASE Begin(w) \/ WriteDone(w) \/ AbortDone(w)
  <2>1. tx'[w].scan = <<>> /\ pc'[w] \notin {"load", "recheck"}
    BY <1>0, <1>3, NewTxView DEF NewTx
  <2> QED
    BY <1>0, <1>1, <2>1, ScanSightedStays
<1>4. CASE OperationStep(w)
  <2>0. OperationView(w)
    BY <1>0, <1>4, OperationViews
  <2>1. /\ load' = load /\ done' = done /\ TxOK(tx'[w])
    BY <2>0, Zenon DEF OperationView
  <2>2. CASE Fails(w) \/ Steps(w) \/ Collects(w) \/ Adds(w) \/ Inserts(w)
    <3>1. tx'[w].scan = tx[w].scan /\ pc'[w] \notin {"load", "recheck"}
      BY <2>2 DEF Fails, Steps, Collects, Adds, Inserts, Added, SamePlace
    <3> QED
      BY <1>0, <1>1, <3>1, ScanSightedStays
  <2>3. CASE Passes(w) \/ Enters(w)
    <3>1. /\ tx'[w].scan = <<>> \/ (tx[w].scan # <<>> /\ tx'[w].scan = Tail(tx[w].scan))
          /\ pc'[w] \notin {"load", "recheck"}
      BY <2>3 DEF Passes, Enters
    <3> QED
      BY <1>0, <1>1, <3>1, ScanSightedStays
  <2>4. CASE Scans(w)
    <3>1. /\ pc'[w] = "scan" /\ tree' = tree /\ tidword' = tidword
          /\ tx'[w].scan \in Seq(Keys \X Values)
          /\ \A i \in 1 .. Len(tx'[w].scan) :
               tx'[w].scan[i][1] \in Keys /\ tx'[w].scan[i][2] = tree[tx'[w].scan[i][1]]
      BY <2>1, <2>4, TxFields DEF Scans, store
    <3>2. ASSUME NEW i \in 1 .. Len(tx'[w].scan)
          PROVE  tx'[w].scan[i][2][1] = tx'[w].scan[i][1] /\ Sighted(tx[w].scan[i][2])'
      <4>1. PICK v \in Values, k \in Keys : v = tx'[w].scan[i][2] /\ k = tx'[w].scan[i][1]
        BY <3>1
      <4>2. v = tree[k] /\ v # NULL
        BY <1>0, <3>1, <4>1
      <4>3. v[1] = k
        BY <1>0, <4>2 DEF TreeKeys
      <4> QED
        BY <3>1, <4>1, <4>2, <4>3 DEF Sighted
    <3>3. ScanSighted(w)'
      BY <3>2 DEF ScanSighted
    <3> QED
      BY <1>1, <3>1, <3>3
  <2>5. CASE Finds(w)
    <3>1. /\ pc'[w] = "load" /\ tx'[w].scan = tx[w].scan /\ tx'[w].ip = tx[w].ip
          /\ tx'[w].found \in Values /\ tree' = tree /\ tidword' = tidword
      BY <2>5 DEF Finds, store
    <3>2. ScanSighted(w)'
      BY <1>0, <3>1, ScanSightedStays
    <3>3. KeyOf(w)' = KeyOf(w)
      BY <2>1, <3>1 DEF KeyOf, Program
    <3>4. PICK v \in Values : v = tx'[w].found
      BY <3>1
    <3>5. CASE pc[w] = "op" /\ tx[w].ip <= Len(Program(w)) /\ v = tree[KeyOf(w)]
      <4>1. KeyOf(w) \in Keys
        BY <1>0, <3>5, KeyType DEF Place, PlaceOf
      <4>2. v[1] = KeyOf(w)
        BY <1>0, <3>5, <4>1 DEF TreeKeys
      <4>3. Sighted(v)
        BY <3>5, <4>2 DEF Sighted
      <4> QED
        BY <3>1, <3>2, <3>3, <3>4, <4>2, <4>3 DEF SightsOf, ScanSighted, Sighted
    <3>6. CASE pc[w] = "scan" /\ tx[w].scan # <<>> /\ v = Head(tx[w].scan)[2]
      <4>1. 1 \in 1 .. Len(tx[w].scan) /\ Head(tx[w].scan) = tx[w].scan[1]
        BY <1>0, <3>6, Typed, TxFields, TailEach
      <4>2. Sighted(v)
        BY <1>0, <3>6, <4>1 DEF ScanSighted
      <4> QED
        BY <3>1, <3>2, <3>4, <3>6, <4>2, Zenon DEF SightsOf, ScanSighted, Sighted
    <3> QED
      BY <2>5, <3>4, <3>5, <3>6 DEF Finds
  <2>6. CASE Expects(w) \/ Reloads(w)
    <3>1. /\ pc[w] \in {"load", "recheck"} /\ pc'[w] \in {"load", "recheck"}
          /\ tx'[w].scan = tx[w].scan /\ tx'[w].ip = tx[w].ip /\ tx'[w].found = tx[w].found
          /\ tree' = tree /\ tidword' = tidword
      BY <2>6 DEF Expects, Reloads, SamePlace, store
    <3>2. ScanSighted(w)'
      BY <1>0, <3>1, ScanSightedStays
    <3>3. KeyOf(w)' = KeyOf(w)
      BY <2>1, <3>1 DEF KeyOf, Program
    <3>4. pc'[w] = "recheck" => tx'[w].expected.lock = FALSE
      <4>1. HAVE pc'[w] = "recheck"
      <4>2. Expects(w)
        BY <2>6, <4>1 DEF Reloads
      <4> QED
        BY <1>0, <1>4, <4>2, ExpectsUnlocked DEF Expects
    <3>5. Sighted(tx[w].found)'
      BY <3>1 DEF SightsOf, Sighted
    <3> QED
      BY <3>1, <3>2, <3>3, <3>4, <3>5 DEF SightsOf, ScanSighted
  <2> QED
    BY <2>0, <2>2, <2>3, <2>4, <2>5, <2>6 DEF OperationView
<1> QED
  BY <1>2, <1>3, <1>4 DEF WorkerStep, OperationStep, PhaseStep

-----------------------------------------------------------------------------
(* The read set                                                            *)

\* A transaction keeps what it has inserted while its operations run.
LEMMA FreshOperating ==
  ASSUME TypeOK, Place, NEW w \in Workers, OperationStep(w), pc'[w] \in Operating
  PROVE  /\ pc[w] \in Operating /\ Fresh(w) \subseteq Fresh(w)'
         /\ \A k \in Fresh(w) : tx'[w].wset[k] = tx[w].wset[k]
<1>0. OperationView(w)
  BY OperationViews
<1>1. /\ pc[w] \in Operating /\ DOMAIN tx[w].wset \subseteq DOMAIN tx'[w].wset
      /\ \A k \in DOMAIN tx[w].wset : tx'[w].wset[k] = tx[w].wset[k]
  <2>1. CASE Fails(w) \/ Steps(w) \/ Finds(w) \/ Expects(w) \/ Reloads(w) \/ Passes(w) \/ Scans(w)
             \/ Collects(w)
    BY <2>1 DEF Fails, Steps, Finds, Expects, Reloads, Passes, Scans, Collects, SameSets, Operating
  <2>2. CASE Enters(w)
    BY <2>2, Zenon DEF Enters, Operating
  <2>3. CASE Adds(w) \/ Inserts(w)
    BY <2>3 DEF Adds, Inserts, Added, Operating
  <2> QED
    BY <1>0, <2>1, <2>2, <2>3 DEF OperationView
<1>2. Fresh(w) = Inserted(tx[w].wset) /\ Fresh(w)' = Inserted(tx'[w].wset)
  BY <1>1 DEF Fresh, Kept, Operating
<1> QED
  BY <1>1, <1>2 DEF Inserted

\* An entry of the read set stays what it is.
LEMMA EntryStays ==
  ASSUME Base, NEW w \in Workers, WorkerStep(w), NEW u \in Workers, NEW r \in ReadEntries,
         Entry(u, r), u = w /\ pc'[w] \in Operating => OperationStep(w)
  PROVE  Entry(u, r)'
<1>0. TypeOK /\ Place /\ r.v \in Values /\ r.tid \in Tids
  BY BaseParts DEF ReadEntries
<1>1. r.v[1] = r.key
  BY DEF Entry
<1>2. ASSUME Seen(r) PROVE Settled(r.v)' /\ ~Newer(r.tid, tidword'[r.v])
  <2>1. Settled(r.v) /\ ~Newer(r.tid, tidword[r.v])
    BY <1>2 DEF Entry
  <2>2. PICK v \in Values : v = r.v
    BY <1>0
  <2>3. Settled(v)' /\ ~Newer(tidword[v], tidword'[v]) /\ tidword[v] \in Tids /\ tidword'[v] \in Tids
    BY <2>1, <2>2, SettledStays, SettledGrows
  <2> QED
    BY <1>0, <2>1, <2>2, <2>3, NewerTransitive
<1>3. ASSUME ~Seen(r), pc'[u] \in Operating
      PROVE  r.key \in Fresh(u)' /\ tx'[u].wset[r.key].v = r.v
  <2>1. CASE u = w
    <3>1. OperationStep(w)
      BY <1>3, <2>1
    <3>2. /\ pc[w] \in Operating /\ Fresh(w) \subseteq Fresh(w)'
          /\ \A k \in Fresh(w) : tx'[w].wset[k] = tx[w].wset[k]
      BY <1>0, <1>3, <2>1, <3>1, FreshOperating
    <3> QED
      BY <1>3, <2>1, <3>2 DEF Entry
  <2>2. CASE u # w
    <3>1. tx'[u] = tx[u] /\ pc'[u] = pc[u] /\ Fresh(u)' = Fresh(u)
      BY <2>2, FreshOthers
    <3> QED
      BY <1>3, <3>1 DEF Entry
  <2> QED
    BY <2>1, <2>2
<1> QED
  BY <1>1, <1>2, <1>3 DEF Entry

\* A record that is in the tree and not locked is settled: an inserted one is locked.
LEMMA UnlockedIsSettled ==
  ASSUME Base, NEW v \in Values, tree[v[1]] = v, tidword[v].lock = FALSE
  PROVE  Settled(v)
<1>1. ASSUME NEW u \in Workers, v[1] \in Fresh(u) PROVE FALSE
  <2>1. PICK k \in Fresh(u) : k = v[1]
    BY <1>1
  <2>2. tree[k] = tx[u].wset[k].v /\ tidword[tx[u].wset[k].v].lock = TRUE
    BY BaseParts, FreshIs
  <2> QED
    BY <2>1, <2>2, Zenon
<1> QED
  BY <1>1 DEF Settled

\* read_internal puts a settled record into the read set.
LEMMA EnteredEntry ==
  ASSUME Base, NEW w \in Workers, SightsOf(w), WorkerStep(w), Enters(w)
  PROVE  \E r \in ReadEntries : /\ tx'[w].rset = Append(tx[w].rset, r) /\ r.v = tx[w].found
                                /\ Entry(w, r)' /\ tx'[w].found = tx[w].found
<1>0. /\ TypeOK /\ Place /\ WorkerInv(w) /\ OwnFound(w) /\ pc[w] = "recheck"
      /\ tidword[tx[w].found] = tx[w].expected /\ tidword' = tidword /\ tx'[w].found = tx[w].found
  BY BaseParts DEF WorkerInv, OwnOf, Enters, store
<1>1. PICK v \in Values : v = tx[w].found
  BY <1>0 DEF Place, PlaceOf
<1>2. PICK t \in Tids : t = tidword[v]
  BY <1>0, Typed
<1>3. PICK k \in Keys :
        /\ tx'[w].rset = Append(tx[w].rset, [op |-> "READ", key |-> k, v |-> v, tid |-> t])
        /\ \/ tx[w].scan = <<>> /\ k = KeyOf(w)
           \/ tx[w].scan # <<>> /\ k = Head(tx[w].scan)[1]
  BY <1>1, <1>2 DEF Enters
<1>4. PICK r : r = [op |-> "READ", key |-> k, v |-> v, tid |-> t]
  OBVIOUS
<1>5. r \in ReadEntries /\ r.key = k /\ r.v = v /\ r.tid = t
  BY <1>4 DEF ReadEntries
<1>6. v[1] = k
  <2>1. CASE tx[w].scan = <<>>
    BY <1>0, <1>1, <1>3, <2>1 DEF SightsOf
  <2>2. CASE tx[w].scan # <<>>
    <3>1. 1 \in 1 .. Len(tx[w].scan) /\ Head(tx[w].scan) = tx[w].scan[1]
      BY <1>0, <2>2, Typed, TxFields, TailEach
    <3>2. v = tx[w].scan[1][2] /\ k = tx[w].scan[1][1]
      BY <1>0, <1>1, <1>3, <2>2, <3>1 DEF OwnFound
    <3> QED
      BY <3>1, <3>2 DEF SightsOf
  <2> QED
    BY <2>1, <2>2
<1>7. tree[v[1]] = v /\ tidword[v].lock = FALSE
  <2>1. Sighted(v) /\ tx[w].expected.lock = FALSE
    BY <1>0, <1>1 DEF SightsOf
  <2> QED
    BY <1>0, <1>1, <2>1 DEF Sighted
<1>8. Settled(v)'
  BY <1>7, UnlockedIsSettled, SettledStays
<1>9. ~Newer(t, tidword'[v])
  BY <1>0, <1>2 DEF Newer, Tids
<1>10. Entry(w, r)'
  BY <1>2, <1>5, <1>6, <1>7, <1>8, <1>9 DEF Entry, Seen
<1> QED
  BY <1>0, <1>1, <1>3, <1>4, <1>5, <1>10

\* insert puts a record into the read set that is the worker's own.
LEMMA InsertedEntry ==
  ASSUME TypeOK, NEW w \in Workers, Inserts(w)
  PROVE  \E r \in ReadEntries : /\ tx'[w].rset = Append(tx[w].rset, r) /\ ~Seen(r)
                                /\ Entry(w, r)'
<1>1. PICK k \in Keys :
        /\ Added(w, k, <<k, w>>, "INSERT")
        /\ tx'[w].rset = Append(tx[w].rset, [op |-> "READ", key |-> k, v |-> <<k, w>>,
                                             tid |-> Tid(0, 0, TRUE, TRUE)])
  BY DEF Inserts
<1>2. PICK r : r = [op |-> "READ", key |-> k, v |-> <<k, w>>, tid |-> Tid(0, 0, TRUE, TRUE)]
  OBVIOUS
<1>3. <<k, w>> \in Values /\ Tid(0, 0, TRUE, TRUE) \in Tids
  BY DEF Values, Tid, Tids
<1>4. r \in ReadEntries /\ ~Seen(r) /\ r.key = k /\ r.v = <<k, w>> /\ r.v[1] = k
  BY <1>2, <1>3 DEF ReadEntries, Seen, Tid
<1>5. /\ pc'[w] = "op" /\ k \in DOMAIN tx'[w].wset
      /\ tx'[w].wset[k].op = "INSERT" /\ tx'[w].wset[k].v = <<k, w>>
  BY <1>1 DEF Added
<1>6. k \in Fresh(w)'
  BY <1>5 DEF Fresh, Kept, Inserted
<1>7. Entry(w, r)'
  BY <1>4, <1>5, <1>6 DEF Entry
<1> QED
  BY <1>1, <1>2, <1>4, <1>7

\* The read sets of the others.
LEMMA EntriesOther ==
  ASSUME Base, NEW w \in Workers, WorkerStep(w), NEW u \in Workers, u # w, EntriesOf(u)
  PROVE  EntriesOf(u)'
<1>1. tx'[u] = tx[u] /\ pc'[u] = pc[u]
  BY FreshOthers
<1>2. tx[u].rset \in Seq(ReadEntries)
  BY BaseParts, Typed, TxFields
<1>3. ASSUME NEW i \in 1 .. Len(tx[u].rset) PROVE Entry(u, tx[u].rset[i])'
  <2>1. PICK r \in ReadEntries : r = tx[u].rset[i]
    BY <1>2
  <2>2. Entry(u, r)
    BY <2>1 DEF EntriesOf
  <2>3. Entry(u, r)'
    BY <2>2, EntryStays
  <2> QED
    BY <1>1, <2>1, <2>3 DEF Entry
<1> QED
  BY <1>1, <1>3 DEF EntriesOf

\* The worker's own read set.
LEMMA EntriesOwn ==
  ASSUME Base, NEW w \in Workers, WorkerStep(w), SightsOf(w), EntriesOf(w)
  PROVE  EntriesOf(w)'
<1>0. TypeOK /\ Place /\ WorkerInv(w) /\ tx[w].rset \in Seq(ReadEntries)
  BY BaseParts, Typed, TxFields
<1>1. CASE Begin(w) \/ WriteDone(w) \/ AbortDone(w)
  <2>1. tx'[w].rset = <<>> /\ pc'[w] # "body"
    BY <1>0, <1>1, NewTxView DEF NewTx
  <2> QED
    BY <2>1 DEF EntriesOf
<1>2. ASSUME OperationStep(w) \/ (PhaseStep(w) /\ pc'[w] \notin Operating),
             NEW i \in 1 .. Len(tx[w].rset)
      PROVE  \E r \in ReadEntries : r = tx[w].rset[i] /\ Entry(w, r)'
  <2>1. PICK r \in ReadEntries : r = tx[w].rset[i]
    BY <1>0
  <2>2. Entry(w, r)
    BY <2>1 DEF EntriesOf
  <2>3. Entry(w, r)'
    BY <1>2, <2>2, EntryStays
  <2> QED
    BY <2>1, <2>3
<1>3. ASSUME OperationStep(w) \/ (PhaseStep(w) /\ pc'[w] \notin Operating),
             tx'[w].rset = tx[w].rset, pc'[w] # "body"
      PROVE  EntriesOf(w)'
  <2>1. ASSUME NEW i \in 1 .. Len(tx'[w].rset) PROVE Entry(w, tx[w].rset[i])'
    <3>1. PICK r \in ReadEntries : r = tx[w].rset[i] /\ Entry(w, r)'
      BY <1>2, <1>3
    <3> QED
      BY <1>3, <3>1
  <2> QED
    BY <1>3, <2>1 DEF EntriesOf
<1>4. ASSUME OperationStep(w), NEW r \in ReadEntries, Entry(w, r)',
             tx'[w].rset = Append(tx[w].rset, r),
             pc'[w] = "body" => r.v = tx'[w].found
      PROVE  EntriesOf(w)'
  <2>1. /\ Len(tx'[w].rset) = Len(tx[w].rset) + 1 /\ tx'[w].rset[Len(tx[w].rset) + 1] = r
        /\ Len(tx[w].rset) \in Nat
        /\ \A i \in 1 .. Len(tx[w].rset) : tx'[w].rset[i] = tx[w].rset[i]
    BY <1>0, <1>4
  <2>2. ASSUME NEW i \in 1 .. Len(tx'[w].rset) PROVE Entry(w, tx[w].rset[i])'
    <3>1. CASE i \in 1 .. Len(tx[w].rset)
      <4>1. PICK x \in ReadEntries : x = tx[w].rset[i] /\ Entry(w, x)'
        BY <1>2, <1>4, <3>1
      <4> QED
        BY <2>1, <3>1, <4>1
    <3>2. CASE i = Len(tx[w].rset) + 1
      BY <1>4, <2>1, <3>2
    <3> QED
      BY <2>1, <3>1, <3>2
  <2> QED
    BY <1>4, <2>1, <2>2 DEF EntriesOf
<1>5. CASE PhaseStep(w)
  <2>1. tx'[w].rset = tx[w].rset /\ pc'[w] \notin Operating
    BY <1>0, <1>5, PhaseView DEF SameSets, Operating
  <2> QED
    BY <1>3, <1>5, <2>1 DEF Operating
<1>6. CASE OperationStep(w)
  <2>0. OperationView(w)
    BY <1>0, <1>6, OperationViews
  <2>1. CASE Fails(w) \/ Steps(w) \/ Finds(w) \/ Expects(w) \/ Reloads(w) \/ Passes(w) \/ Scans(w)
             \/ Collects(w) \/ Adds(w)
    <3>1. tx'[w].rset = tx[w].rset /\ pc'[w] # "body"
      BY <2>1 DEF Fails, Steps, Finds, Expects, Reloads, Passes, Scans, Collects, SameSets, Adds, Added
    <3> QED
      BY <1>3, <1>6, <3>1
  <2>2. CASE Enters(w)
    BY <1>4, <1>6, <2>2, EnteredEntry
  <2>3. CASE Inserts(w)
    <3>1. pc'[w] # "body"
      BY <2>3 DEF Inserts, Added
    <3> QED
      BY <1>0, <1>4, <1>6, <2>3, <3>1, InsertedEntry
  <2> QED
    BY <2>0, <2>1, <2>2, <2>3 DEF OperationView
<1> QED
  BY <1>1, <1>5, <1>6 DEF WorkerStep, OperationStep, PhaseStep

-----------------------------------------------------------------------------
(* The write set                                                           *)

\* A step of w changes the bodies of its own keys only.
LEMMA BodyFrame ==
  ASSUME Base, NEW w \in Workers, WorkerStep(w), NEW v \in Values, v[1] \notin Owns(w)
  PROVE  body'[v] = body[v]
<1>0. TypeOK /\ OwnOf(w) /\ body \in [Values -> Bodies]
  BY BaseParts DEF WorkerInv
<1>1. Effect(w)
  BY BaseParts, EffectStep
<1>2. ASSUME NEW k \in DOMAIN tx[w].wset PROVE v # tx[w].wset[k].v
  BY <1>0, OwnEntries
<1>3. CASE Quiet(w)
  BY <1>3 DEF Quiet
<1>4. ASSUME NEW k \in Keys, Inserting(w, k) PROVE body'[v] = body[v]
  <2>1. <<k, w>>[1] = k /\ k \in Owns(w)
    BY <1>4 DEF Inserting
  <2>2. v # <<k, w>>
    BY <2>1
  <2> QED
    BY <1>0, <1>4, <2>2 DEF Inserting
<1>5. ASSUME NEW k \in Keys, NEW m \in Tids, Relocking(w, k, m) PROVE body'[v] = body[v]
  BY <1>5 DEF Relocking
<1>6. ASSUME NEW k \in Keys, Tearing(w, k) PROVE body'[v] = body[v]
  BY <1>0, <1>2, <1>6 DEF Tearing
<1>7. ASSUME NEW k \in Keys, NEW m \in Tids, Storing(w, k, m) PROVE body'[v] = body[v]
  BY <1>0, <1>2, <1>7 DEF Storing
<1>8. ASSUME NEW k \in Keys, Removing(w, k) PROVE body'[v] = body[v]
  BY <1>8 DEF Removing
<1> QED
  BY <1>1, <1>3, <1>4, <1>5, <1>6, <1>7, <1>8 DEF Effect

\* The records that others have inserted.
LEMMA FreshOther ==
  ASSUME Base, NEW w \in Workers, WorkerStep(w), NEW u \in Workers, u # w, FreshOf(u)
  PROVE  FreshOf(u)'
<1>1. tx'[u] = tx[u] /\ Fresh(u)' = Fresh(u) /\ Me(u)' = Me(u)
  BY FreshOthers
<1>2. ASSUME NEW k \in Fresh(u) PROVE body'[tx[u].wset[k].v] = Me(u)
  <2>0. TypeOK /\ Place /\ WorkerInv(u)
    BY BaseParts
  <2>1. PICK v \in Values : v = tx[u].wset[k].v /\ v[1] = k /\ k \in Owns(u)
    <3>1. tx[u].wset[k].v \in Values /\ tx[u].wset[k].v[1] = k /\ k \in Owns(u)
      BY <2>0, FreshIs
    <3> QED
      BY <3>1
  <2>2. v[1] \notin Owns(w)
    BY <2>1, BaseParts, OwnsDiffer
  <2>3. body'[v] = body[v]
    BY <2>2, BodyFrame
  <2> QED
    BY <2>1, <2>3 DEF FreshOf
<1> QED
  BY <1>1, <1>2 DEF FreshOf

\* Those that the worker has inserted.
LEMMA FreshOwn ==
  ASSUME Base, NEW w \in Workers, WorkerStep(w), FreshOf(w)
  PROVE  FreshOf(w)'
<1>0. /\ TypeOK /\ Place /\ WorkerInv(w) /\ OwnOf(w) /\ body \in [Values -> Bodies]
  BY BaseParts DEF WorkerInv
<1>1. CASE Begin(w) \/ WriteDone(w) \/ AbortDone(w)
  BY <1>0, <1>1, NewTxFresh DEF FreshOf
<1>2. CASE OperationStep(w) \/ PhaseStep(w)
  <2>0. Me(w)' = Me(w)
    <3>1. CASE OperationStep(w)
      <4>1. OperationView(w)
        BY <1>0, <3>1, OperationViews
      <4> QED
        BY <4>1 DEF OperationView, Me
    <3>2. CASE PhaseStep(w)
      BY <3>2, Zenon DEF PhaseStep, StartValidation, LockOne, UnlockLoad, UnlockStore, Unlocked, TakeEpoch,
                  ValidateOne, Commit, WriteBody, StoreTid, RemoveInserted, Me
    <3> QED
      BY <1>2, <3>1, <3>2
  <2>1. Effect(w)
    BY <1>0, EffectStep
  <2>2. ASSUME NEW j \in Fresh(w)
        PROVE  /\ j \in DOMAIN tx[w].wset /\ tx[w].wset[j].v \in Values /\ tx[w].wset[j].v[1] = j
               /\ body[tx[w].wset[j].v] = Me(w) /\ tx[w].wset[j].op = "INSERT"
    BY <1>0, FreshIs DEF FreshOf, Fresh, Inserted
  <2>3. CASE Quiet(w)
    BY <2>0, <2>2, <2>3 DEF Quiet, SameFresh, FreshOf
  <2>4. ASSUME NEW k \in Keys, Inserting(w, k) PROVE FreshOf(w)'
    <3>1. /\ body' = [body EXCEPT ![<<k, w>>] = Me(w)] /\ Fresh(w)' = Fresh(w) \cup {k}
          /\ k \notin Fresh(w) /\ tx'[w].wset[k].v = <<k, w>>
          /\ \A j \in Fresh(w) : tx'[w].wset[j] = tx[w].wset[j]
      BY <2>4 DEF Inserting
    <3>2. <<k, w>> \in Values /\ <<k, w>>[1] = k
      BY DEF Values
    <3>3. ASSUME NEW j \in Fresh(w) PROVE body'[tx[w].wset[j].v] = Me(w)
      <4>1. tx[w].wset[j].v # <<k, w>>
        BY <2>2, <3>1, <3>2
      <4> QED
        BY <1>0, <2>2, <3>1, <4>1
    <3>4. body'[<<k, w>>] = Me(w)
      BY <1>0, <3>1, <3>2
    <3> QED
      BY <2>0, <3>1, <3>3, <3>4 DEF FreshOf
  <2>5. ASSUME NEW k \in Keys, NEW m \in Tids, Relocking(w, k, m) PROVE FreshOf(w)'
    BY <2>0, <2>2, <2>5 DEF Relocking, SameFresh, FreshOf
  <2>6. ASSUME NEW k \in Keys, Tearing(w, k) PROVE FreshOf(w)'
    <3>1. ASSUME NEW j \in Fresh(w) PROVE body'[tx[w].wset[j].v] = Me(w)
      <4>1. j # k /\ k \in DOMAIN tx[w].wset /\ body' = [body EXCEPT ![tx[w].wset[k].v] = TORN]
        BY <2>2, <2>6 DEF Tearing
      <4>2. tx[w].wset[j].v # tx[w].wset[k].v
        BY <1>0, <2>2, <4>1, OwnEntries
      <4> QED
        BY <1>0, <2>2, <4>1, <4>2
    <3> QED
      BY <2>0, <2>6, <3>1 DEF Tearing, SameFresh, FreshOf
  <2>7. ASSUME NEW k \in Keys, NEW m \in Tids, Storing(w, k, m) PROVE FreshOf(w)'
    <3>1. /\ Fresh(w)' = Fresh(w) \ {k} /\ tx'[w].wset = tx[w].wset /\ k \in DOMAIN tx[w].wset
          /\ body' = [body EXCEPT ![tx[w].wset[k].v] = Me(w)] \/ body' = body
      BY <2>7 DEF Storing
    <3>2. ASSUME NEW j \in Fresh(w), j # k PROVE body'[tx[w].wset[j].v] = Me(w)
      <4>1. tx[w].wset[j].v # tx[w].wset[k].v
        BY <1>0, <2>2, <3>1, <3>2, OwnEntries
      <4> QED
        BY <1>0, <2>2, <3>1, <4>1
    <3> QED
      BY <2>0, <3>1, <3>2 DEF FreshOf
  <2>8. ASSUME NEW k \in Keys, Removing(w, k) PROVE FreshOf(w)'
    BY <2>0, <2>2, <2>8 DEF Removing, FreshOf
  <2> QED
    BY <2>1, <2>3, <2>4, <2>5, <2>6, <2>7, <2>8 DEF Effect
<1> QED
  BY <1>1, <1>2 DEF WorkerStep, OperationStep, PhaseStep

\* The TID of a commit is newer than every one that was read or locked.
LEMMA CommitTidIsNewer ==
  ASSUME TypeOK, NEW w \in Workers
  PROVE  Newer(CommitTid(w), tx[w].maxR) /\ Newer(CommitTid(w), tx[w].maxW)
<1> DEFINE a == MaxTid(tx[w].maxR, tx[w].maxW)
           b == MaxTid(NextTid(a), NextTid(mrctid[w]))
           c == Tid(ThLocalEpoch[w], 0, FALSE, FALSE)
<1>0. /\ tx[w].maxR \in Tids /\ tx[w].maxW \in Tids /\ mrctid[w] \in Tids /\ ThLocalEpoch[w] \in Nat
  BY Typed, TxFields DEF TypeOK, WorkerTypes
<1>1. c \in Tids
  BY <1>0 DEF Tid, Tids
<1>2. a \in Tids /\ ~Newer(tx[w].maxR, a) /\ ~Newer(tx[w].maxW, a)
  BY <1>0, MaxTidIsLarger
<1>3. NextTid(a) \in Tids /\ Newer(NextTid(a), a) /\ NextTid(mrctid[w]) \in Tids
  <2> HIDE DEF a
  <2> QED
    BY <1>0, <1>2, NextTidType
<1>4. b \in Tids /\ ~Newer(NextTid(a), b)
  <2> HIDE DEF a
  <2> QED
    BY <1>3, MaxTidIsLarger
<1>5. MaxTid(b, c) \in Tids /\ ~Newer(b, MaxTid(b, c))
  <2> HIDE DEF b, c
  <2> QED
    BY <1>1, <1>4, MaxTidIsLarger
<1>6. CommitTid(w) = MaxTid(b, c)
  BY DEF CommitTid
<1>7. PICK t \in Tids : t = CommitTid(w)
  <2> HIDE DEF b, c
  <2> QED
    BY <1>5, <1>6
<1>8. PICK n \in Tids : n = NextTid(a)
  BY <1>3
<1> HIDE DEF a, b, c
<1>9. ~Newer(n, t)
  BY <1>4, <1>5, <1>6, <1>7, <1>8, NewerTransitive
<1>10. Newer(t, a)
  BY <1>2, <1>3, <1>8, <1>9 DEF Newer, Tids
<1> QED
  BY <1>0, <1>2, <1>7, <1>10 DEF Newer, Tids

\* No TID is newer than itself.
LEMMA NotNewerThanItself ==
  ASSUME NEW t \in Tids
  PROVE  ~Newer(t, t)
BY DEF Newer, Tids

\* The commits of the others.
LEMMA WritingOther ==
  ASSUME Base, NEW w \in Workers, WorkerStep(w), NEW u \in Workers, u # w, WritingOf(u)
  PROVE  WritingOf(u)'
<1>0. /\ TypeOK /\ Place /\ WorkerInv(w) /\ OwnOf(w) /\ OwnOf(u)
  BY BaseParts DEF WorkerInv
<1>1. tx'[u] = tx[u] /\ pc'[u] = pc[u] /\ Me(u)' = Me(u)
  BY FreshOthers
<1>2. StoreFrame(w)
  BY <1>0, StoreFrameStep
<1> SUFFICES ASSUME pc[u] \in {"write", "writing"}
             PROVE  /\ Wrote(Me(u), tx[u].maxtid)'
                    /\ \A k \in tx[u].todo \cap Lockable(tx[u].wset) :
                         Newer(tx[u].maxtid, tidword'[tx[u].wset[k].v])
  BY <1>1 DEF WritingOf
<1>3. PICK b : b = Me(u)
  OBVIOUS
<1>4. PICK t \in Tids : t = tx[u].maxtid
  BY <1>0, Typed, TxFields
<1>5. Wrote(b, t)'
  <2>1. Wrote(b, t)
    BY <1>3, <1>4 DEF WritingOf
  <2> QED
    BY <1>0, <2>1, NotNewerThanItself, WroteStays
<1>6. Wrote(Me(u), tx[u].maxtid)'
  BY <1>1, <1>3, <1>4, <1>5
<1>7. ASSUME NEW k \in tx[u].todo \cap Lockable(tx[u].wset)
      PROVE  Newer(tx[u].maxtid, tidword'[tx[u].wset[k].v])
  <2>1. PICK v \in Values : v = tx[u].wset[k].v /\ v[1] = k /\ k \in Owns(u)
    BY <1>0, OwnEntries DEF Lockable
  <2>2. v[1] \notin Owns(w)
    BY <2>1, BaseParts, OwnsDiffer
  <2>3. tidword'[v] = tidword[v]
    BY <1>2, <2>2 DEF StoreFrame
  <2> QED
    BY <2>1, <2>3 DEF WritingOf
<1> QED
  BY <1>6, <1>7

\* The worker's own commit.
LEMMA CommitWrites ==
  ASSUME Base, NEW w \in Workers, WorkerStep(w), Commit(w)
  PROVE  WritingOf(w)'
<1>0. /\ TypeOK /\ Place /\ WorkerInv(w) /\ OwnOf(w) /\ TidsOf(w) /\ commits \in Seq(CommitTypes)
  BY BaseParts DEF WorkerInv, TypeOK
<1>1. /\ pc[w] = "validate" /\ pc'[w] = "write" /\ tx'[w].maxtid = CommitTid(w) /\ CommitTid(w) \in Tids
      /\ tx'[w].wset = tx[w].wset /\ tidword' = tidword /\ done' = done
  BY <1>0, CommitView DEF SameSets, store
<1>2. PICK t \in Tids : t = CommitTid(w)
  BY <1>1
<1>3. PICK b : b = Me(w)
  OBVIOUS
<1>4. Wrote(b, t)'
  <2>1. PICK c : /\ c.id = b /\ c.tid = t /\ commits' = Append(commits, c)
    BY <1>2, <1>3 DEF Commit
  <2>2. Len(commits) + 1 \in 1 .. Len(commits') /\ commits'[Len(commits) + 1] = c
    BY <1>0, <2>1
  <2> QED
    BY <2>1, <2>2, NotNewerThanItself DEF Wrote, Txs
<1>5. Wrote(Me(w), tx[w].maxtid)'
  BY <1>1, <1>2, <1>3, <1>4 DEF Me
<1>6. ASSUME NEW k \in Lockable(tx[w].wset) PROVE Newer(t, tidword[tx[w].wset[k].v])
  <2>1. k \in Kept(w) /\ k \in DOMAIN tx[w].wset
    BY <1>1 DEF Kept, Lockable
  <2>2. PICK x \in Tids : x = tidword[tx[w].wset[k].v]
    BY <1>0, <2>1, OwnEntries
  <2>3. PICK m \in Tids : m = tx[w].maxW
    BY <1>0, Typed, TxFields
  <2>4. ~Newer(x, m)
    BY <1>0, <1>1, <2>1, <2>2, <2>3 DEF TidsOf
  <2>5. Newer(t, m)
    BY <1>0, <1>2, <2>3, CommitTidIsNewer
  <2>6. Newer(t, x)
    BY <2>4, <2>5 DEF Newer, Tids
  <2> QED
    BY <2>2, <2>6
<1> QED
  BY <1>1, <1>2, <1>5, <1>6 DEF WritingOf

\* writePhase of the worker.
LEMMA WritingOwn ==
  ASSUME Base, NEW w \in Workers, WorkerStep(w), WritingOf(w)
  PROVE  WritingOf(w)'
<1>0. /\ TypeOK /\ Place /\ WorkerInv(w) /\ OwnOf(w) /\ TreeKeys
  BY BaseParts DEF WorkerInv
<1>1. CASE Commit(w)
  BY <1>1, CommitWrites
<1>2. PICK b : b = Me(w)
  OBVIOUS
<1>3. PICK t \in Tids : t = tx[w].maxtid
  BY <1>0, Typed, TxFields
<1>4. CASE WriteBody(w)
  <2>1. /\ tx' = tx /\ pc[w] = "write" /\ tidword' = tidword /\ done' = done
    BY <1>0, <1>4, WriteBodyView
  <2>2. Wrote(b, t)
    BY <1>2, <1>3, <2>1 DEF WritingOf
  <2>3. Wrote(b, t)'
    BY <1>0, <2>2, NotNewerThanItself, WroteStays
  <2>4. Wrote(Me(w), tx[w].maxtid)'
    BY <1>2, <1>3, <2>1, <2>3 DEF Me
  <2> QED
    BY <2>1, <2>4 DEF WritingOf
<1>5. CASE StoreTid(w)
  <2>1. PICK k \in Keys, m \in Tids : Storing(w, k, m)
    BY <1>0, <1>5, StoreEffect
  <2>2. /\ pc[w] \in {"write", "writing"} /\ tx'[w].maxtid = m /\ tx'[w].todo = tx[w].todo \ {k}
        /\ tx'[w].wset = tx[w].wset /\ k \in DOMAIN tx[w].wset
        /\ tidword' = [tidword EXCEPT ![tx[w].wset[k].v] = m]
        /\ m.epoch = t.epoch /\ m.tid = t.tid
    BY <1>3, <2>1 DEF Storing
  <2>3. done' = done
    BY <1>5 DEF StoreTid
  <2>4. Wrote(b, t) /\ ~Newer(t, m)
    BY <1>2, <1>3, <2>2 DEF WritingOf, Newer, Tids
  <2>5. Wrote(b, m)'
    BY <1>0, <2>4, WroteStays
  <2>6. Wrote(Me(w), tx[w].maxtid)'
    BY <1>2, <2>2, <2>3, <2>5 DEF Me
  <2>7. ASSUME NEW j \in tx[w].todo \cap Lockable(tx[w].wset), j # k
        PROVE  Newer(m, tidword'[tx[w].wset[j].v])
    <3>1. j \in DOMAIN tx[w].wset
      BY DEF Lockable
    <3>2. tidword'[tx[w].wset[j].v] = tidword[tx[w].wset[j].v]
      <4>1. tx[w].wset[j].v # tx[w].wset[k].v /\ tx[w].wset[j].v \in Values
        BY <1>0, <2>2, <2>7, <3>1, OwnEntries
      <4> QED
        BY <1>0, <2>2, <4>1, Typed
    <3>3. Newer(t, tidword[tx[w].wset[j].v])
      BY <1>3, <2>2 DEF WritingOf
    <3> QED
      BY <2>2, <3>2, <3>3 DEF Newer
  <2> QED
    BY <2>2, <2>6, <2>7 DEF WritingOf
<1>6. CASE ~(Commit(w) \/ WriteBody(w) \/ StoreTid(w))
  <2>1. pc'[w] \notin {"write", "writing"}
    <3>1. CASE OperationStep(w)
      <4>1. OperationView(w)
        BY <1>0, <3>1, OperationViews
      <4> QED
        BY <4>1, Zenon DEF OperationView, Fails, Steps, Finds, Expects, Reloads, Passes, Enters, Scans,
                    Collects, Adds, Inserts, Added
    <3>2. CASE Begin(w) \/ WriteDone(w) \/ AbortDone(w)
      BY <1>0, <3>2, NewTxView
    <3>3. CASE StartValidation(w) \/ UnlockLoad(w) \/ UnlockStore(w) \/ Unlocked(w) \/ TakeEpoch(w)
      BY <1>0, <3>3, StartValidationView, UnlockLoadView, UnlockStoreView, UnlockedView, TakeEpochView, Zenon
    <3>4. CASE LockOne(w) \/ ValidateOne(w) \/ RemoveInserted(w)
      BY <1>0, <3>4, Typed, Zenon DEF LockOne, ValidateOne, RemoveInserted, Goto
    <3> QED
      BY <1>6, <3>1, <3>2, <3>3, <3>4 DEF WorkerStep, OperationStep
  <2> QED
    BY <2>1 DEF WritingOf
<1> QED
  BY <1>1, <1>4, <1>5, <1>6

\* maxR and the reads that have passed validation.
LEMMA ValidatedOther ==
  ASSUME Base, NEW w \in Workers, WorkerStep(w), NEW u \in Workers, u # w, ValidatedOf(u)
  PROVE  ValidatedOf(u)'
BY FreshOthers DEF ValidatedOf

\* A worker's own step keeps maxR above what it has validated (validationPhase).
LEMMA ValidatedOwn ==
  ASSUME Base, NEW w \in Workers, WorkerStep(w), ValidatedOf(w)
  PROVE  ValidatedOf(w)'
<1>0. /\ TypeOK /\ Place /\ WorkerInv(w) /\ TxOK(tx[w]) /\ tx[w].rset \in Seq(ReadEntries)
      /\ tx[w].itr \in Nat /\ tx[w].maxR \in Tids
  BY BaseParts, Typed, TxFields
<1>1. CASE Begin(w) \/ WriteDone(w) \/ AbortDone(w)
  <2>1. tx'[w].itr = 1 /\ pc'[w] # "validate"
    BY <1>0, <1>1, NewTxView DEF NewTx
  <2> QED
    BY <2>1 DEF ValidatedOf
<1>2. CASE OperationStep(w)
  <2>1. tx'[w].itr = tx[w].itr
    BY <1>0, <1>2, GivenOperation DEF NewGiven
  <2>2. pc[w] \in Operating /\ pc'[w] # "validate"
    <3>1. OperationView(w)
      BY <1>0, <1>2, OperationViews
    <3> QED
      BY <3>1, Zenon DEF OperationView, Fails, Steps, Finds, Expects, Reloads, Passes, Enters, Scans,
                  Collects, Adds, Inserts, Added, Operating
  <2> QED
    BY <2>1, <2>2 DEF ValidatedOf
<1>3. CASE PhaseStep(w)
  <2>0. pc'[w] \notin Operating /\ tx'[w].rset = tx[w].rset
    BY <1>0, <1>3, PhaseView DEF Operating, SameSets
  <2>1. CASE pc'[w] \notin {"lock", "validate"}
    BY <2>0, <2>1 DEF ValidatedOf
  <2>2. CASE StartValidation(w) \/ LockOne(w) \/ TakeEpoch(w)
    <3>1. CASE pc'[w] \notin {"lock", "validate"}
      BY <2>0, <3>1 DEF ValidatedOf
    <3>2. CASE pc'[w] \in {"lock", "validate"}
      <4>1. tx'[w].itr = tx[w].itr /\ tx'[w].maxR = tx[w].maxR
        <5>1. ~ValidateOne(w)
          <6>1. pc[w] \in {"op", "lock"}
            BY <2>2, Zenon DEF StartValidation, LockOne, TakeEpoch
          <6>2. ASSUME ValidateOne(w) PROVE pc[w] = "validate"
            BY <6>2, Zenon DEF ValidateOne
          <6> QED
            BY <6>1, <6>2
        <5> QED
          BY <1>0, <1>3, <3>2, <5>1, GivenPhase
      <4>2. pc[w] \in {"op", "lock"}
        BY <2>2, Zenon DEF StartValidation, LockOne, TakeEpoch
      <4>3. tx[w].itr = 1
        BY <4>2 DEF ValidatedOf, Operating
      <4>4. \A i \in 1 .. Len(tx[w].rset) : ~(i < 1)
        BY <1>0
      <4> QED
        BY <2>0, <4>1, <4>3, <4>4 DEF ValidatedOf
    <3> QED
      BY <3>1, <3>2
  <2>3. CASE ValidateOne(w) /\ pc'[w] \in {"lock", "validate"}
    <3>1. /\ tx'[w].itr = tx[w].itr + 1 /\ tx[w].itr \in 1 .. Len(tx[w].rset)
          /\ ~Rejected(w, tx[w].rset[tx[w].itr], tidword[tx[w].rset[tx[w].itr].v])
      BY <1>0, <1>3, <2>3, GivenPhase, Zenon DEF StartValidation, LockOne, TakeEpoch, ValidateOne
    <3>2. PICK r \in ReadEntries : r = tx[w].rset[tx[w].itr]
      BY <1>0, <3>1
    <3>3. ~Rejected(w, r, tidword[r.v])
      BY <3>1, <3>2
    <3>4. /\ tx'[w].maxR = MaxTid(tx[w].maxR, tidword[r.v]) /\ tidword[r.v] \in Tids
          /\ pc[w] = "validate" /\ pc'[w] = "validate"
      BY <1>0, <2>3, <3>2, <3>3, AcceptView
    <3>5. PICK c \in Tids : c = tidword[r.v]
      BY <3>4
    <3>6. PICK m \in Tids : m = tx'[w].maxR /\ ~Newer(tx[w].maxR, m) /\ ~Newer(c, m)
      BY <1>0, <3>4, <3>5, MaxTidIsLarger
    <3>7. r.tid \in Tids /\ ~Newer(r.tid, m)
      <4>1. r.tid \in Tids
        BY DEF ReadEntries
      <4>2. r.tid.epoch = c.epoch /\ r.tid.tid = c.tid
        BY <3>3, <3>5 DEF Rejected
      <4> QED
        BY <3>6, <4>1, <4>2 DEF Newer
    <3>8. ASSUME NEW i \in 1 .. Len(tx[w].rset), i < tx[w].itr + 1
          PROVE  ~Newer(tx[w].rset[i].tid, m)
      <4>1. CASE i = tx[w].itr
        BY <3>2, <3>7, <4>1
      <4>2. CASE i < tx[w].itr
        <5>0. tx[w].rset[i] \in ReadEntries
          BY <1>0
        <5>1. PICK x \in Tids : x = tx[w].rset[i].tid
          BY <5>0 DEF ReadEntries
        <5>2. ~Newer(x, tx[w].maxR)
          BY <3>4, <4>2, <5>1 DEF ValidatedOf
        <5>3. ~Newer(x, m)
          BY <1>0, <3>6, <5>2, NewerTransitive
        <5> QED
          BY <5>1, <5>3
      <4> QED
        BY <1>0, <3>8, <4>1, <4>2
    <3> QED
      BY <2>0, <3>1, <3>4, <3>6, <3>8 DEF ValidatedOf, Operating
  <2> QED
    BY <1>0, <1>3, <2>1, <2>2, <2>3, GivenPhase
<1> QED
  BY <1>1, <1>2, <1>3 DEF WorkerStep, OperationStep, PhaseStep

-----------------------------------------------------------------------------
(* What was read is committed, or validation fails                         *)

\* A read that validation will reject is not saved by a step of anybody.
LEMMA StaleStays ==
  ASSUME Base, NEW x \in Workers, WorkerStep(x), NEW w \in Workers, NEW r \in ReadEntries,
         Settled(r.v), Stale(w, r)
  PROVE  Stale(w, r)'
<1>0. /\ TypeOK /\ Place /\ r.v \in Values /\ r.tid \in Tids /\ tidword \in [Values -> Tids]
  BY BaseParts DEF ReadEntries
<1>1. PICK v \in Values : v = r.v
  BY <1>0
<1>2. ~Newer(tidword[v], tidword'[v]) /\ tidword[v] \in Tids /\ tidword'[v] \in Tids
  BY <1>1, SettledGrows
<1>3. CASE Newer(tidword[r.v], r.tid)
  <2>1. Newer(tidword'[v], r.tid)
    BY <1>0, <1>1, <1>2, <1>3 DEF Newer, Tids
  <2> QED
    BY <1>1, <2>1 DEF Stale
<1>4. ASSUME NEW u \in Workers \ {w}, Overwrites(u, r) PROVE Stale(w, r)'
  <2>1. CASE u # x
    <3>1. tx'[u] = tx[u] /\ pc'[u] = pc[u]
      BY <2>1, FreshOthers
    <3> QED
      BY <1>4, <3>1 DEF Stale, Overwrites
  <2>2. CASE u = x
    <3>1. /\ pc[u] \in {"write", "writing"} /\ Newer(tx[u].maxtid, r.tid) /\ WorkerStep(u)
      BY <1>4, <2>2 DEF Overwrites
    <3>2. PICK j \in tx[u].todo : tx[u].wset[j].v = r.v
      BY <1>4 DEF Overwrites
    <3>3. WriteBody(u) \/ StoreTid(u)
      BY <3>1, <3>2, Zenon DEF WorkerStep, Begin, Insert, Write, Delete, Read, LoadTid, Recheck, ReadBody, Scan,
           ScanRecord, ScanBodies, StartValidation, LockOne, UnlockLoad, UnlockStore, Unlocked,
           TakeEpoch, ValidateOne, Commit, WriteBody, StoreTid, WriteDone, RemoveInserted,
           AbortDone, Doing
    <3>4. CASE WriteBody(u)
      <4>1. tx' = tx /\ pc'[u] = "writing"
        BY <1>0, <3>4, WriteBodyView
      <4>2. Overwrites(u, r)'
        BY <3>1, <3>2, <4>1 DEF Overwrites
      <4> QED
        BY <4>2 DEF Stale
    <3>5. CASE StoreTid(u)
      <4>1. PICK k \in Keys, m \in Tids : Storing(u, k, m)
        BY <1>0, <3>5, BaseParts, StoreEffect
      <4>2. /\ pc'[u] = "write" /\ tx'[u].maxtid = m /\ tx'[u].todo = tx[u].todo \ {k}
            /\ tx'[u].wset = tx[u].wset /\ tidword' = [tidword EXCEPT ![tx[u].wset[k].v] = m]
            /\ m.epoch = tx[u].maxtid.epoch /\ m.tid = tx[u].maxtid.tid
        BY <4>1 DEF Storing
      <4>3. Newer(m, r.tid)
        BY <3>1, <4>2 DEF Newer
      <4>4. CASE j = k
        <5>1. tidword'[r.v] = m
          BY <1>0, <3>2, <4>2, <4>4
        <5> QED
          BY <4>3, <5>1 DEF Stale
      <4>5. CASE j # k
        <5>1. Overwrites(u, r)'
          BY <3>2, <4>2, <4>3, <4>5 DEF Overwrites
        <5> QED
          BY <5>1 DEF Stale
      <4> QED
        BY <4>4, <4>5
    <3> QED
      BY <3>3, <3>4, <3>5
  <2> QED
    BY <2>1, <2>2
<1> QED
  BY <1>3, <1>4 DEF Stale

\* What accounts for a body accounts for it after the step, unless validation passes
\* the entry.
LEMMA AccountedStays ==
  ASSUME Base, NEW x \in Workers, WorkerStep(x), NEW w \in Workers, EntriesOf(w),
         Len(tx'[w].rset) \in Nat, Len(tx[w].rset) <= Len(tx'[w].rset),
         \A i \in 1 .. Len(tx[w].rset) :
           /\ tx'[w].rset[i] = tx[w].rset[i]
           /\ Seen(tx[w].rset[i]) /\ i >= tx[w].itr /\ Stale(w, tx[w].rset[i]) => i >= tx'[w].itr,
         Me(w)' = Me(w), NEW b, Accounted(w, b)
  PROVE  Accounted(w, b)'
<1>0. TypeOK /\ tx[w].rset \in Seq(ReadEntries)
  BY BaseParts, Typed, TxFields
<1>1. CASE b = INITIAL \/ b = Me(w)
  BY <1>1 DEF Accounted
<1>2. ASSUME NEW i \in 1 .. Len(tx[w].rset),
             \/ Seen(tx[w].rset[i]) /\ i >= tx[w].itr /\ Stale(w, tx[w].rset[i])
             \/ Wrote(b, tx[w].rset[i].tid)
      PROVE  Accounted(w, b)'
  <2>1. PICK r \in ReadEntries : r = tx[w].rset[i] /\ r = tx'[w].rset[i]
    BY <1>0
  <2>2. i \in 1 .. Len(tx'[w].rset) /\ r.tid \in Tids
    BY <1>0 DEF ReadEntries
  <2>3. CASE Seen(r) /\ i >= tx[w].itr /\ Stale(w, r)
    <3>1. Settled(r.v)
      BY <2>1, <2>3 DEF EntriesOf, Entry
    <3>2. Stale(w, r)'
      BY <2>3, <3>1, StaleStays
    <3>3. i >= tx'[w].itr
      BY <2>1, <2>3
    <3>4. Stale(w, tx[w].rset[i])'
      BY <2>1, <3>2
    <3> QED
      BY <2>1, <2>2, <2>3, <3>3, <3>4 DEF Accounted
  <2>4. CASE Wrote(b, r.tid)
    <3>1. PICK t \in Tids : t = r.tid
      BY <2>2
    <3>2. Wrote(b, t)'
      BY <1>0, <2>4, <3>1, NotNewerThanItself, WroteStays
    <3>3. Wrote(b, tx[w].rset[i].tid)'
      BY <2>1, <3>1, <3>2
    <3> QED
      BY <2>2, <3>3 DEF Accounted
  <2> QED
    BY <1>2, <2>1, <2>3, <2>4
<1> QED
  BY <1>1, <1>2 DEF Accounted

\* Whoever is assigning the body of a settled record has committed a newer version than
\* the one in the read set.
LEMMA TornOverwrites ==
  ASSUME Base, NEW w \in Workers, pc[w] \in Operating, NEW r \in ReadEntries, Seen(r), Entry(w, r),
         \A u \in Workers : WritingOf(u), Torn(r.v)
  PROVE  Stale(w, r)
<1>0. /\ TypeOK /\ Place /\ r.v \in Values /\ r.tid \in Tids /\ tidword \in [Values -> Tids]
      /\ Settled(r.v) /\ ~Newer(r.tid, tidword[r.v])
  BY BaseParts DEF ReadEntries, Entry
<1>1. PICK u \in Workers : pc[u] = "writing" /\ tx[u].wset[Least(tx[u].todo)].v = r.v
  BY DEF Torn
<1>2. u # w
  BY <1>1 DEF Operating
<1>3. PICK k : k = Least(tx[u].todo)
  OBVIOUS
<1>4. tx[u].todo # {}
  BY <1>0, <1>1 DEF Place, PlaceOf
<1>5. k \in tx[u].todo /\ k \in DOMAIN tx[u].wset
  BY <1>0, <1>3, <1>4, FirstKey
<1>6. r.v[1] = k
  BY <1>0, <1>1, <1>3, <1>5, BaseParts, OwnEntries DEF WorkerInv
<1>7. k \in Lockable(tx[u].wset)
  <2>1. k \notin Fresh(u)
    BY <1>0, <1>6 DEF Settled
  <2>2. k \notin Inserted(tx[u].wset)
    BY <1>1, <1>5, <2>1 DEF Fresh, Kept
  <2> QED
    BY <1>5, <2>2 DEF Lockable, Inserted
<1>8. PICK m \in Tids : m = tx[u].maxtid
  BY <1>0, Typed, TxFields
<1>9. PICK t \in Tids : t = tidword[r.v]
  BY <1>0
<1>10. Newer(m, t)
  BY <1>1, <1>3, <1>5, <1>7, <1>8, <1>9 DEF WritingOf
<1>11. Newer(m, r.tid)
  BY <1>0, <1>9, <1>10 DEF Newer, Tids
<1>12. Overwrites(u, r)
  BY <1>1, <1>3, <1>5, <1>8, <1>11 DEF Overwrites
<1> QED
  BY <1>2, <1>12 DEF Stale

\* The body of a record in the read set: although it is read after the last look at the
\* TID word, it is accounted for.
LEMMA BodyAccounted ==
  ASSUME Base, Versions, NEW w \in Workers, pc[w] \in Operating, EntriesOf(w), FreshOf(w), ValidatedOf(w),
         \A u \in Workers : WritingOf(u), NEW i \in 1 .. Len(tx[w].rset), NEW b,
         b = body[tx[w].rset[i].v]
  PROVE  Accounted(w, b)
<1>0. TypeOK /\ tx[w].rset \in Seq(ReadEntries) /\ tidword \in [Values -> Tids]
  BY BaseParts, Typed, TxFields
<1>1. PICK r \in ReadEntries : r = tx[w].rset[i]
  BY <1>0
<1>2. Entry(w, r) /\ r.v \in Values /\ r.tid \in Tids
  BY <1>1 DEF EntriesOf, ReadEntries
<1>3. CASE ~Seen(r)
  <2>1. r.key \in Fresh(w) /\ tx[w].wset[r.key].v = r.v
    BY <1>2, <1>3 DEF Entry
  <2>2. b = Me(w)
    BY <1>1, <2>1 DEF FreshOf
  <2> QED
    BY <2>2 DEF Accounted
<1>4. CASE Seen(r)
  <2>0. Settled(r.v) /\ ~Newer(r.tid, tidword[r.v])
    BY <1>2, <1>4 DEF Entry
  <2>1. ASSUME Stale(w, r) PROVE Accounted(w, b)
    <3>1. i >= tx[w].itr
      BY <1>0 DEF ValidatedOf
    <3> QED
      BY <1>1, <1>4, <2>1, <3>1 DEF Accounted
  <2>2. PICK t \in Tids : t = tidword[r.v]
    BY <1>0, <1>2
  <2>3. b = INITIAL \/ Wrote(b, t) \/ Torn(r.v)
    BY <1>1, <1>2, <2>0, <2>2 DEF Versions
  <2>4. CASE b = INITIAL
    BY <2>4 DEF Accounted
  <2>5. CASE Torn(r.v)
    BY <1>2, <1>4, <2>1, <2>5, TornOverwrites
  <2>6. CASE Wrote(b, t)
    <3>1. CASE Newer(t, r.tid)
      BY <2>1, <2>2, <3>1 DEF Stale
    <3>2. CASE ~Newer(t, r.tid)
      <4>1. PICK j \in Txs : commits[j].id = b /\ ~Newer(commits[j].tid, t)
        BY <2>6 DEF Wrote
      <4>2. commits[j].tid \in Tids
        <5>1. commits[j] \in CommitTypes
          BY <1>0 DEF TypeOK, Txs
        <5> QED
          BY <5>1 DEF CommitTypes
      <4>3. ~Newer(commits[j].tid, r.tid)
        BY <1>2, <3>2, <4>1, <4>2, NewerTransitive
      <4>4. Wrote(b, r.tid)
        BY <4>1, <4>3 DEF Wrote
      <4> QED
        BY <1>1, <4>4 DEF Accounted
    <3> QED
      BY <3>1, <3>2
  <2> QED
    BY <2>3, <2>4, <2>5, <2>6
<1> QED
  BY <1>2, <1>3, <1>4

\* A step of another worker.
LEMMA GivenOther ==
  ASSUME Base, NEW x \in Workers, WorkerStep(x), NEW w \in Workers, w # x, EntriesOf(w), GivenOf(w)
  PROVE  GivenOf(w)'
<1>0. Len(tx[w].rset) \in Nat
  BY BaseParts, Typed, TxFields
<1>1. tx'[w] = tx[w] /\ pc'[w] = pc[w] /\ Me(w)' = Me(w)
  BY FreshOthers
<1>2. Given(w)' = Given(w)
  BY <1>1 DEF Given
<1>3. ASSUME NEW b, Accounted(w, b) PROVE Accounted(w, b)'
  BY <1>0, <1>1, <1>3, AccountedStays
<1> QED
  BY <1>1, <1>2, <1>3 DEF GivenOf

\* The worker's own operations.
LEMMA GivenOwnOperation ==
  ASSUME Base, Versions, NEW w \in Workers, WorkerStep(w), OperationStep(w), EntriesOf(w), FreshOf(w),
         ValidatedOf(w), \A u \in Workers : WritingOf(u), GivenOf(w)
  PROVE  GivenOf(w)'
<1>0. /\ TypeOK /\ Place /\ tx[w].rset \in Seq(ReadEntries) /\ OperationView(w) /\ NewGiven(w)
  BY BaseParts, Typed, TxFields, OperationViews, GivenOperation
<1>1. pc[w] \in Operating
  BY <1>0, Zenon DEF OperationView, Fails, Steps, Finds, Expects, Reloads, Passes, Enters, Scans,
              Collects, Adds, Inserts, Added, Operating
<1>2. /\ Len(tx'[w].rset) \in Nat /\ Len(tx[w].rset) <= Len(tx'[w].rset)
      /\ \A i \in 1 .. Len(tx[w].rset) : tx'[w].rset[i] = tx[w].rset[i]
  <2>1. tx'[w].rset = tx[w].rset \/ \E r : tx'[w].rset = Append(tx[w].rset, r)
    BY <1>0, Zenon DEF OperationView, Fails, Steps, Finds, Expects, Reloads, Passes, Enters, Scans,
                Collects, Adds, Inserts, SameSets
  <2>2. ASSUME NEW r, tx'[w].rset = Append(tx[w].rset, r)
        PROVE  /\ Len(tx'[w].rset) = Len(tx[w].rset) + 1
               /\ \A i \in 1 .. Len(tx[w].rset) : tx'[w].rset[i] = tx[w].rset[i]
    BY <1>0, <2>2
  <2> QED
    BY <1>0, <2>1, <2>2
<1>3. Me(w)' = Me(w) /\ tx'[w].itr = tx[w].itr
  BY <1>0 DEF OperationView, NewGiven, Me
<1>4. ASSUME NEW b, Accounted(w, b) PROVE Accounted(w, b)'
  BY <1>2, <1>3, <1>4, AccountedStays
<1>5. ASSUME NEW b \in Given(w)' PROVE Accounted(w, b)
  <2>1. CASE b \in Given(w)
    BY <1>1, <2>1 DEF GivenOf
  <2>2. CASE b = Me(w)
    BY <2>2 DEF Accounted
  <2>3. CASE pc[w] = "body" /\ b = body[tx[w].found]
    <3>1. PICK i \in 1 .. Len(tx[w].rset) : tx[w].rset[i].v = tx[w].found
      BY <1>0, <2>3 DEF EntriesOf
    <3> QED
      BY <1>1, <2>3, <3>1, BodyAccounted
  <2>4. CASE \E i \in 1 .. Len(tx[w].rset) : b = body[tx[w].rset[i].v]
    BY <1>1, <2>4, BodyAccounted
  <2> QED
    BY <1>0, <2>1, <2>2, <2>3, <2>4 DEF NewGiven
<1> QED
  BY <1>4, <1>5 DEF GivenOf

\* validationPhase rejects a read of an older version: another worker's commit has
\* changed the TID word, or holds its lock.
LEMMA StaleIsRejected ==
  ASSUME Base, NEW w \in Workers, NEW r \in ReadEntries, Entry(w, r), Stale(w, r)
  PROVE  Rejected(w, r, tidword[r.v])
<1>0. TypeOK /\ r.v \in Values /\ r.tid \in Tids /\ tidword[r.v] \in Tids
  BY BaseParts DEF ReadEntries
<1>1. CASE Newer(tidword[r.v], r.tid)
  BY <1>0, <1>1 DEF Newer, Rejected, Tids
<1>2. ASSUME NEW u \in Workers \ {w}, Overwrites(u, r) PROVE Rejected(w, r, tidword[r.v])
  <2>1. PICK k \in tx[u].todo : tx[u].wset[k].v = r.v
    BY <1>2 DEF Overwrites
  <2>2. pc[u] \in {"write", "writing"} /\ WorkerInv(u) /\ WorkerInv(w) /\ OwnOf(u) /\ OwnOf(w)
    BY <1>2, BaseParts DEF Overwrites, WorkerInv
  <2>3. k \in Kept(u) /\ k \in DOMAIN tx[u].wset
    BY <2>2, BaseParts DEF Kept, Place, PlaceOf
  <2>4. tidword[r.v].lock = TRUE
    BY <2>1, <2>2, <2>3 DEF WorkerInv, LocksOf
  <2>5. r.key = k /\ k \in Owns(u)
    BY <1>0, <2>1, <2>2, <2>3, OwnEntries DEF Entry
  <2>6. ~InWriteSet(w, r.key)
    <3>1. k \notin Owns(w)
      BY <2>5, BaseParts, OwnsDiffer
    <3> QED
      BY <1>0, <2>2, <2>5, <3>1, OwnEntries DEF InWriteSet
  <2> QED
    BY <2>4, <2>6 DEF Rejected
<1> QED
  BY <1>1, <1>2 DEF Stale

\* lockWriteSet and validationPhase of the worker.
LEMMA GivenOwnPhase ==
  ASSUME Base, NEW w \in Workers, WorkerStep(w), PhaseStep(w), EntriesOf(w), GivenOf(w)
  PROVE  GivenOf(w)'
<1>0. /\ TypeOK /\ Place /\ WorkerInv(w) /\ tx[w].rset \in Seq(ReadEntries) /\ tx[w].itr \in Nat
      /\ pc'[w] \notin Operating /\ tx'[w].rset = tx[w].rset
  BY BaseParts, Typed, TxFields, PhaseView DEF Operating, SameSets
<1>1. CASE pc'[w] \notin {"lock", "validate"}
  BY <1>0, <1>1 DEF GivenOf
<1>2. CASE pc'[w] \in {"lock", "validate"}
  <2>1. tx'[w].reads = tx[w].reads
    BY <1>0, <1>2, GivenPhase
  <2>2. Given(w)' = Given(w)
    BY <2>1 DEF Given
  <2>3. pc[w] \in Operating \cup {"lock", "validate"} /\ Me(w)' = Me(w)
    <3>1. StartValidation(w) \/ LockOne(w) \/ TakeEpoch(w) \/ ValidateOne(w)
      BY <1>0, <1>2, GivenPhase
    <3> QED
      BY <3>1, Zenon DEF StartValidation, LockOne, TakeEpoch, ValidateOne, Operating, Me
  <2>4. ASSUME NEW i \in 1 .. Len(tx[w].rset), Seen(tx[w].rset[i]), i >= tx[w].itr,
               Stale(w, tx[w].rset[i])
        PROVE  i >= tx'[w].itr
    <3>1. CASE tx'[w].itr = tx[w].itr
      BY <2>4, <3>1
    <3>2. CASE /\ tx'[w].itr = tx[w].itr + 1
               /\ ~Rejected(w, tx[w].rset[tx[w].itr], tidword[tx[w].rset[tx[w].itr].v])
      <4>1. PICK r \in ReadEntries : r = tx[w].rset[i]
        BY <1>0
      <4>2. Entry(w, r)
        BY <4>1 DEF EntriesOf
      <4>3. Rejected(w, r, tidword[r.v])
        BY <2>4, <4>1, <4>2, StaleIsRejected
      <4>4. i # tx[w].itr
        BY <3>2, <4>1, <4>3
      <4> QED
        BY <1>0, <2>4, <3>2, <4>4
    <3> QED
      BY <1>0, <1>2, <3>1, <3>2, GivenPhase
  <2>5. ASSUME NEW b, Accounted(w, b) PROVE Accounted(w, b)'
    BY <1>0, <2>3, <2>4, <2>5, AccountedStays
  <2> QED
    BY <2>2, <2>3, <2>5 DEF GivenOf
<1> QED
  BY <1>1, <1>2

\* Every step of the worker.
LEMMA GivenOwn ==
  ASSUME Base, Versions, NEW w \in Workers, WorkerStep(w), EntriesOf(w), FreshOf(w),
         ValidatedOf(w), \A u \in Workers : WritingOf(u), GivenOf(w)
  PROVE  GivenOf(w)'
<1>1. CASE OperationStep(w)
  BY <1>1, GivenOwnOperation
<1>2. CASE PhaseStep(w)
  BY <1>2, GivenOwnPhase
<1>3. CASE Begin(w) \/ WriteDone(w) \/ AbortDone(w)
  <2>1. tx'[w].reads = {}
    BY <1>3, BaseParts, NewTxView DEF NewTx
  <2>2. \A b \in Given(w)' : b = INITIAL
    BY <2>1 DEF Given
  <2> QED
    BY <2>2 DEF GivenOf, Accounted
<1> QED
  BY <1>1, <1>2, <1>3 DEF WorkerStep, OperationStep, PhaseStep

-----------------------------------------------------------------------------
(* The history                                                             *)

\* A transaction that has committed is in writePhase or over.
LEMMA IdsStep ==
  ASSUME Base, NEW w \in Workers, WorkerStep(w), Ids
  PROVE  Ids'
<1>0. /\ TypeOK /\ Place /\ commits \in Seq(CommitTypes) /\ done \in [Workers -> Nat]
      /\ pc \in [Workers -> Pcs]
  BY BaseParts DEF TypeOK, WorkerTypes
<1>1. /\ Txs \subseteq Txs' /\ \A j \in Txs : commits'[j] = commits[j]
      /\ done' = done \/ done' = [done EXCEPT ![w] = done[w] + 1]
  BY <1>0, CommitsGrow, OwnStep
<1>2. ASSUME NEW j \in Txs
      PROVE  /\ commits[j].id \in Workers \X Nat /\ commits[j].id[1] \in Workers
             /\ commits[j].id[2] \in Nat
  <2>1. commits[j] \in CommitTypes
    BY <1>0 DEF Txs
  <2> QED
    BY <2>1 DEF CommitTypes
<1>3. pc[w] \in {"write", "writing"} =>
        \/ pc'[w] \in {"write", "writing"} /\ done' = done
        \/ done' = [done EXCEPT ![w] = done[w] + 1]
  <2>1. HAVE pc[w] \in {"write", "writing"}
  <2>2. WriteBody(w) \/ StoreTid(w) \/ WriteDone(w)
    BY <2>1, Zenon DEF WorkerStep, Begin, Insert, Write, Delete, Read, LoadTid, Recheck, ReadBody, Scan,
         ScanRecord, ScanBodies, StartValidation, LockOne, UnlockLoad, UnlockStore, Unlocked,
         TakeEpoch, ValidateOne, Commit, WriteBody, StoreTid, WriteDone, RemoveInserted,
         AbortDone, Doing
  <2> QED
    BY <1>0, <2>2, Zenon DEF WriteBody, StoreTid, WriteDone, Goto, NextTransaction
<1>4. ASSUME NEW j \in Txs
      PROVE  /\ commits'[j].id[1] \in Workers
             /\ \/ commits'[j].id[2] <= done'[commits'[j].id[1]]
                \/ /\ commits'[j].id[2] = done'[commits'[j].id[1]] + 1
                   /\ pc'[commits'[j].id[1]] \in {"write", "writing"}
  <2>1. PICK u \in Workers, n \in Nat : u = commits[j].id[1] /\ n = commits[j].id[2]
    BY <1>2
  <2>2. n <= done[u] \/ (n = done[u] + 1 /\ pc[u] \in {"write", "writing"})
    BY <2>1 DEF Ids
  <2>3. n <= done'[u] \/ (n = done'[u] + 1 /\ pc'[u] \in {"write", "writing"})
    <3>1. CASE u # w
      BY <2>2, <3>1, FreshOthers
    <3>2. CASE u = w
      BY <1>0, <1>1, <1>3, <2>2, <3>2
    <3> QED
      BY <3>1, <3>2
  <2> QED
    BY <1>1, <2>1, <2>3
<1>5. CASE commits' = commits
  <2>1. Txs' = Txs
    BY <1>5 DEF Txs
  <2> QED
    BY <1>4, <1>5, <2>1 DEF Ids
<1>6. CASE commits' # commits
  <2>1. PICK c : c.id = Me(w) /\ commits' = Append(commits, c) /\ Commit(w)
    BY <1>0, <1>6, CommitsAre
  <2>2. pc[w] = "validate" /\ pc'[w] = "write" /\ done' = done
    BY <1>0, <2>1, CommitView
  <2>3. PICK n : n = Len(commits) + 1
    OBVIOUS
  <2>4. n \in Txs' /\ Txs' = Txs \cup {n} /\ commits'[n] = c
    BY <1>0, <2>1, <2>3 DEF Txs
  <2>5. commits'[n].id = <<w, done[w] + 1>>
    BY <2>1, <2>4 DEF Me
  <2>6. ASSUME NEW j \in Txs PROVE commits'[j].id # commits'[n].id
    <3>1. CASE commits[j].id[1] = w
      <4>1. commits[j].id[2] <= done[w] /\ done[w] \in Nat
        BY <1>0, <2>2, <3>1 DEF Ids
      <4> QED
        BY <1>1, <1>2, <2>5, <4>1
    <3>2. CASE commits[j].id[1] # w
      BY <1>1, <2>5, <3>2
    <3> QED
      BY <3>1, <3>2
  <2>7. /\ commits'[n].id[1] \in Workers
        /\ commits'[n].id[2] = done'[commits'[n].id[1]] + 1
        /\ pc'[commits'[n].id[1]] \in {"write", "writing"}
    BY <2>2, <2>5
  <2>8. \A i, j \in Txs : commits'[i].id = commits'[j].id => i = j
    BY <1>1 DEF Ids
  <2>9. \A i, j \in Txs' : commits'[i].id = commits'[j].id => i = j
    BY <2>4, <2>6, <2>8
  <2> QED
    BY <1>4, <2>4, <2>7, <2>9 DEF Ids
<1> QED
  BY <1>5, <1>6

\* What a transaction has read when it commits is committed, with an older TID.
LEMMA HistoryStep ==
  ASSUME Base, NEW w \in Workers, WorkerStep(w), History, ValidatedOf(w), GivenOf(w)
  PROVE  History'
<1>0. /\ TypeOK /\ Place /\ commits \in Seq(CommitTypes)
      /\ tx[w].rset \in Seq(ReadEntries) /\ tx[w].itr \in Nat /\ tx[w].maxR \in Tids
  BY BaseParts, Typed, TxFields DEF TypeOK
<1>1. Txs \subseteq Txs' /\ \A j \in Txs : commits'[j] = commits[j] /\ commits[j].tid \in Tids
  BY <1>0, CommitsGrow
<1>2. ASSUME NEW j \in Txs, NEW r \in commits'[j].reads
      PROVE  \/ r[2] = INITIAL \/ r[2] = commits'[j].id
             \/ \E i \in Txs' : commits'[i].id = r[2] /\ Newer(commits'[j].tid, commits'[i].tid)
  BY <1>1, <1>2 DEF History
<1>3. CASE commits' = commits
  <2>1. Txs' = Txs
    BY <1>3 DEF Txs
  <2> QED
    BY <1>2, <2>1 DEF History
<1>4. CASE commits' # commits
  <2>1. PICK c : /\ c.id = Me(w) /\ c.tid = CommitTid(w) /\ c.reads = tx[w].reads
                 /\ commits' = Append(commits, c) /\ Commit(w)
    BY <1>0, <1>4, CommitsAre
  <2>2. pc[w] = "validate" /\ tx[w].itr > Len(tx[w].rset) /\ CommitTid(w) \in Tids
    BY <1>0, <2>1, CommitView DEF Commit
  <2>3. PICK n : n = Len(commits) + 1
    OBVIOUS
  <2>4. n \in Txs' /\ Txs' = Txs \cup {n} /\ commits'[n] = c
    BY <1>0, <2>1, <2>3 DEF Txs
  <2>5. ASSUME NEW r \in tx[w].reads
        PROVE  \/ r[2] = INITIAL \/ r[2] = c.id
               \/ \E i \in Txs' : commits'[i].id = r[2] /\ Newer(c.tid, commits'[i].tid)
    <3>1. PICK b : b = r[2]
      OBVIOUS
    <3>2. Accounted(w, b)
      BY <2>2, <3>1 DEF GivenOf, Given
    <3>3. CASE b = INITIAL \/ b = Me(w)
      BY <2>1, <3>1, <3>3
    <3>4. ASSUME NEW i \in 1 .. Len(tx[w].rset), Wrote(b, tx[w].rset[i].tid)
          PROVE  \E j \in Txs' : commits'[j].id = b /\ Newer(c.tid, commits'[j].tid)
      <4>0. tx[w].rset[i] \in ReadEntries
        BY <1>0
      <4>1. PICK t \in Tids : t = tx[w].rset[i].tid
        BY <4>0 DEF ReadEntries
      <4>2. PICK j \in Txs : commits[j].id = b /\ ~Newer(commits[j].tid, t)
        BY <3>4, <4>1 DEF Wrote
      <4>3. ~Newer(t, tx[w].maxR)
        <5>1. i < tx[w].itr
          BY <1>0, <2>2
        <5> QED
          BY <2>2, <4>1, <5>1 DEF ValidatedOf
      <4>4. PICK s \in Tids : s = commits[j].tid
        BY <1>1
      <4>5. ~Newer(s, tx[w].maxR)
        BY <1>0, <4>2, <4>3, <4>4, NewerTransitive
      <4>6. Newer(CommitTid(w), tx[w].maxR)
        BY <1>0, CommitTidIsNewer
      <4>7. PICK m \in Tids : m = CommitTid(w)
        BY <2>2
      <4>8. Newer(m, s)
        BY <1>0, <4>5, <4>6, <4>7 DEF Newer, Tids
      <4> QED
        BY <1>1, <2>1, <4>2, <4>4, <4>7, <4>8
    <3>5. \/ b = INITIAL \/ b = Me(w)
          \/ \E i \in 1 .. Len(tx[w].rset) : i >= tx[w].itr \/ Wrote(b, tx[w].rset[i].tid)
      BY <3>2 DEF Accounted
    <3>6. \A i \in 1 .. Len(tx[w].rset) : ~(i >= tx[w].itr)
      BY <1>0, <2>2
    <3> QED
      BY <3>1, <3>3, <3>4, <3>5, <3>6
  <2>6. ASSUME NEW j \in Txs', NEW r \in commits'[j].reads
        PROVE  \/ r[2] = INITIAL \/ r[2] = commits'[j].id
               \/ \E i \in Txs' : commits'[i].id = r[2] /\ Newer(commits'[j].tid, commits'[i].tid)
    <3>1. CASE j \in Txs
      BY <1>2, <2>6, <3>1
    <3>2. CASE j = n
      <4>1. commits'[j] = c /\ r \in tx[w].reads
        BY <2>1, <2>4, <2>6, <3>2
      <4> QED
        BY <2>5, <4>1
    <3> QED
      BY <2>4, <3>1, <3>2
  <2> QED
    BY <2>6 DEF History
<1> QED
  BY <1>3, <1>4

-----------------------------------------------------------------------------
(* Theorems                                                                *)

\* Every step keeps the invariant.
LEMMA RInvStep ==
  ASSUME Base, RInv, [Next]_vars
  PROVE  RInv'
<1>1. CASE EpochAdvance \/ UNCHANGED vars
  <2>1. /\ load' = load /\ pc' = pc /\ done' = done /\ tx' = tx /\ tree' = tree /\ tidword' = tidword
        /\ body' = body /\ commits' = commits
    BY <1>1 DEF EpochAdvance, vars, store
  <2>2. Versions' /\ Ids' /\ History'
    BY <2>1 DEF RInv, Versions, Ids, History, Settled, Fresh, Kept, Wrote, Torn, Txs
  <2>3. ASSUME NEW w \in Workers PROVE ReaderInv(w)'
    <3>1. ReaderInv(w)
      BY DEF RInv
    <3>2. SightsOf(w)'
      BY <2>1, <3>1 DEF ReaderInv, SightsOf, Sighted, KeyOf, Program
    <3>3. EntriesOf(w)'
      <4>1. \A v : Settled(v)' = Settled(v)
        BY <2>1 DEF Settled, Fresh, Kept
      <4>2. Fresh(w)' = Fresh(w)
        BY <2>1 DEF Fresh, Kept
      <4> QED
        BY <2>1, <3>1, <4>1, <4>2, Zenon DEF ReaderInv, EntriesOf, Entry
    <3>4. FreshOf(w)' /\ WritingOf(w)' /\ ValidatedOf(w)'
      BY <2>1, <3>1 DEF ReaderInv, FreshOf, Fresh, Kept, Me, WritingOf, Wrote, Txs, ValidatedOf
    <3>5. GivenOf(w)'
      <4>1. Given(w)' = Given(w)
        BY <2>1 DEF Given
      <4> QED
        BY <2>1, <3>1, <4>1 DEF ReaderInv, GivenOf, Accounted, Me, Stale, Overwrites, Wrote, Txs
    <3> QED
      BY <3>2, <3>3, <3>4, <3>5 DEF ReaderInv
  <2> QED
    BY <2>2, <2>3 DEF RInv
<1>2. ASSUME NEW w \in Workers, WorkerStep(w) PROVE RInv'
  <2>0. /\ Versions /\ Ids /\ History
        /\ \A u \in Workers : SightsOf(u) /\ EntriesOf(u) /\ FreshOf(u) /\ WritingOf(u)
                              /\ ValidatedOf(u) /\ GivenOf(u)
    BY DEF RInv, ReaderInv
  <2>1. Versions'
    BY <1>2, <2>0, VersionsStep
  <2>2. Ids'
    BY <1>2, <2>0, IdsStep
  <2>3. History'
    BY <1>2, <2>0, HistoryStep
  <2>4. ReaderInv(w)'
    <3>1. SightsOf(w)' /\ EntriesOf(w)'
      BY <1>2, <2>0, SightsOwn, EntriesOwn
    <3>2. FreshOf(w)' /\ WritingOf(w)' /\ ValidatedOf(w)'
      BY <1>2, <2>0, FreshOwn, WritingOwn, ValidatedOwn
    <3>3. GivenOf(w)'
      BY <1>2, <2>0, GivenOwn
    <3> QED
      BY <3>1, <3>2, <3>3 DEF ReaderInv
  <2>5. ASSUME NEW u \in Workers, u # w PROVE ReaderInv(u)'
    <3>1. SightsOf(u)' /\ EntriesOf(u)'
      BY <1>2, <2>0, <2>5, SightsOther, EntriesOther
    <3>2. FreshOf(u)' /\ WritingOf(u)' /\ ValidatedOf(u)'
      BY <1>2, <2>0, <2>5, FreshOther, WritingOther, ValidatedOther
    <3>3. GivenOf(u)'
      BY <1>2, <2>0, <2>5, GivenOther
    <3> QED
      BY <3>1, <3>2, <3>3 DEF ReaderInv
  <2> QED
    BY <2>1, <2>2, <2>3, <2>4, <2>5 DEF RInv
<1> QED
  BY <1>1, <1>2 DEF Next

\* Nothing is read or committed at the start.
LEMMA InitRInv == Init => RInv
<1> SUFFICES ASSUME Init PROVE RInv
  OBVIOUS
<1>0. /\ pc = [w \in Workers |-> "retry"] /\ tx = [w \in Workers |-> NewTx]
      /\ body = [v \in Values |-> INITIAL] /\ commits = <<>>
  BY DEF Init
<1>1. Txs = {}
  BY <1>0 DEF Txs
<1>2. Versions /\ Ids /\ History
  BY <1>0, <1>1 DEF Versions, Ids, History
<1>3. ASSUME NEW w \in Workers PROVE ReaderInv(w)
  <2>1. /\ pc[w] = "retry" /\ tx[w].scan = <<>> /\ tx[w].rset = <<>> /\ tx[w].wset = <<>>
    BY <1>0 DEF NewTx
  <2>2. Fresh(w) = {}
    BY <2>1 DEF Fresh, Inserted
  <2>3. SightsOf(w) /\ EntriesOf(w)
    BY <2>1 DEF SightsOf, EntriesOf
  <2>4. FreshOf(w) /\ WritingOf(w) /\ ValidatedOf(w) /\ GivenOf(w)
    BY <2>1, <2>2 DEF FreshOf, WritingOf, ValidatedOf, GivenOf, Operating
  <2> QED
    BY <2>3, <2>4 DEF ReaderInv
<1> QED
  BY <1>2, <1>3 DEF RInv

\* What a transaction was given is committed, its own, or of a version that validationPhase
\* will reject, in every state of a workload without write-write conflicts.
THEOREM ReadInvariance ==
  ASSUME \A ld \in Loads : NoConflicts(ld)
  PROVE  Spec => []RInv
<1>1. Init => RInv
  BY InitRInv
<1>2. RInv /\ (TInv /\ LInv) /\ [Next]_vars => RInv'
  BY RInvStep DEF Base, TInv
<1>3. Spec => [](TInv /\ LInv)
  BY LockInvariance
<1> QED
  BY <1>1, <1>2, <1>3, PTL DEF Spec

\* No committed transaction has read a body that was being assigned or that nobody
\* committed, although read and scan take the body after their last look at the TID word
\* (read_internal, validationPhase).
THEOREM ReadsAreClean ==
  ASSUME \A ld \in Loads : NoConflicts(ld)
  PROVE  Spec => []CleanReads
<1>1. RInv => CleanReads
  BY DEF RInv, History, CleanReads
<1> QED
  BY <1>1, ReadInvariance, PTL

\* A transaction's TID is newer than that of any version it read (writePhase [a]).
THEOREM TidsInOrder ==
  ASSUME \A ld \in Loads : NoConflicts(ld)
  PROVE  Spec => []TidOrder
<1>1. TInv /\ RInv => TidOrder
  <2> SUFFICES ASSUME TInv, RInv, NEW i \in Txs, NEW j \in Txs, i # j, WR(i, j)
               PROVE  Newer(commits[j].tid, commits[i].tid)
    BY DEF TidOrder
  <2>1. PICK r \in commits[j].reads : r[2] = commits[i].id
    BY DEF WR
  <2>2. commits[i].id # INITIAL
    <3>1. commits \in Seq(CommitTypes)
      BY DEF TInv, TypeOK
    <3>2. commits[i] \in CommitTypes
      BY <3>1 DEF Txs
    <3>3. commits[i].id \in Workers \X Nat
      BY <3>2 DEF CommitTypes
    <3>4. commits[i].id[1] >= 0
      BY <3>3, TxAssumption DEF Workers
    <3>5. INITIAL[1] = -1
      BY DEF INITIAL
    <3> QED
      BY <3>4, <3>5
  <2>3. commits[i].id # commits[j].id
    BY DEF RInv, Ids
  <2>4. PICK n \in Txs : commits[n].id = r[2] /\ Newer(commits[j].tid, commits[n].tid)
    BY <2>1, <2>2, <2>3 DEF RInv, History
  <2>5. n = i
    BY <2>1, <2>4 DEF RInv, Ids
  <2> QED
    BY <2>4, <2>5
<1>2. Spec => []TInv
  BY TypedInvariance
<1> QED
  BY <1>1, <1>2, ReadInvariance, PTL
=============================================================================
