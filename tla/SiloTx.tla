------------------------------- MODULE SiloTx -------------------------------
(***************************************************************************)
(* Optimistic concurrency control: TxExecutor of silo_transaction.cpp as   *)
(* execute_transaction of cassa_server.cpp drives it.  Every load, CAS and *)
(* store of a TID word that another worker can see is a step of its own.   *)
(*                                                                         *)
(* A worker runs a list of transactions; a transaction is a sequence of    *)
(* operations [op, key].  The body of a record is the id <<worker, number>>*)
(* of the transaction that wrote it.  Masstree is a map with atomic get,   *)
(* insert, remove and scan; the epoch steps are the atomic ones of EpochSync;    *)
(* wal is the subject of SiloLog.  The initial state is the one recovery   *)
(* leaves: its records have TID word 0.                                    *)
(***************************************************************************)
EXTENDS Integers, Sequences, FiniteSets

CONSTANTS NW,        \* worker threads 0 .. NW-1, worker 0 is the epoch leader
          Keys,      \* the keys, natural numbers in their order
          Existing,  \* the keys with a record at the start
          Loads,     \* possible inputs: for every worker a list of transactions
          MaxEpoch   \* bound on GlobalEpoch

Workers == 0 .. NW-1
Leader == 0

\* A scan reads the keys from key to to: a range with its bounds left out is
\* that of the keys next to them.
Ops == [op : {"INSERT", "READ", "WRITE", "DELETE"}, key : Keys]
       \cup [op : {"SCAN"}, key : Keys, to : Keys]

ASSUME TxAssumption ==
    /\ NW \in Nat \ {0}
    /\ Keys \subseteq Nat /\ IsFiniteSet(Keys)
    /\ Existing \subseteq Keys
    /\ MaxEpoch \in Nat
    /\ \A load \in Loads : \A w \in Workers : load[w] \in Seq(Seq(Ops))

\* A Value is known by its key and by who allocated it; memory of a Value freed by
\* a worker's abort serves its next insert of that key.
Recovered == -1
NULL == <<>>
Values == Keys \X (Workers \cup {Recovered})

\* Record bodies besides transaction ids.
INITIAL == <<-1, 0>>
TORN == <<-1, 1>>      \* while body_ is being assigned
EMPTY == <<-1, 2>>     \* the string that no body was assigned to

VARIABLES GlobalEpoch, ThLocalEpoch,
          load,      \* the input of this behaviour
          pc,        \* per worker: the next step
          done,      \* per worker: the transactions finished
          tx,        \* per worker: TxExecutor, see NewTx
          mrctid,    \* per worker: mrctid_, its most recent TID
          tree,      \* Masstree: the Value of a key or NULL
          tidword,   \* per Value: tidword_
          body,      \* per Value: body_
          freed,     \* Values that were deleted
          commits    \* history: the committed transactions in the order of wal

epochVars == <<GlobalEpoch, ThLocalEpoch>>
store == <<tree, tidword, body, freed>>
vars == <<epochVars, load, pc, done, tx, mrctid, store, commits>>

Tid(e, t, a, l) == [epoch |-> e, tid |-> t, absent |-> a, lock |-> l]
ZeroTid == Tid(0, 0, FALSE, FALSE)

\* The order of TIDword::operator< on the epoch, TID and absent fields.
Less(a, b) ==
    \/ a.epoch < b.epoch
    \/ a.epoch = b.epoch /\ a.tid < b.tid
    \/ a.epoch = b.epoch /\ a.tid = b.tid /\ ~a.absent /\ b.absent

MaxTid(a, b) == IF Less(a, b) THEN b ELSE a
Newer(a, b) == a.epoch > b.epoch \/ (a.epoch = b.epoch /\ a.tid > b.tid)

Least(S) == CHOOSE x \in S : \A y \in S : x <= y

\* begin: read_set_ is a sequence, write_set_ a map from keys; todo and itr drive
\* the loops over them, after is where unlockWriteSet returns to, scan is what is
\* left of scan_result and bodies the part of read_set_ that was there before it.
\* What the client is given is kept as reads, bodies taken from records or from the
\* write set, and rereads, read_value as an earlier read left it.
NewTx == [ip |-> 1, found |-> NULL, expected |-> ZeroTid, readValue |-> EMPTY,
          scan |-> <<>>, bodies |-> 0, reads |-> {}, rereads |-> {}, rset |-> <<>>, wset |-> <<>>, todo |-> {}, itr |-> 1,
          after |-> "none", maxR |-> ZeroTid, maxW |-> ZeroTid, maxtid |-> ZeroTid,
          conflict |-> FALSE, failed |-> FALSE]

Init ==
    /\ GlobalEpoch = 1
    /\ ThLocalEpoch = [w \in Workers |-> 0]
    /\ load \in Loads
    /\ pc = [w \in Workers |-> "retry"]
    /\ done = [w \in Workers |-> 0]
    /\ tx = [w \in Workers |-> NewTx]
    /\ mrctid = [w \in Workers |-> ZeroTid]
    /\ tree = [k \in Keys |-> IF k \in Existing THEN <<k, Recovered>> ELSE NULL]
    /\ tidword = [v \in Values |-> ZeroTid]
    /\ body = [v \in Values |-> INITIAL]
    /\ freed = {}
    /\ commits = <<>>

Me(w) == <<w, done[w] + 1>>
Program(w) == load[w][done[w] + 1]
Goto(w, label) == pc' = [pc EXCEPT ![w] = label]
InWriteSet(w, k) == k \in DOMAIN tx[w].wset
ReadsOf(w, k) == {i \in 1 .. Len(tx[w].rset) : tx[w].rset[i].key = k}

\* The records of the write set that lockWriteSet and unlockWriteSet touch.
Lockable(wset) == {k \in DOMAIN wset : wset[k].op # "INSERT"}
Inserted(wset) == {k \in DOMAIN wset : wset[k].op = "INSERT"}

-----------------------------------------------------------------------------
(* Epochs                                                                  *)

EpochAdvance ==
    /\ pc[Leader] \in {"retry", "idle"}
    /\ GlobalEpoch < MaxEpoch
    /\ \A w \in Workers : \/ ThLocalEpoch[w] = GlobalEpoch
                          \/ w = Leader /\ GlobalEpoch = 1 /\ ThLocalEpoch[w] = 0
    /\ GlobalEpoch' = GlobalEpoch + 1
    /\ UNCHANGED <<ThLocalEpoch, load, pc, done, tx, mrctid, store, commits>>

\* durableEpochWork and begin, or the main loop when nothing is left to do.
Begin(w) ==
    /\ pc[w] \in {"retry", "idle"}
    /\ ThLocalEpoch' = [ThLocalEpoch EXCEPT ![w] = GlobalEpoch]
    /\ IF done[w] < Len(load[w])
       THEN Goto(w, "op") /\ tx' = [tx EXCEPT ![w] = NewTx]
       ELSE Goto(w, "idle") /\ UNCHANGED tx
    /\ UNCHANGED <<GlobalEpoch, load, done, mrctid, store, commits>>

-----------------------------------------------------------------------------
(* Operations: execute_transaction's loop over pro_set_                    *)

\* The next operation is op.
Doing(w, op) ==
    /\ pc[w] = "op"
    /\ tx[w].ip <= Len(Program(w))
    /\ Program(w)[tx[w].ip].op = op

KeyOf(w) == Program(w)[tx[w].ip].key

\* The operation returned a warning: abort, and no retry.
OpFails(w) ==
    /\ tx' = [tx EXCEPT ![w].failed = TRUE, ![w].todo = Inserted(tx[w].wset)]
    /\ Goto(w, "abort")

AddWrite(t, k, v, op) ==
    [t EXCEPT !.wset = [j \in DOMAIN @ \cup {k} |-> IF j = k THEN [v |-> v, op |-> op] ELSE @[j]],
              !.ip = @ + 1]

\* get_value and insert_value: whichever of them finds the key reports it.
Insert(w) ==
    LET k == KeyOf(w)
        v == <<k, w>>
        locked == Tid(0, 0, TRUE, TRUE)
    IN
    /\ Doing(w, "INSERT")
    /\ \/ /\ InWriteSet(w, k) \/ tree[k] # NULL
          /\ OpFails(w)
          /\ UNCHANGED store
       \/ /\ ~InWriteSet(w, k) /\ tree[k] = NULL
          /\ tree' = [tree EXCEPT ![k] = v]
          /\ tidword' = [tidword EXCEPT ![v] = locked]
          /\ body' = [body EXCEPT ![v] = Me(w)]
          /\ freed' = freed \ {v}
          /\ tx' = [tx EXCEPT ![w] =
                      [AddWrite(tx[w], k, v, "INSERT") EXCEPT
                         !.rset = Append(@, [op |-> "READ", key |-> k, v |-> v, tid |-> locked])]]
          /\ UNCHANGED pc
    /\ UNCHANGED <<epochVars, load, done, mrctid, commits>>

\* write and tx_delete: the Value of the read set, or else of the tree.
LookUp(w, k) ==
    IF ReadsOf(w, k) # {} THEN tx[w].rset[Least(ReadsOf(w, k))].v ELSE tree[k]

\* Faulty form: a key that is not found is not reported.
Write_NoCheck(w) ==
    LET k == KeyOf(w) IN
    /\ Doing(w, "WRITE")
    /\ tx' = [tx EXCEPT ![w] = AddWrite(@, k, LookUp(w, k), "WRITE")]
    /\ UNCHANGED <<epochVars, load, pc, done, mrctid, store, commits>>

\* A key that is already in the write set keeps its first entry.
Write(w) ==
    LET k == KeyOf(w) IN
    /\ Doing(w, "WRITE")
    /\ \/ /\ InWriteSet(w, k)
          /\ tx' = [tx EXCEPT ![w].ip = @ + 1]
          /\ UNCHANGED pc
       \/ /\ ~InWriteSet(w, k) /\ LookUp(w, k) # NULL
          /\ tx' = [tx EXCEPT ![w] = AddWrite(@, k, LookUp(w, k), "WRITE")]
          /\ UNCHANGED pc
       \/ /\ ~InWriteSet(w, k) /\ LookUp(w, k) = NULL
          /\ OpFails(w)
    /\ UNCHANGED <<epochVars, load, done, mrctid, store, commits>>

Delete(w) ==
    LET k == KeyOf(w) IN
    /\ Doing(w, "DELETE")
    /\ \/ /\ InWriteSet(w, k) /\ tx[w].wset[k].op # "INSERT"
          /\ tx' = [tx EXCEPT ![w].ip = @ + 1]
          /\ UNCHANGED pc
       \/ /\ ~InWriteSet(w, k) /\ LookUp(w, k) # NULL
          /\ tx' = [tx EXCEPT ![w] = AddWrite(@, k, LookUp(w, k), "DELETE")]
          /\ UNCHANGED pc
       \/ /\ IF InWriteSet(w, k) THEN tx[w].wset[k].op = "INSERT" ELSE LookUp(w, k) = NULL
          /\ OpFails(w)
    /\ UNCHANGED <<epochVars, load, done, mrctid, store, commits>>

\* What the client is given for key k.
Report(t, k, value) ==
    [t EXCEPT !.reads = @ \cup {<<k, value>>}, !.readValue = value, !.ip = @ + 1]

\* read: for a key of the read or write set nothing is assigned, and the client is
\* given whatever the variable read_value of execute_transaction holds.
Read(w) ==
    LET k == KeyOf(w) IN
    /\ Doing(w, "READ")
    /\ \/ /\ ReadsOf(w, k) # {} \/ InWriteSet(w, k)
          /\ tx' = [tx EXCEPT ![w].rereads = @ \cup {<<k, tx[w].readValue>>}, ![w].ip = @ + 1]
          /\ UNCHANGED pc
       \/ /\ ReadsOf(w, k) = {} /\ ~InWriteSet(w, k) /\ tree[k] # NULL
          /\ tx' = [tx EXCEPT ![w].found = tree[k]]
          /\ Goto(w, "load")
       \/ /\ ReadsOf(w, k) = {} /\ ~InWriteSet(w, k) /\ tree[k] = NULL
          /\ OpFails(w)
    /\ UNCHANGED <<epochVars, load, done, mrctid, store, commits>>

\* With tid as expected: not found if absent, which a scan passes over, else the
\* TID word is checked again.
Expect(w, tid) ==
    IF tid.absent
    THEN IF tx[w].scan = <<>>
         THEN OpFails(w)
         ELSE tx' = [tx EXCEPT ![w].scan = Tail(@)] /\ Goto(w, "scan")
    ELSE tx' = [tx EXCEPT ![w].expected = tid] /\ Goto(w, "recheck")

\* read_internal (a): spin until the lock is clear.
LoadTid(w) ==
    LET tid == tidword[tx[w].found] IN
    /\ pc[w] = "load"
    /\ ~tid.lock
    /\ Expect(w, tid)
    /\ UNCHANGED <<epochVars, load, done, mrctid, store, commits>>

\* read_internal (e): an equal word ends the loop, another one starts it again.
Recheck(w) ==
    LET check == tidword[tx[w].found]
        entry(k) == [op |-> "READ", key |-> k, v |-> tx[w].found, tid |-> check]
    IN
    /\ pc[w] = "recheck"
    /\ \/ /\ check = tx[w].expected
          /\ IF tx[w].scan = <<>>
             THEN /\ tx' = [tx EXCEPT ![w].rset = Append(@, entry(KeyOf(w)))]
                  /\ Goto(w, "body")
             ELSE /\ tx' = [tx EXCEPT ![w].rset = Append(@, entry(Head(tx[w].scan)[1])),
                                      ![w].scan = Tail(@)]
                  /\ Goto(w, "scan")
       \/ /\ check # tx[w].expected /\ check.lock
          /\ Goto(w, "load")
          /\ UNCHANGED tx
       \/ /\ check # tx[w].expected /\ ~check.lock
          /\ Expect(w, check)
    /\ UNCHANGED <<epochVars, load, done, mrctid, store, commits>>

\* The body is read only now, after the second look at the TID word.
ReadBody(w) ==
    /\ pc[w] = "body"
    /\ tx' = [tx EXCEPT ![w] = Report(@, KeyOf(w), body[@.found])]
    /\ Goto(w, "op")
    /\ UNCHANGED <<epochVars, load, done, mrctid, store, commits>>

\* masstree.scan: the records in the range, in the order of their keys.
InOrder(S) == CHOOSE q \in [1 .. Cardinality(S) -> S] :
                  \A i, j \in DOMAIN q : i < j => q[i][1] < q[j][1]

Scan(w) ==
    LET from == KeyOf(w)
        to == Program(w)[tx[w].ip].to
    IN
    /\ Doing(w, "SCAN")
    /\ tx' = [tx EXCEPT ![w].scan = InOrder({<<k, tree[k]>> : k \in {j \in Keys :
                                         from <= j /\ j <= to /\ tree[j] # NULL}}),
                        ![w].bodies = Len(tx[w].rset)]
    /\ Goto(w, "scan")
    /\ UNCHANGED <<epochVars, load, done, mrctid, store, commits>>

\* One record of scan_result: that of the read set, the new one of the write set,
\* or else read_internal.
ScanRecord(w) ==
    LET k == Head(tx[w].scan)[1]
        Take(value) == tx' = [tx EXCEPT ![w].scan = Tail(@), ![w].reads = @ \cup {<<k, value>>}]
    IN
    /\ pc[w] = "scan"
    /\ tx[w].scan # <<>>
    /\ \/ /\ ReadsOf(w, k) # {}
          /\ Take(body[LookUp(w, k)])
          /\ UNCHANGED pc
       \/ /\ ReadsOf(w, k) = {} /\ InWriteSet(w, k)
          /\ Take(Me(w))
          /\ UNCHANGED pc
       \/ /\ ReadsOf(w, k) = {} /\ ~InWriteSet(w, k)
          /\ tx' = [tx EXCEPT ![w].found = Head(tx[w].scan)[2]]
          /\ Goto(w, "load")
    /\ UNCHANGED <<epochVars, load, done, mrctid, store, commits>>

\* The bodies of the records that read_internal added are read after all of them.
ScanBodies(w) ==
    /\ pc[w] = "scan"
    /\ tx[w].scan = <<>>
    /\ IF tx[w].bodies < Len(tx[w].rset)
       THEN LET r == tx[w].rset[tx[w].bodies + 1]
            IN  /\ tx' = [tx EXCEPT ![w].bodies = @ + 1, ![w].reads = @ \cup {<<r.key, body[r.v]>>}]
                /\ UNCHANGED pc
       ELSE tx' = [tx EXCEPT ![w].ip = @ + 1] /\ Goto(w, "op")
    /\ UNCHANGED <<epochVars, load, done, mrctid, store, commits>>

-----------------------------------------------------------------------------
(* validationPhase                                                         *)

\* Phase 1: the write set is locked in the order of its keys.
StartValidation(w) ==
    /\ pc[w] = "op"
    /\ tx[w].ip > Len(Program(w))
    /\ tx' = [tx EXCEPT ![w].todo = Lockable(tx[w].wset)]
    /\ Goto(w, "lock")
    /\ UNCHANGED <<epochVars, load, done, mrctid, store, commits>>

\* lockWriteSet for one record: load and CAS.  A locked record is a conflict: what
\* was locked so far is unlocked and lockWriteSet returns, validationPhase goes on.
LockOne(w) ==
    LET k == Least(tx[w].todo)
        v == tx[w].wset[k].v
        sofar == {j \in Lockable(tx[w].wset) : j < k}
    IN
    /\ pc[w] = "lock"
    /\ tx[w].todo # {}
    /\ \/ /\ tidword[v].lock
          /\ tx' = [tx EXCEPT ![w].conflict = TRUE, ![w].todo = sofar, ![w].after = "epoch"]
          /\ Goto(w, "unlock")
          /\ UNCHANGED tidword
       \/ /\ ~tidword[v].lock
          /\ tidword' = [tidword EXCEPT ![v].lock = TRUE]
          /\ tx' = [tx EXCEPT ![w].todo = @ \ {k}, ![w].maxW = MaxTid(@, tidword[v])]
          /\ UNCHANGED pc
    /\ UNCHANGED <<epochVars, load, done, mrctid, tree, body, freed, commits>>

\* unlockWriteSet for one record is a load and then a store.
UnlockLoad(w) ==
    /\ pc[w] = "unlock"
    /\ tx[w].todo # {}
    /\ tx' = [tx EXCEPT ![w].expected = tidword[tx[w].wset[Least(tx[w].todo)].v]]
    /\ Goto(w, "unlockstore")
    /\ UNCHANGED <<epochVars, load, done, mrctid, store, commits>>

\* Faulty form: the word is built anew and not from the one loaded.
UnlockStore_Zero(w) ==
    LET k == Least(tx[w].todo) IN
    /\ pc[w] = "unlockstore"
    /\ tidword' = [tidword EXCEPT ![tx[w].wset[k].v] = ZeroTid]
    /\ tx' = [tx EXCEPT ![w].todo = @ \ {k}]
    /\ Goto(w, "unlock")
    /\ UNCHANGED <<epochVars, load, done, mrctid, tree, body, freed, commits>>

UnlockStore(w) ==
    LET k == Least(tx[w].todo) IN
    /\ pc[w] = "unlockstore"
    /\ tidword' = [tidword EXCEPT ![tx[w].wset[k].v] = [tx[w].expected EXCEPT !.lock = FALSE]]
    /\ tx' = [tx EXCEPT ![w].todo = @ \ {k}]
    /\ Goto(w, "unlock")
    /\ UNCHANGED <<epochVars, load, done, mrctid, tree, body, freed, commits>>

Unlocked(w) ==
    /\ pc[w] = "unlock"
    /\ tx[w].todo = {}
    /\ tx' = [tx EXCEPT ![w].todo = IF tx[w].after = "abort" THEN Inserted(tx[w].wset) ELSE {}]
    /\ Goto(w, IF tx[w].after = "abort" THEN "abort" ELSE "lock")
    /\ UNCHANGED <<epochVars, load, done, mrctid, store, commits>>

\* Faulty form: the epoch of durableEpochWork is kept.
TakeEpoch_Skipped(w) ==
    /\ pc[w] = "lock"
    /\ tx[w].todo = {}
    /\ Goto(w, "validate")
    /\ UNCHANGED <<epochVars, load, done, tx, mrctid, store, commits>>

\* All locks are taken: the store of ThLocalEpoch between the phases.
TakeEpoch(w) ==
    /\ pc[w] = "lock"
    /\ tx[w].todo = {}
    /\ ThLocalEpoch' = [ThLocalEpoch EXCEPT ![w] = GlobalEpoch]
    /\ Goto(w, "validate")
    /\ UNCHANGED <<GlobalEpoch, load, done, tx, mrctid, store, commits>>

\* Faulty forms: one of the conditions is missing.
Rejected_IgnoresLock(w, r, check) == r.tid.epoch # check.epoch \/ r.tid.tid # check.tid
Rejected_IgnoresTid(w, r, check) ==
    r.tid.epoch # check.epoch \/ (check.lock /\ ~InWriteSet(w, r.key))

\* Phase 2: why a read is rejected when its TID word is now check.
Rejected(w, r, check) ==
    \/ r.op = "INSERT" /\ ~check.absent
    \/ r.tid.epoch # check.epoch
    \/ r.tid.tid # check.tid
    \/ check.lock /\ ~InWriteSet(w, r.key)

\* Faulty form: the return false without unlockWriteSet.
ValidateOne_NoUnlock(w) ==
    LET r == tx[w].rset[tx[w].itr]
        check == tidword[r.v]
    IN
    /\ pc[w] = "validate"
    /\ tx[w].itr <= Len(tx[w].rset)
    /\ \/ /\ Rejected(w, r, check)
          /\ tx' = [tx EXCEPT ![w].todo = Inserted(tx[w].wset)]
          /\ Goto(w, "abort")
       \/ /\ ~Rejected(w, r, check)
          /\ tx' = [tx EXCEPT ![w].itr = @ + 1, ![w].maxR = MaxTid(@, check)]
          /\ UNCHANGED pc
    /\ UNCHANGED <<epochVars, load, done, mrctid, store, commits>>

ValidateOne(w) ==
    LET r == tx[w].rset[tx[w].itr]
        check == tidword[r.v]
    IN
    /\ pc[w] = "validate"
    /\ tx[w].itr <= Len(tx[w].rset)
    /\ \/ /\ Rejected(w, r, check)
          /\ tx' = [tx EXCEPT ![w].todo = Lockable(tx[w].wset), ![w].after = "abort"]
          /\ Goto(w, "unlock")
       \/ /\ ~Rejected(w, r, check)
          /\ tx' = [tx EXCEPT ![w].itr = @ + 1, ![w].maxR = MaxTid(@, check)]
          /\ UNCHANGED pc
    /\ UNCHANGED <<epochVars, load, done, mrctid, store, commits>>

-----------------------------------------------------------------------------
(* writePhase and abort                                                    *)

NextTid(tid) == [tid EXCEPT !.tid = @ + 1, !.lock = FALSE]

\* Faulty forms: [a] or [c] is left out.
CommitTid_NoA(w) ==
    MaxTid(NextTid(mrctid[w]), Tid(ThLocalEpoch[w], 0, FALSE, FALSE))
CommitTid_NoC(w) ==
    MaxTid(NextTid(MaxTid(tx[w].maxR, tx[w].maxW)), NextTid(mrctid[w]))

\* writePhase [a], [b], [c].
CommitTid(w) ==
    MaxTid(MaxTid(NextTid(MaxTid(tx[w].maxR, tx[w].maxW)), NextTid(mrctid[w])),
           Tid(ThLocalEpoch[w], 0, FALSE, FALSE))

\* Phase 3, and writePhase up to wal.
Commit(w) ==
    /\ pc[w] = "validate"
    /\ tx[w].itr > Len(tx[w].rset)
    /\ tx' = [tx EXCEPT ![w].maxtid = CommitTid(w), ![w].todo = DOMAIN tx[w].wset]
    /\ mrctid' = [mrctid EXCEPT ![w] = CommitTid(w)]
    /\ commits' = Append(commits, [id |-> Me(w), tid |-> CommitTid(w),
                                   local |-> ThLocalEpoch[w], conflict |-> tx[w].conflict,
                                   reads |-> tx[w].reads, rereads |-> tx[w].rereads,
                                   writes |-> DOMAIN tx[w].wset])
    /\ Goto(w, "write")
    /\ UNCHANGED <<epochVars, load, done, store>>

\* A WRITE assigns body_, during which a reader may see anything.
WriteBody(w) ==
    LET k == Least(tx[w].todo) IN
    /\ pc[w] = "write"
    /\ tx[w].todo # {}
    /\ tx[w].wset[k].op = "WRITE"
    /\ body' = [body EXCEPT ![tx[w].wset[k].v] = TORN]
    /\ Goto(w, "writing")
    /\ UNCHANGED <<epochVars, load, done, tx, mrctid, tree, tidword, freed, commits>>

\* The assignment ends and the TID word is stored, which also unlocks the record.
\* INSERT and DELETE set the absent bit of maxtid, later records keep it.
StoreTid(w) ==
    LET k == Least(tx[w].todo)
        e == tx[w].wset[k]
        absent == IF e.op = "WRITE" THEN tx[w].maxtid.absent ELSE e.op = "DELETE"
        maxtid == [tx[w].maxtid EXCEPT !.absent = absent]
    IN
    /\ \/ pc[w] = "writing" /\ body' = [body EXCEPT ![e.v] = Me(w)]
       \/ pc[w] = "write" /\ tx[w].todo # {} /\ e.op # "WRITE" /\ UNCHANGED body
    /\ tidword' = [tidword EXCEPT ![e.v] = maxtid]
    /\ tx' = [tx EXCEPT ![w].maxtid = maxtid, ![w].todo = @ \ {k}]
    /\ Goto(w, "write")
    /\ UNCHANGED <<epochVars, load, done, mrctid, tree, freed, commits>>

NextTransaction(w) ==
    /\ done' = [done EXCEPT ![w] = @ + 1]
    /\ tx' = [tx EXCEPT ![w] = NewTx]

WriteDone(w) ==
    /\ pc[w] = "write"
    /\ tx[w].todo = {}
    /\ NextTransaction(w)
    /\ Goto(w, "retry")
    /\ UNCHANGED <<epochVars, load, mrctid, store, commits>>

\* abort takes an inserted record out of the tree and deletes its Value.
RemoveInserted(w) ==
    LET k == Least(tx[w].todo) IN
    /\ pc[w] = "abort"
    /\ tx[w].todo # {}
    /\ tree' = [tree EXCEPT ![k] = NULL]
    /\ freed' = freed \cup {tx[w].wset[k].v}
    /\ tx' = [tx EXCEPT ![w].todo = @ \ {k}]
    /\ UNCHANGED <<epochVars, load, pc, done, mrctid, tidword, body, commits>>

\* A failed validation is retried, a failed operation is reported.
AbortDone(w) ==
    /\ pc[w] = "abort"
    /\ tx[w].todo = {}
    /\ IF tx[w].failed THEN NextTransaction(w)
                       ELSE tx' = [tx EXCEPT ![w] = NewTx] /\ UNCHANGED done
    /\ Goto(w, "retry")
    /\ UNCHANGED <<epochVars, load, mrctid, store, commits>>

-----------------------------------------------------------------------------

WorkerStep(w) ==
    \/ Begin(w) \/ Insert(w) \/ Write(w) \/ Delete(w)
    \/ Read(w) \/ LoadTid(w) \/ Recheck(w) \/ ReadBody(w)
    \/ Scan(w) \/ ScanRecord(w) \/ ScanBodies(w)
    \/ StartValidation(w) \/ LockOne(w) \/ UnlockLoad(w) \/ UnlockStore(w) \/ Unlocked(w)
    \/ TakeEpoch(w) \/ ValidateOne(w)
    \/ Commit(w) \/ WriteBody(w) \/ StoreTid(w) \/ WriteDone(w)
    \/ RemoveInserted(w) \/ AbortDone(w)

Next == EpochAdvance \/ \E w \in Workers : WorkerStep(w)

Spec == Init /\ [][Next]_vars

-----------------------------------------------------------------------------
(* Properties                                                              *)

Pcs == {"retry", "idle", "op", "load", "recheck", "body", "scan", "lock", "unlock",
        "unlockstore", "validate", "write", "writing", "abort"}
Tids == [epoch : Nat, tid : Nat, absent : BOOLEAN, lock : BOOLEAN]

Bodies == {INITIAL, TORN, EMPTY} \cup (Workers \X Nat)

\* The elements of read_set_ and of write_set_, and what the client is given.
ReadEntries == [op : {"INSERT", "READ"}, key : Keys, v : Values, tid : Tids]
WriteEntries == [v : Values, op : {"INSERT", "WRITE", "DELETE"}]
Reports == SUBSET (Keys \X Bodies)

\* A TxExecutor with a write set on the keys K.
TxTypes(K) ==
    [ip : Nat, found : Values \cup {NULL}, expected : Tids, readValue : Bodies,
     scan : Seq(Keys \X Values), bodies : Nat, reads : Reports, rereads : Reports, rset : Seq(ReadEntries),
     wset : [K -> WriteEntries], todo : SUBSET Keys, itr : Nat \ {0}, after : {"none", "epoch", "abort"},
     maxR : Tids, maxW : Tids, maxtid : Tids, conflict : BOOLEAN, failed : BOOLEAN]

CommitTypes ==
    [id : Workers \X Nat, tid : Tids, local : Nat, conflict : BOOLEAN,
     reads : Reports, rereads : Reports, writes : SUBSET Keys]

WorkerTypes ==
    /\ ThLocalEpoch \in [Workers -> Nat]
    /\ pc \in [Workers -> Pcs]
    /\ done \in [Workers -> Nat]
    /\ DOMAIN tx = Workers
    /\ \A w \in Workers : DOMAIN tx[w].wset \subseteq Keys /\ tx[w] \in TxTypes(DOMAIN tx[w].wset)
    /\ mrctid \in [Workers -> Tids]

StoreTypes ==
    /\ tree \in [Keys -> Values \cup {NULL}]
    /\ tidword \in [Values -> Tids]
    /\ body \in [Values -> Bodies]
    /\ freed \subseteq Values

TypeOK ==
    /\ GlobalEpoch \in Nat
    /\ load \in Loads
    /\ WorkerTypes
    /\ StoreTypes
    /\ commits \in Seq(CommitTypes)

\* The keys that worker w inserts, writes or deletes under the input ld.
Owned(ld, w) ==
    {k \in Keys : \E i \in DOMAIN ld[w] : \E j \in DOMAIN ld[w][i] :
        ld[w][i][j].op \in {"INSERT", "WRITE", "DELETE"} /\ ld[w][i][j].key = k}

\* An input without write-write conflicts: no two workers write the same record.
NoConflicts(ld) ==
    \A w, u \in Workers : w # u => Owned(ld, w) \cap Owned(ld, u) = {}

\* The committed transactions, by their position in commits.
Txs == 1 .. Len(commits)

\* The TID of the version that id wrote; INITIAL is older than every commit.
TidOf(id) ==
    IF id = INITIAL THEN ZeroTid ELSE commits[CHOOSE i \in Txs : commits[i].id = id].tid

\* Dependencies between committed transactions: j read what i wrote, j overwrote
\* what i wrote, j overwrote what i read.
WR(i, j) == \E k \in commits[i].writes : <<k, commits[i].id>> \in commits[j].reads
WW(i, j) == /\ commits[i].writes \cap commits[j].writes # {}
            /\ Newer(commits[j].tid, commits[i].tid)
RW(i, j) == \E r \in commits[i].reads : /\ r[1] \in commits[j].writes
                                        /\ r[2] # commits[j].id
                                        /\ Newer(commits[j].tid, TidOf(r[2]))
DependsOn(i, j) == i # j /\ (WR(i, j) \/ WW(i, j) \/ RW(i, j))

\* No committed transaction has taken from a record a body that was being assigned
\* or that nobody committed, although read and scan take the body after their last
\* look at the TID word.
CleanReads ==
    \A i \in Txs : \A r \in commits[i].reads :
        r[2] = INITIAL \/ \E j \in Txs : commits[j].id = r[2]

\* Committed transactions are serializable: their dependencies have no cycle, in
\* any set of them one depends on no other (read, lockWriteSet, validationPhase,
\* writePhase).
Serializable ==
    CleanReads =>
    \A S \in (SUBSET Txs) \ {{}} : \E j \in S : \A i \in S : ~DependsOn(i, j)

\* Group commit loses a suffix of epochs, so no transaction may depend on one of a
\* later epoch, not even by overwriting what it read: this is why the epoch is
\* taken between locking and validation (validationPhase).
EpochOrder ==
    CleanReads =>
    \A i, j \in Txs : DependsOn(i, j) => commits[i].tid.epoch <= commits[j].tid.epoch

\* A transaction's TID is larger than that of any version it read or overwrote
\* (writePhase [a]), so that recovery can tell the newest record.
TidOrder ==
    CleanReads =>
    \A i, j \in Txs : i # j /\ WR(i, j) => Newer(commits[j].tid, commits[i].tid)

\* A commit's TID lies in the epoch its worker took, which the loggers rely on
\* (writePhase [c]; wal).
CommitInLocalEpoch == \A i \in Txs : commits[i].tid.epoch = commits[i].local

\* When no transaction is running, no record is left locked: a forgotten lock would
\* stop every later reader (read_internal) and writer.
NoLockLeft ==
    (\A w \in Workers : pc[w] \in {"retry", "idle"}) =>
        \A k \in Keys : tree[k] # NULL => ~tidword[tree[k]].lock

\* The TID of a record in the tree never goes back, in whatever order validated
\* transactions store (writePhase, unlockWriteSet).
TidGrows ==
    [][\A k \in Keys :
          tree[k] # NULL /\ tree'[k] = tree[k]
              => ~Newer(tidword[tree[k]], tidword'[tree[k]])]_vars

\* The Values a worker will still dereference.
InUse(w) ==
    (IF pc[w] \in {"load", "recheck", "body"} THEN {tx[w].found} ELSE {})
    \cup {tx[w].scan[i][2] : i \in DOMAIN tx[w].scan}
    \cup {tx[w].rset[i].v : i \in tx[w].itr .. Len(tx[w].rset)}

\* silo_transaction.cpp: abort can delete the Values it inserted, nobody else being
\* about to look at them.
NoUseAfterFree ==
    \A w \in Workers : pc[w] # "abort" => InUse(w) \cap freed = {}

\* silo_transaction.cpp: a read of a key of the local sets is a read of the
\* transaction's own write or gives what its first read gave.
RereadsAgree ==
    \A i \in Txs : \A r \in commits[i].rereads :
        r \in commits[i].reads \/ (r[1] \in commits[i].writes /\ r[2] = commits[i].id)

\* silo_transaction.cpp: a write-write conflict immediately aborts the transaction.
ConflictIsAborted == \A i \in Txs : ~commits[i].conflict
=============================================================================
