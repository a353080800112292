---------------------------- MODULE SiloLogProofs ----------------------------
(***************************************************************************)
(* Proofs about SiloLog, for every number of workers, loggers, buffers,    *)
(* epochs and transactions and every assignment of workers to loggers.     *)
(***************************************************************************)
EXTENDS SiloLog, FiniteSetTheorems, WellFoundedInduction, TLAPS

-----------------------------------------------------------------------------
(* The operators the model is built from                                   *)

\* A nonempty set of epochs has a least one, the one find_min_epoch and
\* LogQueue::min_epoch return.
LEMMA LeastIsMin ==
    ASSUME NEW S \in SUBSET Nat, S # {}
    PROVE  Least(S) \in S /\ \A y \in S : Least(S) <= y
<1> DEFINE R == {p \in Nat \X Nat : p[1] < p[2]}
<1>1. IsWellFoundedOn(R, Nat)
  BY NatLessThanWellFounded DEF OpToRel
<1>2. \E x \in S : \A y \in S : <<y, x>> \notin R
  BY <1>1, WFMin
<1>3. \A x, y \in Nat : <<y, x>> \notin R => x <= y
  OBVIOUS
<1>4. \E x \in S : \A y \in S : x <= y
  <2> HIDE DEF R
  <2> QED
    BY <1>2, <1>3
<1> QED
  BY <1>4 DEF Least

\* NidBuffer::store keeps the shape of the list.
LEMMA StoreType ==
    ASSUME NEW list \in Seq(Items), NEW e \in Nat, NEW ns \in SUBSET Nids
    PROVE  NidBufferStore(list, e, ns) \in Seq(Items)
<1>1. [epoch |-> e, nids |-> ns] \in Items
  BY DEF Items
<1>2. CASE list[Len(list)].epoch < e
  BY <1>1, <1>2 DEF NidBufferStore
<1>3. CASE ~(list[Len(list)].epoch < e)
  <2>1. \A item \in Items : [epoch |-> e, nids |-> item.nids \cup ns] \in Items
    BY DEF Items
  <2>2. \A i \in 1 .. Len(list) : list[i] \in Items
    OBVIOUS
  <2> QED
    BY <1>3, <2>1, <2>2 DEF NidBufferStore
<1> QED
  BY <1>2, <1>3

\* The items that NidBuffer::notify reports are at most all of them.
LEMMA DueCount ==
    ASSUME NEW list \in Seq(Items), NEW d \in Nat
    PROVE  Cardinality(Due(list, d)) \in 0 .. Len(list)
<1>1. Due(list, d) \in SUBSET (1 .. Len(list))
  BY DEF Due
<1>2. IsFiniteSet(1 .. Len(list)) /\ Cardinality(1 .. Len(list)) = Len(list)
  <2>1. Len(list) \in Nat /\ 1 \in Int
    OBVIOUS
  <2>2. /\ IsFiniteSet(1 .. Len(list))
        /\ Cardinality(1 .. Len(list)) = IF 1 > Len(list) THEN 0 ELSE Len(list) - 1 + 1
    BY <2>1, FS_Interval
  <2> QED
    BY <2>1, <2>2
<1>3. IsFiniteSet(Due(list, d)) /\ Cardinality(Due(list, d)) <= Len(list)
  BY <1>1, <1>2, FS_Subset
<1> QED
  BY <1>3, FS_CardinalityType

\* An item after the recycling of NidBuffer::notify is one from before, or empty.
LEMMA RecycleItems ==
    ASSUME NEW list \in Seq(Items), NEW d \in Nat
    PROVE  /\ NidBufferRecycle(list, d) \in Seq(Items)
           /\ \A i \in 1 .. Len(NidBufferRecycle(list, d)) :
                \/ NidBufferRecycle(list, d)[i].nids = {}
                \/ \E j \in 1 .. Len(list) : NidBufferRecycle(list, d)[i] = list[j]
<1> DEFINE n == Len(list)
           k == Cardinality(Due(list, d))
<1>1. n \in Nat /\ k \in 0 .. n
  BY DueCount
<1>2. CASE n = 1
  <2>1. list[1] \in Items
    BY <1>2
  <2>2. [list[1] EXCEPT !.nids = {}] \in Items
    BY <2>1 DEF Items
  <2> HIDE DEF k
  <2>3. NidBufferRecycle(list, d) =
          [i \in 1 .. 1 |-> IF k = 1 THEN [list[1] EXCEPT !.nids = {}] ELSE list[1]]
    BY <1>2 DEF NidBufferRecycle, k
  <2>4. [list[1] EXCEPT !.nids = {}].nids = {}
    BY <2>1 DEF Items
  <2> QED
    BY <1>2, <2>1, <2>2, <2>3, <2>4
<1>3. CASE n # 1
  <2> DEFINE new(i) == [epoch |-> list[n].epoch + i - (n - k), nids |-> {}]
  <2>1. NidBufferRecycle(list, d) = [i \in 1 .. n |-> IF i <= n - k THEN list[i + k] ELSE new(i)]
    BY <1>3 DEF NidBufferRecycle
  <2> HIDE DEF k
  <2>2. \A i \in 1 .. n : i <= n - k => i + k \in 1 .. n
    BY <1>1
  <2>3. \A i \in 1 .. n : list[i] \in Items
    OBVIOUS
  <2>4. \A i \in 1 .. n : ~(i <= n - k) => new(i) \in Items
    <3> SUFFICES ASSUME NEW i \in 1 .. n, ~(i <= n - k) PROVE new(i) \in Items
      OBVIOUS
    <3>1. list[n].epoch \in Nat
      BY <1>1, <2>3 DEF Items
    <3>2. list[n].epoch + i - (n - k) \in Nat
      BY <1>1, <3>1
    <3> QED
      BY <3>2 DEF Items
  <2>5. \A i \in 1 .. n : new(i).nids = {}
    OBVIOUS
  <2> HIDE DEF new
  <2> QED
    BY <1>1, <2>1, <2>2, <2>3, <2>4, <2>5
<1> QED
  BY <1>2, <1>3

-----------------------------------------------------------------------------
(* The inductive invariant                                                 *)

\* The steps at which a logger has an outcome of find_min_epoch, and those of
\* send_nid_to_notifier past its test.
Measured == {"qmin", "deq", "write", "tail", "min", "load", "cas", "pepoch", "notify", "store"}
MakingDurable == {"min", "load", "cas", "pepoch", "notify", "store"}

\* CTIDW follows ThLocalEpoch, which follows GlobalEpoch; a worker that has left
\* its first epochWork has a CTIDW that find_min_epoch does not skip.
EpochsOrdered ==
    /\ GlobalEpoch >= 1
    /\ \A w \in Workers :
        /\ CTIDW[w] <= ThLocalEpoch[w] /\ ThLocalEpoch[w] <= GlobalEpoch
        /\ wpc[w] \in {"ctidw", "spinctidw"} => ThLocalEpoch[w] # 0
        /\ wpc[w] \notin {"loop", "ctidw"} => CTIDW[w] # 0
        /\ ThLocalEpoch[w] # 0 => GlobalEpoch <= ThLocalEpoch[w] + 1
    /\ wpc[Leader] \in {"wal", "push"} => ThLocalEpoch[Leader] = GlobalEpoch

\* The loop of find_min_epoch has words to load, the last worker's among them, and
\* what it has found so far is an epoch or still ~0.
LoopInv ==
    \A l \in Loggers :
        lpc[l] = "ctidw" =>
            /\ todo[l] # {} /\ todo[l] \subseteq WorkersOf(l)
            /\ \A w \in WorkersOf(l) : (\A v \in WorkersOf(l) : v <= w) => w \in todo[l]
            /\ minEpoch[l] # 0
            /\ minEpoch[l] = Infinity \/ minEpoch[l] <= GlobalEpoch

\* What a logger has measured stays below the epoch of every transaction in wal of
\* those of its workers that it cannot miss, however old the measurement is.
MinEpochOpen ==
    \A l \in Loggers :
        /\ ThLocalDurableEpoch[l] < GlobalEpoch
        /\ lpc[l] \in Measured =>
             /\ minEpoch[l] <= GlobalEpoch
             /\ \A w \in WorkersOf(l) :
                  SkippedSafely(w) /\ wpc[w] \in {"wal", "push"} => minEpoch[l] <= ThLocalEpoch[w]
        /\ lpc[l] \in MakingDurable => ThLocalDurableEpoch[l] < minEpoch[l] - 1

\* What the loop of check_durable has established so far, and what its CAS keeps.
MinDlBelow ==
    \A l \in Loggers :
        /\ lpc[l] # "min" => idx[l] = 0
        /\ lpc[l] = "min" =>
             \A m \in Loggers : m < idx[l] => minDl[l] <= ThLocalDurableEpoch[m]
        /\ lpc[l] \in {"load", "cas", "pepoch", "notify"} =>
             \A m \in Loggers : minDl[l] <= ThLocalDurableEpoch[m]
        /\ lpc[l] = "cas" => loadedD[l] < minDl[l]
        /\ lpc[l] = "pepoch" => minDl[l] <= DurableEpoch

\* A logger has buffers of its own workers only, none of them twice, and has
\* dequeued some only while it writes; the one being written is among them.
Routed ==
    \A l \in Loggers :
        /\ \A q \in queue[l] \cup batch[l] : LoggerOf[q.w] = l
        /\ queue[l] \cap batch[l] = {}
        /\ lpc[l] \notin {"write", "tail"} => batch[l] = {}
        /\ lpc[l] = "tail" => writing[l] \in batch[l]

\* A worker is without a buffer only where it waits for one.
HasBuffer ==
    \A w \in Workers :
        wpc[w] \notin {"ready", "spin", "spinctidw", "push"} => current[w] # NULL

\* A buffer holds committed transactions of epochs between min_epoch_ and
\* max_epoch_, which are equal as long as the assert of push has not failed.
BufferContents ==
    \A w \in Workers, b \in Buffers :
        /\ buffer[w][b].nids = buffer[w][b].logs
        /\ \A n \in buffer[w][b].nids :
             /\ txEpoch[n] # 0
             /\ buffer[w][b].minE <= txEpoch[n] /\ txEpoch[n] <= buffer[w][b].maxE
        /\ Running => buffer[w][b].nids = {} \/ buffer[w][b].minE = buffer[w][b].maxE

\* A transaction in wal has committed.
InWal ==
    \A w \in Workers :
        wpc[w] \in {"wal", "push"} /\ nid[w] # NoNid => txEpoch[nid[w]] # 0

\* Between WriteLog and FinishBuffer the buffer's records are in the log file.
Written ==
    \A l \in Loggers :
        lpc[l] = "tail" => buffer[writing[l].w][writing[l].b].logs \subseteq Logged

\* The notification list has logged transactions only, each under its own epoch.
NidLists ==
    \A l \in Loggers : \A i \in 1 .. Len(nidBuffer[l]) : \A n \in nidBuffer[l][i].nids :
        n \in Logged /\ txEpoch[n] # 0 /\ txEpoch[n] = nidBuffer[l][i].epoch

\* A client is told of committed transactions only.
ToldCommitted == \A n \in notified : txEpoch[n] # 0

EpochInv == EpochsOrdered /\ LoopInv /\ MinEpochOpen /\ DurableEpochClosed
DurableInv == MinDlBelow /\ DurableEpochBounded
HomeInv == Routed /\ HasBuffer /\ BufferOneHome
ContentInv == BufferContents /\ InWal /\ Written /\ CommittedNotLost
ToldInv == NidLists /\ ToldCommitted /\ NotifiedIsSafe

IInv == TypeOK /\ EpochInv /\ DurableInv /\ HomeInv /\ ContentInv /\ ToldInv

-----------------------------------------------------------------------------
(* What the steps of a thread leave alone                                  *)

\* A logger touches nothing of a worker but the pool its buffers return to.
LEMMA LoggerFrame ==
    ASSUME NEW l \in Loggers, LoggerStep(l)
    PROVE  UNCHANGED <<GlobalEpoch, ThLocalEpoch, CTIDW, wpc, oldEpoch, newEpoch, nid, txEpoch,
                       current>>
BY DEF LoggerStep, WaitDeq, FindMinCTIDW, FindMinQueue, Deq, WriteLog, FinishBuffer,
       LoadThLocalDurable, LoadDurableEpoch, CasDurableEpoch, WritePepoch, Notify,
       StoreThLocalDurable, workerVars, epochVars

\* A worker touches nothing of a logger but the queue it publishes to.
LEMMA WorkerFrame ==
    ASSUME NEW w \in Workers, WorkerStep(w)
    PROVE  UNCHANGED <<GlobalEpoch, batch, writing, lpc, polling, todo, minEpoch, minDl, idx, loadedD,
                       nidBuffer, logfile, tail, pepoch, ThLocalDurableEpoch, DurableEpoch,
                       notified>>
BY DEF WorkerStep, EpochWork, SameEpoch, EpochWorkCTIDW, PublishOnEpochChange, WaitReady,
       NoTransaction, ValidationFails, CommitWrite, CommitReadOnly, Commit, WalPublish, WalPush,
       epochVars, loggerVars, fileVars, durableVars

\* The leader's step touches the global epoch only.
LEMMA AdvanceFrame ==
    ASSUME EpochAdvance
    PROVE  UNCHANGED <<ThLocalEpoch, CTIDW, wpc, oldEpoch, newEpoch, nid, txEpoch, current, pool,
                       buffer, queue, batch, writing, lpc, polling, todo, minEpoch, minDl, idx, loadedD,
                       nidBuffer, logfile, tail, pepoch, ThLocalDurableEpoch, DurableEpoch,
                       notified, failed>>
BY DEF EpochAdvance, workerVars, loggerVars, fileVars, durableVars

-----------------------------------------------------------------------------
(* Types                                                                   *)

\* A step of the process: of the leader, of a worker or of a logger.
Step ==
    \/ EpochAdvance
    \/ \E w \in Workers : WorkerStep(w)
    \/ \E l \in Loggers : LoggerStep(l)

\* Epochs stay natural numbers: epochWork and wal copy one from another.
LEMMA EpochTypesStep == EpochTypes /\ Step => EpochTypes'
<1> SUFFICES ASSUME EpochTypes, Step PROVE EpochTypes'
  OBVIOUS
<1> USE DEF EpochTypes
<1>1. CASE EpochAdvance
  BY <1>1 DEF EpochAdvance
<1>2. ASSUME NEW w \in Workers, WorkerStep(w) PROVE EpochTypes'
  <2>1. GlobalEpoch' = GlobalEpoch
    BY <1>2, WorkerFrame
  <2>2. ThLocalEpoch' \in {ThLocalEpoch, [ThLocalEpoch EXCEPT ![w] = GlobalEpoch]}
    BY <1>2 DEF WorkerStep, EpochWork, SameEpoch, EpochWorkCTIDW, PublishOnEpochChange, WaitReady,
       NoTransaction, ValidationFails, CommitWrite, CommitReadOnly, Commit, WalPublish, WalPush,
       epochVars
  <2>3. CTIDW' \in {CTIDW, [CTIDW EXCEPT ![w] = ThLocalEpoch[w]]}
    BY <1>2 DEF WorkerStep, EpochWork, SameEpoch, EpochWorkCTIDW, PublishOnEpochChange, WaitReady,
       NoTransaction, ValidationFails, CommitWrite, CommitReadOnly, Commit, WalPublish, WalPush
  <2> QED
    BY <2>1, <2>2, <2>3
<1>3. ASSUME NEW l \in Loggers, LoggerStep(l) PROVE EpochTypes'
  BY <1>3, LoggerFrame
<1> QED
  BY <1>1, <1>2, <1>3 DEF Step

\* The program counters and local variables of the workers keep their types.
LEMMA WorkerTypesStep == EpochTypes /\ WorkerTypes /\ Step => WorkerTypes'
<1> SUFFICES ASSUME EpochTypes, WorkerTypes, Step PROVE WorkerTypes'
  OBVIOUS
<1> USE DEF WorkerTypes, WorkerPcs, WGoto
<1>1. CASE EpochAdvance
  BY <1>1, AdvanceFrame
<1>2. ASSUME NEW w \in Workers, EpochWork(w) PROVE WorkerTypes'
  BY <1>2 DEF EpochWork, EpochTypes
<1>3. ASSUME NEW w \in Workers, \/ SameEpoch(w) \/ EpochWorkCTIDW(w) \/ WaitReady(w)
                                \/ NoTransaction(w) \/ ValidationFails(w) \/ WalPublish(w)
      PROVE  WorkerTypes'
  BY <1>3 DEF SameEpoch, EpochWorkCTIDW, WaitReady, NoTransaction, ValidationFails, WalPublish
<1>4. ASSUME NEW w \in Workers, PublishOnEpochChange(w) PROVE WorkerTypes'
  BY <1>4 DEF PublishOnEpochChange
<1>5. ASSUME NEW w \in Workers, NEW n \in Nids \cup {NoNid}, Commit(w, n) PROVE WorkerTypes'
  BY <1>5 DEF Commit, EpochTypes
<1>6. ASSUME NEW w \in Workers, WalPush(w) PROVE WorkerTypes'
  BY <1>6 DEF WalPush
<1>7. ASSUME NEW l \in Loggers, LoggerStep(l) PROVE WorkerTypes'
  BY <1>7, LoggerFrame
<1> QED
  BY <1>1, <1>2, <1>3, <1>4, <1>5, <1>6, <1>7
  DEF Step, WorkerStep, CommitWrite, CommitReadOnly, Nids

\* LogBufferPool::publish hands over a buffer that exists.
LEMMA PublishTypes ==
    ASSUME BufferTypes, EpochTypes, NEW w \in Workers, current[w] # NULL, Publish(w)
    PROVE  /\ queue' \in [Loggers -> SUBSET Entries]
           /\ current' \in [Workers -> Buffers \cup {NULL}]
<1>1. LoggerOf[w] \in Loggers
  BY LogAssumption
<1>2. buffer[w][current[w]] \in LogBuffers /\ current[w] \in Buffers
  BY DEF BufferTypes
<1>3. [epoch |-> CurrentBuffer(w).minE, w |-> w, b |-> current[w]] \in Entries
  BY <1>2 DEF CurrentBuffer, LogBuffers, Entries
<1>4. queue \in [Loggers -> SUBSET Entries] /\ current \in [Workers -> Buffers \cup {NULL}]
  BY DEF BufferTypes
<1>5. CASE CurrentBuffer(w).nids = {}
  BY <1>4, <1>5 DEF Publish
<1>6. CASE CurrentBuffer(w).nids # {}
  <2>1. /\ queue' = [queue EXCEPT ![LoggerOf[w]] = @ \cup
                       {[epoch |-> CurrentBuffer(w).minE, w |-> w, b |-> current[w]]}]
        /\ current' = [current EXCEPT ![w] = NULL]
    BY <1>6 DEF Publish
  <2> QED
    BY <1>1, <1>3, <1>4, <2>1
<1> QED
  BY <1>5, <1>6

\* Buffers, pools, queues and batches keep their types: what is published, taken
\* or returned is a buffer of the worker it is filed under.
LEMMA BufferTypesStep ==
    TypeOK /\ HomeInv /\ Step => BufferTypes'
<1> SUFFICES ASSUME TypeOK, HomeInv, Step PROVE BufferTypes'
  OBVIOUS
<1> USE DEF TypeOK
<1>1. CASE EpochAdvance
  BY <1>1, AdvanceFrame DEF BufferTypes
<1>2. ASSUME NEW w \in Workers, PublishOnEpochChange(w) PROVE BufferTypes'
  <2>1. current[w] # NULL
    BY <1>2 DEF PublishOnEpochChange, HomeInv, HasBuffer
  <2> QED
    BY <1>2, <2>1, PublishTypes DEF PublishOnEpochChange, BufferTypes, loggerVars
<1>3. ASSUME NEW w \in Workers, WalPublish(w) PROVE BufferTypes'
  <2>1. current[w] # NULL
    BY <1>3 DEF WalPublish, HomeInv, HasBuffer
  <2> QED
    BY <1>3, <2>1, PublishTypes DEF WalPublish, BufferTypes, loggerVars
<1>4. ASSUME NEW w \in Workers, WaitReady(w) PROVE BufferTypes'
  BY <1>4 DEF WaitReady, IsReady, BufferTypes, loggerVars
<1>5. ASSUME NEW w \in Workers, WalPush(w) PROVE BufferTypes'
  <2>1. PICK b \in Buffers : IsReady(w, b)
    BY <1>5 DEF WalPush
  <2>2. current' \in [Workers -> Buffers \cup {NULL}] /\ pool' \in [Workers -> SUBSET Buffers]
    BY <2>1 DEF IsReady, BufferTypes
  <2>3. buffer' \in [Workers -> [Buffers -> LogBuffers]]
    <3>1. \A bb \in Buffers : \A n \in Nids : \A e \in Nat :
            LET old == buffer[w][bb] IN
            [logs |-> old.logs \cup {n}, nids |-> old.nids \cup {n},
             minE |-> IF e < old.minE THEN e ELSE old.minE,
             maxE |-> IF e > old.maxE THEN e ELSE old.maxE] \in LogBuffers
      BY DEF BufferTypes, LogBuffers
    <3>2. nid[w] # NoNid => nid[w] \in Nids /\ txEpoch[nid[w]] \in Nat
      BY DEF WorkerTypes
    <3>3. buffer \in [Workers -> [Buffers -> LogBuffers]]
      BY DEF BufferTypes
    <3>4. \/ buffer' = buffer
          \/ /\ nid[w] # NoNid
             /\ \E bb \in Buffers :
                  LET e == txEpoch[nid[w]]
                      old == buffer[w][bb]
                  IN buffer' = [buffer EXCEPT ![w][bb] =
                       [logs |-> old.logs \cup {nid[w]}, nids |-> old.nids \cup {nid[w]},
                        minE |-> IF e < old.minE THEN e ELSE old.minE,
                        maxE |-> IF e > old.maxE THEN e ELSE old.maxE]]
      BY <1>5 DEF WalPush
    <3>5. CASE buffer' = buffer
      BY <3>3, <3>5
    <3>6. ASSUME nid[w] # NoNid, NEW bb \in Buffers, NEW x \in LogBuffers,
                 buffer' = [buffer EXCEPT ![w][bb] = x]
          PROVE  buffer' \in [Workers -> [Buffers -> LogBuffers]]
      BY <3>3, <3>6
    <3> QED
      BY <3>1, <3>2, <3>4, <3>5, <3>6
  <2>4. UNCHANGED <<queue, batch, writing>>
    BY <1>5 DEF WalPush, loggerVars
  <2> QED
    BY <2>2, <2>3, <2>4 DEF BufferTypes
<1>6. ASSUME NEW w \in Workers,
             \/ EpochWork(w) \/ SameEpoch(w) \/ EpochWorkCTIDW(w) \/ NoTransaction(w)
             \/ ValidationFails(w) \/ \E n \in Nids \cup {NoNid} : Commit(w, n)
      PROVE  BufferTypes'
  BY <1>6 DEF EpochWork, SameEpoch, EpochWorkCTIDW, NoTransaction, ValidationFails, Commit,
              BufferTypes, loggerVars
<1>7. ASSUME NEW l \in Loggers, Deq(l) PROVE BufferTypes'
  BY <1>7 DEF Deq, BufferTypes
<1>8. ASSUME NEW l \in Loggers, WriteLog(l) PROVE BufferTypes'
  BY <1>8 DEF WriteLog, BufferTypes
<1>9. ASSUME NEW l \in Loggers, FinishBuffer(l) PROVE BufferTypes'
  <2> DEFINE q == writing[l]
  <2>1. q \in Entries
    BY <1>9 DEF FinishBuffer, HomeInv, Routed, BufferTypes
  <2>2. q.w \in Workers /\ q.b \in Buffers
    BY <2>1 DEF Entries
  <2>3. EmptyBuffer \in LogBuffers
    BY LogAssumption DEF EmptyBuffer, LogBuffers, Infinity
  <2>4. buffer' = [buffer EXCEPT ![q.w][q.b] = EmptyBuffer]
    BY <1>9 DEF FinishBuffer
  <2>5. pool' = [pool EXCEPT ![q.w] = @ \cup {q.b}]
    BY <1>9 DEF FinishBuffer, ReturnBuffer
  <2>6. /\ batch' = [batch EXCEPT ![l] = @ \ {q}]
        /\ writing' = [writing EXCEPT ![l] = NoEntry]
        /\ UNCHANGED <<queue, current>>
    BY <1>9 DEF FinishBuffer
  <2> HIDE DEF q
  <2> QED
    BY <2>2, <2>3, <2>4, <2>5, <2>6 DEF BufferTypes
<1>10. ASSUME NEW l \in Loggers,
              \/ WaitDeq(l) \/ FindMinCTIDW(l) \/ FindMinQueue(l) \/ LoadThLocalDurable(l)
              \/ LoadDurableEpoch(l) \/ CasDurableEpoch(l) \/ WritePepoch(l) \/ Notify(l)
              \/ StoreThLocalDurable(l)
       PROVE  BufferTypes'
  <2>1. UNCHANGED <<current, pool, buffer, queue, batch, writing>>
    BY <1>10 DEF WaitDeq, FindMinCTIDW, FindMinQueue, LoadThLocalDurable, LoadDurableEpoch,
                 CasDurableEpoch, WritePepoch, Notify, StoreThLocalDurable
  <2> QED
    BY <2>1 DEF BufferTypes
<1> QED
  BY <1>1, <1>2, <1>3, <1>4, <1>5, <1>6, <1>7, <1>8, <1>9, <1>10
  DEF Step, WorkerStep, LoggerStep, CommitWrite, CommitReadOnly, Nids

\* The index of the loop of check_durable stays within the array.
LEMMA MoreLoggersIndex == \A i \in Loggers : MoreLoggers(i) => i + 1 \in Loggers
BY LogAssumption DEF MoreLoggers, Loggers

\* One load of find_min_epoch: the word of the first worker left; the minimum so
\* far is at most that word, unless it is skipped, and is an epoch or still ~0.
LEMMA FindMinStep ==
    ASSUME TypeOK, EpochsOrdered, LoopInv, NEW l \in Loggers, FindMinCTIDW(l)
    PROVE  \E w \in todo[l], m \in Nat :
             /\ \A v \in todo[l] : w <= v
             /\ m # 0 /\ (m = Infinity \/ m <= GlobalEpoch)
             /\ CTIDW[w] # 0 => m <= CTIDW[w]
             /\ lpc[l] = "ctidw" /\ todo' = [todo EXCEPT ![l] = todo[l] \ {w}]
             /\ \/ /\ todo[l] # {w} /\ minEpoch' = [minEpoch EXCEPT ![l] = m]
                   /\ UNCHANGED <<lpc, polling>>
                \/ /\ minEpoch' = [minEpoch EXCEPT ![l] = 0]
                   /\ lpc' = [lpc EXCEPT ![l] = "wait"]
                   /\ polling' = [polling EXCEPT ![l] = FALSE]
                \/ /\ todo[l] = {w} /\ m # Infinity
                   /\ minEpoch' = [minEpoch EXCEPT ![l] = m]
                   /\ lpc' = [lpc EXCEPT ![l] = "qmin"] /\ UNCHANGED polling
<1> DEFINE w == Least(todo[l])
           m == Least({minEpoch[l], CTIDW[w]} \ {0})
<1>0. lpc[l] = "ctidw"
  BY DEF FindMinCTIDW
<1>1. todo[l] \in SUBSET Workers /\ todo[l] \in SUBSET Nat /\ todo[l] # {}
  BY <1>0 DEF TypeOK, LoggerTypes, LoopInv, Workers
<1>2. w \in todo[l] /\ \A v \in todo[l] : w <= v
  BY <1>1, LeastIsMin
<1>3. w \in Workers /\ minEpoch[l] \in Nat /\ CTIDW[w] \in Nat /\ minEpoch[l] # 0
  <2>1. w \in Workers
    BY <1>1, <1>2
  <2> HIDE DEF w
  <2> QED
    BY <1>0, <2>1 DEF TypeOK, LoggerTypes, EpochTypes, LoopInv
<1>4. /\ {minEpoch[l], CTIDW[w]} \ {0} \in SUBSET Nat
      /\ minEpoch[l] \in {minEpoch[l], CTIDW[w]} \ {0}
  <2> HIDE DEF w
  <2> QED
    BY <1>3
<1>5. m \in {minEpoch[l], CTIDW[w]} \ {0} /\ \A y \in {minEpoch[l], CTIDW[w]} \ {0} : m <= y
  <2> HIDE DEF w
  <2> QED
    BY <1>4, LeastIsMin
<1>6. /\ todo' = [todo EXCEPT ![l] = todo[l] \ {w}]
      /\ \/ /\ todo[l] # {w} /\ minEpoch' = [minEpoch EXCEPT ![l] = m]
            /\ UNCHANGED <<lpc, polling>>
         \/ /\ minEpoch' = [minEpoch EXCEPT ![l] = 0]
            /\ lpc' = [lpc EXCEPT ![l] = "wait"]
            /\ polling' = [polling EXCEPT ![l] = FALSE]
         \/ /\ todo[l] = {w} /\ m # Infinity
            /\ minEpoch' = [minEpoch EXCEPT ![l] = m]
            /\ lpc' = [lpc EXCEPT ![l] = "qmin"] /\ UNCHANGED polling
  BY DEF FindMinCTIDW, LGoto
<1> HIDE DEF w, m
<1>7. m \in Nat /\ m # 0 /\ (CTIDW[w] # 0 => m <= CTIDW[w])
  BY <1>3, <1>5
<1>8. m = Infinity \/ m <= GlobalEpoch
  <2>1. CTIDW[w] <= ThLocalEpoch[w] /\ ThLocalEpoch[w] <= GlobalEpoch
    BY <1>3 DEF EpochsOrdered
  <2>2. minEpoch[l] = Infinity \/ minEpoch[l] <= GlobalEpoch
    BY <1>0 DEF LoopInv
  <2>3. ThLocalEpoch[w] \in Nat /\ GlobalEpoch \in Nat
    BY <1>3 DEF TypeOK, EpochTypes
  <2> QED
    BY <1>3, <1>5, <2>1, <2>2, <2>3
<1> QED
  BY <1>0, <1>2, <1>6, <1>7, <1>8

\* The local variables of the loggers keep their types; the minima that
\* find_min_epoch, LogQueue::min_epoch and check_durable compute exist.
LEMMA LoggerTypesStep == TypeOK /\ EpochInv /\ Step => LoggerTypes'
<1> SUFFICES ASSUME TypeOK, EpochInv, Step PROVE LoggerTypes'
  OBVIOUS
<1> USE DEF TypeOK, LoggerTypes, LoggerPcs, LGoto
<1>1. CASE EpochAdvance
  BY <1>1, AdvanceFrame
<1>2. ASSUME NEW w \in Workers, WorkerStep(w) PROVE LoggerTypes'
  BY <1>2, WorkerFrame
<1>3. ASSUME NEW l \in Loggers, WaitDeq(l) \/ Deq(l) \/ WriteLog(l) PROVE LoggerTypes'
  <2>1. Infinity \in Nat /\ WorkersOf(l) \subseteq Workers
    BY LogAssumption DEF Infinity, WorkersOf
  <2>2. /\ minEpoch' \in {minEpoch, [minEpoch EXCEPT ![l] = Infinity]}
        /\ todo' \in {todo, [todo EXCEPT ![l] = WorkersOf(l)]}
        /\ \E pc \in {"ctidw", "write", "tail"} : lpc' = [lpc EXCEPT ![l] = pc]
        /\ \E p \in BOOLEAN : polling' \in {polling, [polling EXCEPT ![l] = p]}
        /\ UNCHANGED <<minDl, idx, loadedD>>
    BY <1>3 DEF WaitDeq, StartFindMin, Deq, WriteLog
  <2> QED
    BY <2>1, <2>2
<1>4. ASSUME NEW l \in Loggers, FindMinCTIDW(l) PROVE LoggerTypes'
  <2>1. UNCHANGED <<minDl, idx, loadedD>>
    BY <1>4 DEF FindMinCTIDW
  <2>2. PICK w \in todo[l], m \in Nat :
           /\ todo' = [todo EXCEPT ![l] = todo[l] \ {w}]
           /\ \E n \in {m, 0} : minEpoch' = [minEpoch EXCEPT ![l] = n]
           /\ \E pc \in {"ctidw", "wait", "qmin"} : lpc' = [lpc EXCEPT ![l] = pc]
           /\ polling' \in {polling, [polling EXCEPT ![l] = FALSE]}
    <3>1. lpc[l] = "ctidw" => lpc = [lpc EXCEPT ![l] = "ctidw"]
      OBVIOUS
    <3> QED
      BY <1>4, <3>1, FindMinStep DEF EpochInv
  <2>3. todo[l] \ {w} \in SUBSET Workers
    OBVIOUS
  <2>4. todo' \in [Loggers -> SUBSET Workers] /\ minEpoch' \in [Loggers -> Nat]
    BY <2>2, <2>3
  <2>5. lpc' \in [Loggers -> LoggerPcs]
    BY <2>2
  <2>6. polling' \in [Loggers -> BOOLEAN]
    <3>1. CASE polling' = polling
      BY <3>1
    <3>2. CASE polling' = [polling EXCEPT ![l] = FALSE]
      BY <3>2
    <3> QED
      BY <2>2, <3>1, <3>2
  <2> QED
    BY <2>1, <2>4, <2>5, <2>6
<1>5. ASSUME NEW l \in Loggers, FindMinQueue(l) PROVE LoggerTypes'
  <2> DEFINE m == Least({minEpoch[l]} \cup {q.epoch : q \in queue[l]})
  <2>1. m \in Nat
    <3>1. {minEpoch[l]} \cup {q.epoch : q \in queue[l]} \in SUBSET Nat
      BY DEF BufferTypes, Entries
    <3> QED
      BY <3>1, LeastIsMin
  <2>2. Infinity \in Nat
    BY LogAssumption DEF Infinity
  <2>3. /\ \E pc \in {"min", "wait", "deq"} : lpc' = [lpc EXCEPT ![l] = pc]
        /\ minEpoch' \in {[minEpoch EXCEPT ![l] = m], [minEpoch EXCEPT ![l] = 0]}
        /\ minDl' \in {minDl, [minDl EXCEPT ![l] = Infinity]}
        /\ polling' = [polling EXCEPT ![l] = FALSE]
        /\ UNCHANGED <<todo, idx, loadedD>>
    BY <1>5 DEF FindMinQueue, SendNid
  <2> HIDE DEF m
  <2> QED
    BY <2>1, <2>2, <2>3
<1>6. ASSUME NEW l \in Loggers, FinishBuffer(l) PROVE LoggerTypes'
  <2>1. Infinity \in Nat
    BY LogAssumption DEF Infinity
  <2>2. /\ \E pc \in {"min", "wait", "write"} : lpc' = [lpc EXCEPT ![l] = pc]
        /\ \E m \in {minEpoch[l], 0} : minEpoch' = [minEpoch EXCEPT ![l] = m]
        /\ minDl' \in {minDl, [minDl EXCEPT ![l] = Infinity]}
        /\ UNCHANGED <<todo, polling, idx, loadedD>>
    BY <1>6 DEF FinishBuffer, SendNid
  <2> QED
    BY <2>1, <2>2
<1>7. ASSUME NEW l \in Loggers, LoadThLocalDurable(l) PROVE LoggerTypes'
  <2>1. Least({minDl[l], ThLocalDurableEpoch[idx[l]]}) \in Nat
    <3>1. {minDl[l], ThLocalDurableEpoch[idx[l]]} \in SUBSET Nat
      BY DEF DurableTypes
    <3> QED
      BY <3>1, LeastIsMin
  <2>2. MoreLoggers(idx[l]) => idx[l] + 1 \in Loggers
    BY MoreLoggersIndex
  <2>3. 0 \in Loggers
    BY LogAssumption DEF Loggers
  <2> QED
    BY <1>7, <2>1, <2>2, <2>3 DEF LoadThLocalDurable
<1>8. ASSUME NEW l \in Loggers, LoadDurableEpoch(l) PROVE LoggerTypes'
  BY <1>8 DEF LoadDurableEpoch, DurableTypes
<1>9. ASSUME NEW l \in Loggers, \/ CasDurableEpoch(l) \/ WritePepoch(l) \/ Notify(l)
                                \/ StoreThLocalDurable(l)
      PROVE  LoggerTypes'
  BY <1>9 DEF CasDurableEpoch, WritePepoch, Notify, StoreThLocalDurable
<1> QED
  BY <1>1, <1>2, <1>3, <1>4, <1>5, <1>6, <1>7, <1>8, <1>9 DEF Step, LoggerStep

\* The log files and notification lists are sequences of items.
LEMMA FileTypesStep == TypeOK /\ HomeInv /\ Step => FileTypes'
<1> SUFFICES ASSUME TypeOK, HomeInv, Step PROVE FileTypes'
  OBVIOUS
<1> USE DEF TypeOK
<1>1. CASE EpochAdvance
  BY <1>1, AdvanceFrame DEF FileTypes
<1>2. ASSUME NEW w \in Workers, WorkerStep(w) PROVE FileTypes'
  <2>1. UNCHANGED <<nidBuffer, logfile, tail, notified>>
    BY <1>2, WorkerFrame
  <2>2. failed' \in {failed, "buffer_epochs"}
    BY <1>2 DEF WorkerStep, EpochWork, SameEpoch, EpochWorkCTIDW, PublishOnEpochChange, WaitReady,
       NoTransaction, ValidationFails, CommitWrite, CommitReadOnly, Commit, WalPublish, WalPush
  <2> QED
    BY <2>1, <2>2 DEF FileTypes
<1>3. ASSUME NEW l \in Loggers, WriteLog(l) PROVE FileTypes'
  <2>1. PICK q \in batch[l] : logfile' = [logfile EXCEPT ![l] = Append(@, LogRecord(q))]
    BY <1>3 DEF WriteLog
  <2>2. buffer[q.w][q.b] \in LogBuffers
    BY DEF BufferTypes, Entries
  <2>3. LogRecord(q) \in Items
    BY <2>2 DEF LogRecord, LogBuffers, Items
  <2>4. UNCHANGED <<nidBuffer, tail, notified, failed>>
    BY <1>3 DEF WriteLog
  <2> QED
    BY <2>1, <2>3, <2>4 DEF FileTypes
<1>4. ASSUME NEW l \in Loggers, FinishBuffer(l) PROVE FileTypes'
  <2> DEFINE B == buffer[writing[l].w][writing[l].b]
  <2>1. writing[l] \in Entries
    BY <1>4 DEF FinishBuffer, HomeInv, Routed, BufferTypes
  <2>2. B \in LogBuffers
    BY <2>1 DEF BufferTypes, Entries
  <2>3. B.minE \in Nat /\ B.nids \in SUBSET Nids
    BY <2>2 DEF LogBuffers
  <2>4. /\ nidBuffer' \in {nidBuffer, [nidBuffer EXCEPT ![l] = NidBufferStore(@, B.minE, B.nids)]}
        /\ failed' \in {failed, "nid_buffer_epoch"}
        /\ tail' = [tail EXCEPT ![l] = Len(logfile[l])]
        /\ UNCHANGED <<logfile, notified>>
    BY <1>4 DEF FinishBuffer
  <2> HIDE DEF B
  <2>5. NidBufferStore(nidBuffer[l], B.minE, B.nids) \in Seq(Items)
    BY <2>3, StoreType DEF FileTypes
  <2>6. Len(logfile[l]) \in Nat
    BY DEF FileTypes
  <2> QED
    BY <2>4, <2>5, <2>6 DEF FileTypes
<1>5. ASSUME NEW l \in Loggers, Notify(l) PROVE FileTypes'
  <2>1. nidBuffer[l] \in Seq(Items) /\ minDl[l] \in Nat
    BY DEF FileTypes, LoggerTypes
  <2>2. NidBufferRecycle(nidBuffer[l], minDl[l]) \in Seq(Items)
    BY <2>1, RecycleItems
  <2>3. NidBufferNotified(nidBuffer[l], minDl[l]) \subseteq Nids
    <3>1. \A i \in Due(nidBuffer[l], minDl[l]) : nidBuffer[l][i] \in Items
      BY <2>1 DEF Due
    <3>2. \A i \in Due(nidBuffer[l], minDl[l]) : nidBuffer[l][i].nids \subseteq Nids
      BY <3>1 DEF Items
    <3> QED
      BY <3>2 DEF NidBufferNotified
  <2>4. /\ nidBuffer' = [nidBuffer EXCEPT ![l] = NidBufferRecycle(@, minDl[l])]
        /\ notified' = notified \cup NidBufferNotified(nidBuffer[l], minDl[l])
        /\ UNCHANGED <<logfile, tail, failed>>
    BY <1>5 DEF Notify, CheckedDurable, fileVars
  <2> QED
    BY <2>2, <2>3, <2>4 DEF FileTypes
<1>6. ASSUME NEW l \in Loggers,
             \/ WaitDeq(l) \/ FindMinCTIDW(l) \/ FindMinQueue(l) \/ Deq(l) \/ LoadThLocalDurable(l)
             \/ LoadDurableEpoch(l) \/ CasDurableEpoch(l) \/ WritePepoch(l)
             \/ StoreThLocalDurable(l)
      PROVE  FileTypes'
  <2>1. UNCHANGED <<nidBuffer, logfile, tail, notified, failed>>
    BY <1>6 DEF WaitDeq, FindMinCTIDW, FindMinQueue, Deq, LoadThLocalDurable, LoadDurableEpoch,
                CasDurableEpoch, WritePepoch, StoreThLocalDurable, fileVars
  <2> QED
    BY <2>1 DEF FileTypes
<1> QED
  BY <1>1, <1>2, <1>3, <1>4, <1>5, <1>6 DEF Step, LoggerStep

\* The durable epochs stay natural numbers: new_dl is never below zero.
LEMMA DurableTypesStep == TypeOK /\ EpochInv /\ Step => DurableTypes'
<1> SUFFICES ASSUME TypeOK, EpochInv, Step PROVE DurableTypes'
  OBVIOUS
<1> USE DEF TypeOK, DurableTypes
<1>1. CASE EpochAdvance
  BY <1>1, AdvanceFrame
<1>2. ASSUME NEW w \in Workers, WorkerStep(w) PROVE DurableTypes'
  BY <1>2, WorkerFrame
<1>3. ASSUME NEW l \in Loggers, CasDurableEpoch(l) \/ WritePepoch(l) PROVE DurableTypes'
  BY <1>3 DEF CasDurableEpoch, WritePepoch, NewDurableEpoch, LoggerTypes, fileVars, durableVars
<1>4. ASSUME NEW l \in Loggers, StoreThLocalDurable(l) PROVE DurableTypes'
  <2>1. NewDl(l) \in Nat
    <3>1. lpc[l] = "store"
      BY <1>4 DEF StoreThLocalDurable
    <3>2. ThLocalDurableEpoch[l] < minEpoch[l] - 1
      BY <3>1 DEF EpochInv, MinEpochOpen, MakingDurable
    <3> QED
      BY <3>2 DEF NewDl, LoggerTypes
  <2> QED
    BY <1>4, <2>1 DEF StoreThLocalDurable, fileVars
<1>5. ASSUME NEW l \in Loggers,
             \/ WaitDeq(l) \/ FindMinCTIDW(l) \/ FindMinQueue(l) \/ Deq(l) \/ WriteLog(l)
             \/ FinishBuffer(l) \/ LoadThLocalDurable(l) \/ LoadDurableEpoch(l) \/ Notify(l)
      PROVE  DurableTypes'
  <2>1. UNCHANGED <<ThLocalDurableEpoch, DurableEpoch, pepoch>>
    BY <1>5 DEF WaitDeq, FindMinCTIDW, FindMinQueue, Deq, WriteLog, FinishBuffer,
                LoadThLocalDurable, LoadDurableEpoch, Notify, fileVars, durableVars
  <2> QED
    BY <2>1
<1> QED
  BY <1>1, <1>2, <1>3, <1>4, <1>5 DEF Step, LoggerStep

\* Every step keeps the types; the local durable epoch never falls below zero and
\* the buffer that is published or written exists.
LEMMA TypeOKStep == TypeOK /\ EpochInv /\ HomeInv /\ Step => TypeOK'
BY EpochTypesStep, WorkerTypesStep, BufferTypesStep, LoggerTypesStep, FileTypesStep,
   DurableTypesStep DEF TypeOK

-----------------------------------------------------------------------------
(* Epochs                                                                  *)

\* What a worker's step does to the epochs: ThLocalEpoch takes the value of
\* GlobalEpoch or stays, CTIDW that of ThLocalEpoch or stays, and only epochWork
\* stores CTIDW before wal.
LEMMA WorkerEpochs ==
    ASSUME TypeOK, EpochsOrdered, NEW w \in Workers, WorkerStep(w)
    PROVE  /\ ThLocalEpoch' \in {ThLocalEpoch, [ThLocalEpoch EXCEPT ![w] = GlobalEpoch]}
           /\ CTIDW' \in {CTIDW, [CTIDW EXCEPT ![w] = ThLocalEpoch[w]]}
           /\ UNCHANGED ThLocalEpoch \/ UNCHANGED CTIDW
           /\ \E pc \in WorkerPcs :
                /\ wpc' = [wpc EXCEPT ![w] = pc]
                /\ pc \in {"ctidw", "spinctidw"} =>
                     ThLocalEpoch' = [ThLocalEpoch EXCEPT ![w] = GlobalEpoch]
                /\ pc \notin {"loop", "ctidw"} =>
                     \/ wpc[w] \notin {"loop", "ctidw"}
                     \/ wpc[w] = "loop" /\ CTIDW[w] = GlobalEpoch
                     \/ wpc[w] = "ctidw" /\ CTIDW' = [CTIDW EXCEPT ![w] = ThLocalEpoch[w]]
                /\ pc \in {"wal", "push"} =>
                     \/ wpc[w] \in {"wal", "push"} /\ UNCHANGED ThLocalEpoch
                     \/ ThLocalEpoch' = [ThLocalEpoch EXCEPT ![w] = GlobalEpoch]
<1> USE DEF WGoto, WorkerPcs, epochVars
<1>1. CASE EpochWork(w)
  BY <1>1 DEF EpochWork
<1>2. CASE SameEpoch(w)
  BY <1>2 DEF SameEpoch
<1>3. CASE EpochWorkCTIDW(w)
  BY <1>3 DEF EpochWorkCTIDW
<1>4. CASE PublishOnEpochChange(w)
  BY <1>4 DEF PublishOnEpochChange
<1>5. CASE WaitReady(w)
  BY <1>5 DEF WaitReady
<1>6. CASE NoTransaction(w) \/ ValidationFails(w)
  BY <1>6 DEF NoTransaction, ValidationFails
<1>7. CASE \E n \in Nids \cup {NoNid} : Commit(w, n)
  BY <1>7 DEF Commit
<1>8. CASE WalPublish(w) \/ WalPush(w)
  BY <1>8 DEF WalPublish, WalPush
<1> QED
  BY <1>1, <1>2, <1>3, <1>4, <1>5, <1>6, <1>7, <1>8
  DEF WorkerStep, CommitWrite, CommitReadOnly, Nids

\* The three epochs keep their order.
LEMMA EpochsOrderedStep == TypeOK /\ EpochsOrdered /\ Step => EpochsOrdered'
<1> SUFFICES ASSUME TypeOK, EpochsOrdered, Step PROVE EpochsOrdered'
  OBVIOUS
<1>0. EpochTypes /\ wpc \in [Workers -> WorkerPcs] /\ Leader \in Workers
  BY LogAssumption DEF TypeOK, WorkerTypes, Leader, Workers
<1>1. CASE EpochAdvance
  <2>1. /\ UNCHANGED <<ThLocalEpoch, CTIDW, wpc>> /\ GlobalEpoch' = GlobalEpoch + 1
        /\ wpc[Leader] \notin {"wal", "push"}
        /\ \A w \in Workers : ThLocalEpoch[w] = GlobalEpoch \/ ThLocalEpoch[w] = 0
    BY <1>1, AdvanceFrame DEF EpochAdvance
  <2> QED
    BY <1>0, <2>1 DEF EpochsOrdered, EpochTypes
<1>2. ASSUME NEW w \in Workers, WorkerStep(w) PROVE EpochsOrdered'
  <2>1. GlobalEpoch' = GlobalEpoch
    BY <1>2, WorkerFrame
  <2> QED
    BY <1>0, <1>2, <2>1, WorkerEpochs DEF EpochsOrdered, EpochTypes
<1>3. ASSUME NEW l \in Loggers, LoggerStep(l) PROVE EpochsOrdered'
  BY <1>3, LoggerFrame DEF EpochsOrdered
<1> QED
  BY <1>1, <1>2, <1>3 DEF Step

\* The loop of find_min_epoch goes through the logger's workers in order, so that
\* the last one is left until the end.
LEMMA LoopInvStep == TypeOK /\ EpochsOrdered /\ LoopInv /\ Step => LoopInv'
<1> SUFFICES ASSUME TypeOK, EpochsOrdered, LoopInv, Step PROVE LoopInv'
  OBVIOUS
<1>0. /\ GlobalEpoch \in Nat /\ lpc \in [Loggers -> LoggerPcs]
      /\ minEpoch \in [Loggers -> Nat] /\ todo \in [Loggers -> SUBSET Workers]
      /\ Infinity \in Nat /\ Infinity # 0
  BY LogAssumption DEF TypeOK, EpochTypes, LoggerTypes, Infinity
<1>1. CASE EpochAdvance
  <2>1. UNCHANGED <<lpc, minEpoch, todo>> /\ GlobalEpoch' = GlobalEpoch + 1
    BY <1>1, AdvanceFrame DEF EpochAdvance
  <2> QED
    BY <1>0, <2>1 DEF LoopInv
<1>2. ASSUME NEW w \in Workers, WorkerStep(w) PROVE LoopInv'
  BY <1>2, WorkerFrame DEF LoopInv
<1>3. ASSUME NEW l \in Loggers, LoggerStep(l) PROVE LoopInv'
  <2>0. UNCHANGED GlobalEpoch
    BY <1>3, LoggerFrame
  <2>1. CASE WaitDeq(l)
    <3>1. /\ lpc' = [lpc EXCEPT ![l] = "ctidw"]
          /\ todo' = [todo EXCEPT ![l] = WorkersOf(l)]
          /\ minEpoch' = [minEpoch EXCEPT ![l] = Infinity]
      BY <2>1 DEF WaitDeq, StartFindMin, LGoto
    <3>2. WorkersOf(l) # {}
      BY LogAssumption
    <3> QED
      BY <1>0, <2>0, <3>1, <3>2 DEF LoopInv
  <2>2. CASE FindMinCTIDW(l)
    <3>1. PICK w \in todo[l], m \in Nat :
             /\ \A v \in todo[l] : w <= v
             /\ m # 0 /\ (m = Infinity \/ m <= GlobalEpoch)
             /\ lpc[l] = "ctidw" /\ todo' = [todo EXCEPT ![l] = todo[l] \ {w}]
             /\ \/ todo[l] # {w} /\ minEpoch' = [minEpoch EXCEPT ![l] = m] /\ UNCHANGED lpc
                \/ /\ minEpoch' = [minEpoch EXCEPT ![l] = 0]
                   /\ lpc' = [lpc EXCEPT ![l] = "wait"]
                \/ /\ minEpoch' = [minEpoch EXCEPT ![l] = m]
                   /\ lpc' = [lpc EXCEPT ![l] = "qmin"]
      BY <2>2, FindMinStep
    <3>2. todo[l] \subseteq WorkersOf(l) /\ todo[l] \subseteq Nat
      BY <1>0, <3>1 DEF LoopInv, Workers
    <3>3. ASSUME todo[l] # {w} PROVE todo[l] \ {w} # {} /\ ~(\A v \in WorkersOf(l) : v <= w)
      <4>1. PICK v \in todo[l] : v # w
        BY <3>1, <3>3
      <4>2. v \in Nat /\ w \in Nat /\ w <= v /\ v \in WorkersOf(l)
        BY <3>1, <3>2
      <4> QED
        BY <4>1, <4>2
    <3> QED
      BY <1>0, <2>0, <3>1, <3>2, <3>3 DEF LoopInv
  <2>3. CASE \/ FindMinQueue(l) \/ FinishBuffer(l) \/ StoreThLocalDurable(l) \/ Deq(l)
             \/ WriteLog(l) \/ LoadThLocalDurable(l)
             \/ LoadDurableEpoch(l) \/ CasDurableEpoch(l) \/ WritePepoch(l) \/ Notify(l)
    <3>1. UNCHANGED todo /\ lpc'[l] # "ctidw"
      BY <1>0, <2>3 DEF FindMinQueue, FinishBuffer, StoreThLocalDurable, SendNid, Deq, WriteLog,
            LoadThLocalDurable, LoadDurableEpoch, CasDurableEpoch, WritePepoch, Notify, LGoto,
            LoggerPcs
    <3>2. \A k \in Loggers \ {l} : lpc'[k] = lpc[k] /\ minEpoch'[k] = minEpoch[k]
      BY <1>0, <2>3 DEF FindMinQueue, FinishBuffer, StoreThLocalDurable, SendNid, Deq, WriteLog,
            LoadThLocalDurable, LoadDurableEpoch, CasDurableEpoch, WritePepoch, Notify, LGoto
    <3> QED
      BY <1>0, <2>0, <3>1, <3>2 DEF LoopInv
  <2> QED
    BY <1>3, <2>1, <2>2, <2>3 DEF LoggerStep
<1> QED
  BY <1>1, <1>2, <1>3 DEF Step

\* A measurement stays below the epochs in wal: what find_min_epoch takes from
\* CTIDW is at most the epoch of the transaction the worker is in, and a later
\* transaction commits in the global epoch.
LEMMA MinEpochOpenStep ==
    TypeOK /\ EpochsOrdered /\ LoopInv /\ MinEpochOpen /\ Step => MinEpochOpen'
<1> SUFFICES ASSUME TypeOK, EpochsOrdered, LoopInv, MinEpochOpen, Step PROVE MinEpochOpen'
  OBVIOUS
<1>0. /\ GlobalEpoch \in Nat /\ ThLocalEpoch \in [Workers -> Nat] /\ CTIDW \in [Workers -> Nat]
      /\ wpc \in [Workers -> WorkerPcs] /\ lpc \in [Loggers -> LoggerPcs]
      /\ minEpoch \in [Loggers -> Nat] /\ ThLocalDurableEpoch \in [Loggers -> Nat]
  BY DEF TypeOK, EpochTypes, WorkerTypes, LoggerTypes, DurableTypes
<1>a. \A l \in Loggers : WorkersOf(l) \subseteq Workers
  BY DEF WorkersOf
<1> USE DEF LGoto, Measured, MakingDurable
<1>1. CASE EpochAdvance
  <2>1. UNCHANGED <<ThLocalEpoch, wpc, lpc, minEpoch, ThLocalDurableEpoch>>
    BY <1>1, AdvanceFrame
  <2>2. GlobalEpoch' = GlobalEpoch + 1
    BY <1>1 DEF EpochAdvance
  <2> QED
    BY <1>0, <2>1, <2>2 DEF MinEpochOpen
<1>2. ASSUME NEW w \in Workers, WorkerStep(w) PROVE MinEpochOpen'
  <2>1. UNCHANGED <<GlobalEpoch, lpc, minEpoch, ThLocalDurableEpoch>>
    BY <1>2, WorkerFrame
  <2>2. \A v \in Workers : wpc'[v] \in {"wal", "push"} =>
          \/ wpc[v] \in {"wal", "push"} /\ ThLocalEpoch'[v] = ThLocalEpoch[v]
          \/ ThLocalEpoch'[v] = GlobalEpoch
    BY <1>0, <1>2, WorkerEpochs
  <2> QED
    BY <1>0, <1>a, <2>1, <2>2 DEF MinEpochOpen
<1>3. ASSUME NEW l \in Loggers, LoggerStep(l) PROVE MinEpochOpen'
  <2>0. UNCHANGED <<GlobalEpoch, ThLocalEpoch, wpc>>
    BY <1>3, LoggerFrame
  <2>1. CASE FindMinCTIDW(l)
    <3>1. PICK w \in todo[l], m \in Nat :
             /\ m = Infinity \/ m <= GlobalEpoch
             /\ CTIDW[w] # 0 => m <= CTIDW[w]
             /\ lpc[l] = "ctidw"
             /\ \/ minEpoch' = [minEpoch EXCEPT ![l] = m] /\ UNCHANGED lpc
                \/ /\ minEpoch' = [minEpoch EXCEPT ![l] = 0]
                   /\ lpc' = [lpc EXCEPT ![l] = "wait"]
                \/ /\ todo[l] = {w} /\ m # Infinity
                   /\ minEpoch' = [minEpoch EXCEPT ![l] = m]
                   /\ lpc' = [lpc EXCEPT ![l] = "qmin"]
      BY <2>1, FindMinStep
    <3>2. UNCHANGED ThLocalDurableEpoch
      BY <2>1 DEF FindMinCTIDW, durableVars
    <3>3. ASSUME lpc' = [lpc EXCEPT ![l] = "qmin"], todo[l] = {w}, m <= GlobalEpoch,
                 NEW v \in WorkersOf(l), SkippedSafely(v), wpc[v] \in {"wal", "push"}
          PROVE  m <= ThLocalEpoch[v]
      <4>1. CASE v = Leader
        <5>1. ThLocalEpoch[v] = GlobalEpoch
          BY <3>3, <4>1 DEF EpochsOrdered
        <5> QED
          BY <3>3, <5>1
      <4>2. CASE \A u \in WorkersOf(LoggerOf[v]) : u <= v
        <5>1. LoggerOf[v] = l /\ v \in Workers
          BY <3>3 DEF WorkersOf
        <5>2. v = w
          BY <3>1, <3>3, <4>2, <5>1 DEF LoopInv
        <5>3. /\ CTIDW[v] # 0 /\ CTIDW[v] <= ThLocalEpoch[v]
              /\ CTIDW[v] \in Nat /\ ThLocalEpoch[v] \in Nat
          BY <1>0, <3>3, <5>1 DEF EpochsOrdered
        <5> QED
          BY <3>1, <5>2, <5>3
      <4> QED
        BY <3>3, <4>1, <4>2 DEF SkippedSafely
    <3> QED
      BY <1>0, <1>a, <2>0, <3>1, <3>2, <3>3 DEF MinEpochOpen
  <2>2. CASE FindMinQueue(l)
    <3> DEFINE m == Least({minEpoch[l]} \cup {q.epoch : q \in queue[l]})
    <3>1. m \in Nat /\ m <= minEpoch[l]
      <4>1. {minEpoch[l]} \cup {q.epoch : q \in queue[l]} \in SUBSET Nat
        BY <1>0 DEF TypeOK, BufferTypes, Entries
      <4> QED
        BY <4>1, LeastIsMin
    <3>2. /\ \/ /\ minEpoch' = [minEpoch EXCEPT ![l] = m]
                /\ \/ ThLocalDurableEpoch[l] < m - 1 /\ lpc' = [lpc EXCEPT ![l] = "min"]
                   \/ lpc' = [lpc EXCEPT ![l] = "deq"]
             \/ minEpoch' = [minEpoch EXCEPT ![l] = 0] /\ lpc' = [lpc EXCEPT ![l] = "wait"]
          /\ lpc[l] = "qmin"
          /\ UNCHANGED ThLocalDurableEpoch
      BY <2>2 DEF FindMinQueue, SendNid, durableVars
    <3> HIDE DEF m
    <3> QED
      BY <1>0, <1>a, <2>0, <3>1, <3>2 DEF MinEpochOpen
  <2>3. CASE FinishBuffer(l)
    <3>1. /\ \/ /\ minEpoch' = minEpoch
                /\ \/ ThLocalDurableEpoch[l] < minEpoch[l] - 1 /\ lpc' = [lpc EXCEPT ![l] = "min"]
                   \/ lpc' = [lpc EXCEPT ![l] = "write"]
             \/ minEpoch' = [minEpoch EXCEPT ![l] = 0] /\ lpc' = [lpc EXCEPT ![l] = "wait"]
          /\ lpc[l] = "tail"
          /\ UNCHANGED ThLocalDurableEpoch
      BY <1>0, <2>3 DEF FinishBuffer, SendNid, durableVars
    <3> QED
      BY <1>0, <1>a, <2>0, <3>1 DEF MinEpochOpen
  <2>4. CASE StoreThLocalDurable(l)
    <3>1. /\ ThLocalDurableEpoch' = [ThLocalDurableEpoch EXCEPT ![l] = minEpoch[l] - 1]
          /\ minEpoch' = [minEpoch EXCEPT ![l] = 0]
          /\ lpc[l] = "store" /\ lpc' = [lpc EXCEPT ![l] = "wait"]
      BY <2>4 DEF StoreThLocalDurable, NewDl
    <3> QED
      BY <1>0, <1>a, <2>0, <3>1 DEF MinEpochOpen
  <2>6. CASE WaitDeq(l)
    <3>1. /\ lpc' = [lpc EXCEPT ![l] = "ctidw"] /\ UNCHANGED ThLocalDurableEpoch
          /\ minEpoch' = [minEpoch EXCEPT ![l] = Infinity]
      BY <2>6 DEF WaitDeq, StartFindMin, durableVars
    <3> QED
      BY <1>0, <1>a, <2>0, <3>1 DEF MinEpochOpen
  <2>5. CASE \/ Deq(l) \/ WriteLog(l) \/ LoadThLocalDurable(l)
             \/ LoadDurableEpoch(l) \/ CasDurableEpoch(l) \/ WritePepoch(l) \/ Notify(l)
    <3>1. UNCHANGED <<minEpoch, ThLocalDurableEpoch>>
      BY <2>5 DEF Deq, WriteLog, LoadThLocalDurable, LoadDurableEpoch, CasDurableEpoch,
                  WritePepoch, Notify, durableVars
    <3>2. /\ \A m \in Loggers \ {l} : lpc'[m] = lpc[m]
          /\ lpc'[l] \in Measured => lpc[l] \in Measured
          /\ lpc'[l] \in MakingDurable => lpc[l] \in MakingDurable
      BY <1>0, <2>5 DEF Deq, WriteLog, LoadThLocalDurable, LoadDurableEpoch,
                  CasDurableEpoch, WritePepoch, Notify
    <3> HIDE DEF Measured, MakingDurable
    <3> QED
      BY <1>0, <1>a, <2>0, <3>1, <3>2 DEF MinEpochOpen
  <2> QED
    BY <1>3, <2>1, <2>2, <2>3, <2>4, <2>5, <2>6 DEF LoggerStep
<1> QED
  BY <1>1, <1>2, <1>3 DEF Step

\* The local durable epoch of a logger only grows.
LEMMA LocalDurableGrows ==
    ASSUME TypeOK, MinEpochOpen, Step
    PROVE  \A l \in Loggers :
             ThLocalDurableEpoch'[l] \in Nat /\ ThLocalDurableEpoch[l] <= ThLocalDurableEpoch'[l]
<1> DEFINE Grows == \A l \in Loggers : /\ ThLocalDurableEpoch'[l] \in Nat
                                       /\ ThLocalDurableEpoch[l] <= ThLocalDurableEpoch'[l]
<1>0. ThLocalDurableEpoch \in [Loggers -> Nat] /\ minEpoch \in [Loggers -> Nat]
  BY DEF TypeOK, LoggerTypes, DurableTypes
<1>1. ASSUME NEW l \in Loggers, StoreThLocalDurable(l) PROVE Grows
  <2>1. ThLocalDurableEpoch[l] < minEpoch[l] - 1
    BY <1>1 DEF StoreThLocalDurable, MinEpochOpen, MakingDurable
  <2>2. ThLocalDurableEpoch' = [ThLocalDurableEpoch EXCEPT ![l] = minEpoch[l] - 1]
    BY <1>1 DEF StoreThLocalDurable, NewDl
  <2> QED
    BY <1>0, <2>1, <2>2
<1>2. ASSUME NEW l \in Loggers, LoggerStep(l), ~StoreThLocalDurable(l)
      PROVE  UNCHANGED ThLocalDurableEpoch
  BY <1>2 DEF LoggerStep, WaitDeq, FindMinCTIDW, FindMinQueue, Deq, WriteLog, FinishBuffer,
              LoadThLocalDurable, LoadDurableEpoch, CasDurableEpoch, WritePepoch, Notify,
              durableVars
<1>3. UNCHANGED ThLocalDurableEpoch => Grows
  BY <1>0
<1> QED
  BY <1>1, <1>2, <1>3, WorkerFrame, AdvanceFrame DEF Step

\* The loop of check_durable finds a bound on all local durable epochs, which
\* only grow, so that DurableEpoch and pepoch.seal never get ahead of them.
LEMMA DurableInvStep == TypeOK /\ MinEpochOpen /\ DurableInv /\ Step => DurableInv'
<1> SUFFICES ASSUME TypeOK, MinEpochOpen, DurableInv, Step PROVE DurableInv'
  OBVIOUS
<1>0. /\ ThLocalDurableEpoch \in [Loggers -> Nat] /\ DurableEpoch \in Nat /\ pepoch \in Nat
      /\ lpc \in [Loggers -> LoggerPcs] /\ minDl \in [Loggers -> Nat]
      /\ idx \in [Loggers -> Loggers] /\ loadedD \in [Loggers -> Nat]
  BY DEF TypeOK, LoggerTypes, DurableTypes
<1>a. \A l \in Loggers :
        ThLocalDurableEpoch'[l] \in Nat /\ ThLocalDurableEpoch[l] <= ThLocalDurableEpoch'[l]
  BY LocalDurableGrows
<1>b. \A l \in Loggers : l \in Int
  BY DEF Loggers
<1> USE DEF LGoto
<1>1. ASSUME UNCHANGED <<lpc, minDl, idx, loadedD, DurableEpoch, pepoch>> PROVE DurableInv'
  BY <1>0, <1>1, <1>a, <1>b DEF DurableInv, MinDlBelow, DurableEpochBounded
<1>2. ASSUME NEW l \in Loggers, LoadThLocalDurable(l) PROVE DurableInv'
  <2> DEFINE new == Least({minDl[l], ThLocalDurableEpoch[idx[l]]})
  <2>1. new \in Nat /\ new <= minDl[l] /\ new <= ThLocalDurableEpoch[idx[l]]
    <3>1. {minDl[l], ThLocalDurableEpoch[idx[l]]} \in SUBSET Nat
      BY <1>0
    <3> QED
      BY <3>1, LeastIsMin
  <2>2. /\ lpc[l] = "min"
        /\ minDl' = [minDl EXCEPT ![l] = new]
        /\ UNCHANGED <<loadedD, pepoch, DurableEpoch, ThLocalDurableEpoch>>
        /\ IF MoreLoggers(idx[l])
           THEN idx' = [idx EXCEPT ![l] = idx[l] + 1] /\ UNCHANGED lpc
           ELSE idx' = [idx EXCEPT ![l] = 0] /\ lpc' = [lpc EXCEPT ![l] = "load"]
    BY <1>2 DEF LoadThLocalDurable, fileVars, durableVars
  <2> HIDE DEF new
  <2>3. /\ \A m \in Loggers : m < idx[l] + 1 => new <= ThLocalDurableEpoch[m]
        /\ ~MoreLoggers(idx[l]) => \A m \in Loggers : m < idx[l] + 1
    <3>1. \A m \in Loggers : m < idx[l] + 1 => m < idx[l] \/ m = idx[l]
      BY <1>0, <1>b
    <3>2. \A m \in Loggers : m < idx[l] => minDl[l] <= ThLocalDurableEpoch[m]
      BY <2>2 DEF DurableInv, MinDlBelow
    <3>3. ~MoreLoggers(idx[l]) => \A m \in Loggers : m < idx[l] + 1
      <4>1. NL \in Nat /\ idx[l] \in Loggers
        BY <1>0, LogAssumption
      <4> QED
        BY <4>1 DEF MoreLoggers, Loggers
    <3>4. ASSUME NEW m \in Loggers, m < idx[l] + 1 PROVE new <= ThLocalDurableEpoch[m]
      <4>1. CASE m = idx[l]
        BY <2>1, <4>1
      <4>2. CASE m < idx[l]
        <5>1. minDl[l] <= ThLocalDurableEpoch[m] /\ minDl[l] \in Nat /\ ThLocalDurableEpoch[m] \in Nat
          BY <1>0, <3>2, <4>2
        <5> QED
          BY <2>1, <5>1
      <4> QED
        BY <3>1, <3>4, <4>1, <4>2
    <3> QED
      BY <3>3, <3>4
  <2>4. DurableEpochBounded'
    BY <2>2 DEF DurableInv, DurableEpochBounded
  <2>5. MinDlBelow'
    BY <1>0, <2>1, <2>2, <2>3 DEF DurableInv, MinDlBelow
  <2> QED
    BY <2>4, <2>5 DEF DurableInv
<1>3. ASSUME NEW l \in Loggers, LoadDurableEpoch(l) PROVE DurableInv'
  <2>1. /\ lpc[l] = "load"
        /\ loadedD' = [loadedD EXCEPT ![l] = DurableEpoch]
        /\ lpc' = [lpc EXCEPT ![l] = IF DurableEpoch < minDl[l] THEN "cas" ELSE "notify"]
        /\ UNCHANGED <<minDl, idx, pepoch, DurableEpoch, ThLocalDurableEpoch>>
    BY <1>3 DEF LoadDurableEpoch, fileVars, durableVars
  <2> QED
    BY <1>0, <2>1 DEF DurableInv, MinDlBelow, DurableEpochBounded
<1>4. ASSUME NEW l \in Loggers, CasDurableEpoch(l) PROVE DurableInv'
  <2>1. /\ lpc[l] = "cas"
        /\ IF DurableEpoch = loadedD[l]
           THEN DurableEpoch' = minDl[l] /\ lpc' = [lpc EXCEPT ![l] = "pepoch"]
           ELSE DurableEpoch' = DurableEpoch /\ lpc' = [lpc EXCEPT ![l] = "notify"]
        /\ UNCHANGED <<minDl, idx, loadedD, pepoch, ThLocalDurableEpoch>>
    BY <1>4 DEF CasDurableEpoch, NewDurableEpoch, fileVars
  <2>2. DurableEpoch' \in Nat /\ DurableEpoch <= DurableEpoch'
    BY <1>0, <2>1 DEF DurableInv, MinDlBelow
  <2> QED
    BY <1>0, <2>1, <2>2 DEF DurableInv, MinDlBelow, DurableEpochBounded
<1>5. ASSUME NEW l \in Loggers, WritePepoch(l) PROVE DurableInv'
  <2>1. /\ lpc[l] = "pepoch" /\ pepoch' = minDl[l] /\ lpc' = [lpc EXCEPT ![l] = "notify"]
        /\ UNCHANGED <<minDl, idx, loadedD, DurableEpoch, ThLocalDurableEpoch>>
    BY <1>5 DEF WritePepoch, durableVars
  <2> QED
    BY <1>0, <2>1 DEF DurableInv, MinDlBelow, DurableEpochBounded
<1>6. ASSUME NEW l \in Loggers,
             \/ WaitDeq(l) \/ FindMinCTIDW(l) \/ FindMinQueue(l) \/ Deq(l) \/ WriteLog(l)
             \/ FinishBuffer(l) \/ Notify(l) \/ StoreThLocalDurable(l)
      PROVE  DurableInv'
  <2>1. UNCHANGED <<idx, DurableEpoch, pepoch>>
    BY <1>6 DEF WaitDeq, FindMinCTIDW, FindMinQueue, Deq, WriteLog, FinishBuffer, Notify,
                StoreThLocalDurable, fileVars, durableVars
  <2>2. \E pc \in {"wait", "ctidw", "qmin", "deq", "write", "tail", "min", "store"} :
          lpc' = [lpc EXCEPT ![l] = pc]
    BY <1>0, <1>6 DEF WaitDeq, FindMinCTIDW, FindMinQueue, Deq, WriteLog, FinishBuffer, Notify, SendNid,
                StoreThLocalDurable
  <2>3. \A m \in Loggers \ {l} : minDl'[m] = minDl[m] /\ loadedD'[m] = loadedD[m]
    BY <1>0, <1>6 DEF WaitDeq, FindMinCTIDW, FindMinQueue, Deq, WriteLog, FinishBuffer, Notify,
                SendNid, StoreThLocalDurable
  <2>4. DurableEpochBounded'
    BY <1>0, <1>a, <2>1 DEF DurableInv, DurableEpochBounded
  <2>5. \A m \in Loggers : ~(m < 0)
    BY DEF Loggers
  <2>6. lpc[l] # "min"
    BY <1>6 DEF WaitDeq, FindMinCTIDW, FindMinQueue, Deq, WriteLog, FinishBuffer, Notify,
                StoreThLocalDurable
  <2>7. MinDlBelow'
    BY <1>0, <1>a, <2>1, <2>2, <2>3, <2>5, <2>6 DEF DurableInv, MinDlBelow
  <2> QED
    BY <2>4, <2>7 DEF DurableInv
<1> QED
  BY <1>1, <1>2, <1>3, <1>4, <1>5, <1>6, WorkerFrame, AdvanceFrame DEF Step, LoggerStep

\* A transaction in wal stays above the durable epoch of its logger and, that
\* being a bound on DurableEpoch, above the durable epoch of the system.
LEMMA EpochInvStep == TypeOK /\ EpochInv /\ DurableInv /\ Step => EpochInv'
<1> SUFFICES ASSUME TypeOK, EpochInv, DurableInv, Step PROVE EpochInv'
  OBVIOUS
<1>0. /\ GlobalEpoch \in Nat /\ ThLocalEpoch \in [Workers -> Nat]
      /\ wpc \in [Workers -> WorkerPcs] /\ minEpoch \in [Loggers -> Nat]
      /\ ThLocalDurableEpoch \in [Loggers -> Nat]
  BY DEF TypeOK, EpochTypes, WorkerTypes, LoggerTypes, DurableTypes
<1>a. \A w \in Workers : LoggerOf[w] \in Loggers
  BY LogAssumption
<1>b. DurableTypes' /\ EpochTypes' /\ DurableInv'
  BY DurableTypesStep, EpochTypesStep, DurableInvStep DEF EpochInv, TypeOK
<1> DEFINE Above == \A w \in Workers :
                      SkippedSafely(w) /\ wpc[w] \in {"wal", "push"} =>
                        ThLocalDurableEpoch[LoggerOf[w]] < ThLocalEpoch[w]
<1>1. Above
  BY DEF EpochInv, DurableEpochClosed
<1>2. ASSUME EpochAdvance PROVE Above'
  BY <1>1, <1>2, AdvanceFrame
<1>3. ASSUME NEW w \in Workers, WorkerStep(w) PROVE Above'
  <2>1. UNCHANGED ThLocalDurableEpoch
    BY <1>3, WorkerFrame
  <2>2. \A v \in Workers : wpc'[v] \in {"wal", "push"} =>
          \/ wpc[v] \in {"wal", "push"} /\ ThLocalEpoch'[v] = ThLocalEpoch[v]
          \/ ThLocalEpoch'[v] = GlobalEpoch
    BY <1>0, <1>3, WorkerEpochs DEF EpochInv
  <2>3. \A l \in Loggers : ThLocalDurableEpoch[l] < GlobalEpoch
    BY DEF EpochInv, MinEpochOpen
  <2> QED
    BY <1>1, <1>a, <2>1, <2>2, <2>3
<1>4. ASSUME NEW l \in Loggers, LoggerStep(l) PROVE Above'
  <2>1. UNCHANGED <<wpc, ThLocalEpoch>>
    BY <1>4, LoggerFrame
  <2>2. CASE StoreThLocalDurable(l)
    <3>1. ThLocalDurableEpoch' = [ThLocalDurableEpoch EXCEPT ![l] = minEpoch[l] - 1]
      BY <2>2 DEF StoreThLocalDurable, NewDl
    <3>2. \A w \in Workers : SkippedSafely(w) /\ LoggerOf[w] = l /\ wpc[w] \in {"wal", "push"} =>
                               minEpoch[l] <= ThLocalEpoch[w]
      BY <2>2 DEF StoreThLocalDurable, EpochInv, MinEpochOpen, Measured, WorkersOf
    <3> QED
      BY <1>0, <1>1, <1>a, <2>1, <3>1, <3>2
  <2>3. CASE ~StoreThLocalDurable(l)
    <3>1. UNCHANGED ThLocalDurableEpoch
      BY <1>4, <2>3 DEF LoggerStep, WaitDeq, FindMinCTIDW, FindMinQueue, Deq, WriteLog,
           FinishBuffer, LoadThLocalDurable, LoadDurableEpoch, CasDurableEpoch, WritePepoch,
           Notify, durableVars
    <3> QED
      BY <1>1, <2>1, <3>1
  <2> QED
    BY <2>2, <2>3
<1>5. Above'
  BY <1>2, <1>3, <1>4 DEF Step
<1>6. DurableEpochClosed'
  <2>1. \A l \in Loggers : DurableEpoch' <= ThLocalDurableEpoch'[l]
    BY <1>b DEF DurableInv, DurableEpochBounded
  <2>2. /\ DurableEpoch' \in Nat
        /\ \A l \in Loggers : ThLocalDurableEpoch'[l] \in Nat
        /\ \A w \in Workers : ThLocalEpoch'[w] \in Nat
    BY <1>b DEF DurableTypes, EpochTypes
  <2>3. ASSUME NEW w \in Workers, wpc'[w] \in {"wal", "push"}
        PROVE  \A l \in Loggers : ThLocalDurableEpoch'[l] <= ThLocalEpoch'[w]
    <3>1. EpochsOrdered' /\ MinEpochOpen'
      BY EpochsOrderedStep, MinEpochOpenStep DEF EpochInv
    <3>2. /\ CTIDW'[w] # 0 /\ CTIDW'[w] <= ThLocalEpoch'[w]
          /\ ThLocalEpoch'[w] # 0 => GlobalEpoch' <= ThLocalEpoch'[w] + 1
      BY <2>3, <3>1 DEF EpochsOrdered
    <3>3. CTIDW'[w] \in Nat /\ GlobalEpoch' \in Nat
      BY <1>b DEF EpochTypes
    <3>4. \A l \in Loggers : ThLocalDurableEpoch'[l] < GlobalEpoch'
      BY <3>1 DEF MinEpochOpen
    <3> QED
      BY <2>2, <3>2, <3>3, <3>4
  <2> QED
    BY <1>5, <1>a, <2>1, <2>2, <2>3 DEF DurableEpochClosed
<1> QED
  BY <1>6, EpochsOrderedStep, LoopInvStep, MinEpochOpenStep DEF EpochInv

-----------------------------------------------------------------------------
(* Buffers                                                                 *)

\* A worker that waits for no buffer has one.
LEMMA HasBufferStep == TypeOK /\ HasBuffer /\ Step => HasBuffer'
<1> SUFFICES ASSUME TypeOK, HasBuffer, Step PROVE HasBuffer'
  OBVIOUS
<1>0. wpc \in [Workers -> WorkerPcs] /\ current \in [Workers -> Buffers \cup {NULL}]
  BY DEF TypeOK, WorkerTypes, BufferTypes
<1>a. \A b \in Buffers : b # NULL
  BY DEF Buffers, NULL
<1> USE DEF WGoto
<1>1. ASSUME UNCHANGED <<wpc, current>> PROVE HasBuffer'
  BY <1>1 DEF HasBuffer
<1>2. ASSUME NEW w \in Workers, \/ EpochWork(w) \/ SameEpoch(w) \/ EpochWorkCTIDW(w)
                                \/ NoTransaction(w) \/ ValidationFails(w)
                                \/ \E n \in Nids \cup {NoNid} : Commit(w, n)
      PROVE  HasBuffer'
  BY <1>0, <1>2 DEF EpochWork, SameEpoch, EpochWorkCTIDW, NoTransaction, ValidationFails, Commit,
                    HasBuffer
<1>3. ASSUME NEW w \in Workers, PublishOnEpochChange(w) PROVE HasBuffer'
  <2>1. current' \in {current, [current EXCEPT ![w] = NULL]}
    BY <1>3 DEF PublishOnEpochChange, Publish
  <2>2. wpc' = [wpc EXCEPT ![w] = IF current'[w] = NULL THEN "ready" ELSE "tx"]
    BY <1>3 DEF PublishOnEpochChange
  <2> QED
    BY <1>0, <2>1, <2>2 DEF HasBuffer
<1>4. ASSUME NEW w \in Workers, WalPublish(w) PROVE HasBuffer'
  <2>1. current' \in {current, [current EXCEPT ![w] = NULL]} /\ wpc' = [wpc EXCEPT ![w] = "push"]
    BY <1>4 DEF WalPublish, Publish
  <2> QED
    BY <1>0, <2>1 DEF HasBuffer
<1>5. ASSUME NEW w \in Workers, WaitReady(w) \/ WalPush(w) PROVE HasBuffer'
  <2>1. \/ wpc' = [wpc EXCEPT ![w] = "spin"] /\ UNCHANGED current
        \/ /\ wpc' \in {[wpc EXCEPT ![w] = "tx"], [wpc EXCEPT ![w] = "loop"]}
           /\ \E b \in Buffers : IsReady(w, b)
    BY <1>5 DEF WaitReady, WalPush
  <2>2. \A b \in Buffers : IsReady(w, b) => current' = [current EXCEPT ![w] = b]
    BY <1>0 DEF IsReady
  <2> QED
    BY <1>0, <1>a, <2>1, <2>2 DEF HasBuffer
<1> QED
  BY <1>1, <1>2, <1>3, <1>4, <1>5, LoggerFrame, AdvanceFrame
  DEF Step, WorkerStep, CommitWrite, CommitReadOnly, Nids

\* LogBufferPool::publish moves the current buffer to the queue of the worker's
\* logger, which had it nowhere before.
LEMMA PublishHome ==
    ASSUME BufferTypes, Routed, BufferOneHome, NEW w \in Workers, current[w] # NULL, Publish(w),
           UNCHANGED <<pool, batch, buffer, lpc, writing>>
    PROVE  Routed' /\ BufferOneHome'
<1> DEFINE q == [epoch |-> CurrentBuffer(w).minE, w |-> w, b |-> current[w]]
           k == LoggerOf[w]
<1>0. /\ current \in [Workers -> Buffers \cup {NULL}] /\ queue \in [Loggers -> SUBSET Entries]
      /\ current[w] \in Buffers /\ k \in Loggers
  BY LogAssumption DEF BufferTypes
<1>1. CASE CurrentBuffer(w).nids = {}
  <2>1. UNCHANGED <<queue, current>>
    BY <1>1 DEF Publish
  <2> QED
    BY <2>1 DEF Routed, BufferOneHome, InFlight
<1>2. CASE CurrentBuffer(w).nids # {}
  <2>1. queue' = [queue EXCEPT ![k] = @ \cup {q}] /\ current' = [current EXCEPT ![w] = NULL]
    BY <1>2 DEF Publish
  <2>2. q.w = w /\ q.b = current[w]
    OBVIOUS
  <2> HIDE DEF q
  <2>3. InFlight(w, current[w]) = {} /\ current[w] \notin pool[w]
    BY <1>0 DEF BufferOneHome
  <2>4. q \notin batch[k]
    BY <2>2, <2>3 DEF InFlight
  <2>5. Routed'
    BY <1>0, <2>1, <2>2, <2>4 DEF Routed
  <2>6. \A v \in Workers, b \in Buffers :
          InFlight(v, b)' = IF v = w /\ b = current[w] THEN {q} ELSE InFlight(v, b)
    <3> SUFFICES ASSUME NEW v \in Workers, NEW b \in Buffers
                 PROVE  InFlight(v, b)' = IF v = w /\ b = current[w] THEN {q} ELSE InFlight(v, b)
      OBVIOUS
    <3>1. queue'[LoggerOf[v]] = IF LoggerOf[v] = k THEN queue[k] \cup {q} ELSE queue[LoggerOf[v]]
      <4>1. LoggerOf[v] \in Loggers
        BY LogAssumption
      <4> QED
        BY <1>0, <2>1, <4>1
    <3> QED
      BY <2>2, <2>3, <3>1 DEF InFlight
  <2>7. BufferOneHome'
    <3> SUFFICES ASSUME NEW v \in Workers, NEW b \in Buffers
                 PROVE  /\ b \in pool'[v] => buffer'[v][b] = EmptyBuffer
                        /\ \/ current'[v] = b /\ b \notin pool'[v] /\ InFlight(v, b)' = {}
                           \/ current'[v] # b /\ b \in pool'[v] /\ InFlight(v, b)' = {}
                           \/ /\ current'[v] # b /\ b \notin pool'[v]
                              /\ \E r \in InFlight(v, b)' : InFlight(v, b)' = {r}
      BY DEF BufferOneHome
    <3>1. b # NULL
      BY DEF Buffers, NULL
    <3>2. CASE v = w /\ b = current[w]
      BY <1>0, <2>1, <2>3, <2>6, <3>1, <3>2
    <3>3. CASE ~(v = w /\ b = current[w])
      BY <1>0, <2>1, <2>6, <3>1, <3>3 DEF BufferOneHome
    <3> QED
      BY <3>2, <3>3
  <2> QED
    BY <2>5, <2>7
<1> QED
  BY <1>1, <1>2

\* LogBufferPool::is_ready moves a free buffer, if any, to the worker, and push
\* changes no other buffer than the current one.
LEMMA ReadyHome ==
    ASSUME BufferTypes, BufferOneHome, NEW w \in Workers, NEW b \in Buffers, IsReady(w, b),
           UNCHANGED <<queue, batch>>,
           \A v \in Workers, c \in Buffers : v # w \/ c # b => buffer'[v][c] = buffer[v][c]
    PROVE  BufferOneHome'
<1>0. current \in [Workers -> Buffers \cup {NULL}] /\ pool \in [Workers -> SUBSET Buffers]
  BY DEF BufferTypes
<1>1. \A v \in Workers, c \in Buffers : InFlight(v, c)' = InFlight(v, c)
  BY DEF InFlight
<1>2. b # NULL
  BY DEF Buffers, NULL
<1> SUFFICES ASSUME NEW v \in Workers, NEW c \in Buffers
             PROVE  /\ c \in pool'[v] => buffer'[v][c] = EmptyBuffer
                    /\ \/ current'[v] = c /\ c \notin pool'[v] /\ InFlight(v, c)' = {}
                       \/ current'[v] # c /\ c \in pool'[v] /\ InFlight(v, c)' = {}
                       \/ /\ current'[v] # c /\ c \notin pool'[v]
                          /\ \E r \in InFlight(v, c)' : InFlight(v, c)' = {r}
  BY DEF BufferOneHome
<1>3. /\ current' = [current EXCEPT ![w] = b]
      /\ pool' = [pool EXCEPT ![w] = @ \ {b}]
      /\ InFlight(w, b) = {}
      /\ current[w] = b \/ current[w] = NULL
  BY <1>0, <1>2 DEF IsReady, BufferOneHome
<1>4. CASE v = w /\ c = b
  BY <1>0, <1>1, <1>3, <1>4
<1>5. CASE ~(v = w /\ c = b)
  <2>1. /\ c \in pool'[v] <=> c \in pool[v]
        /\ current'[v] = c <=> current[v] = c
    BY <1>0, <1>3, <1>5 DEF Buffers, NULL
  <2> QED
    BY <1>1, <1>5, <2>1 DEF BufferOneHome
<1> QED
  BY <1>4, <1>5

\* LogBuffer::return_buffer: the buffer that has been written leaves the batch and
\* comes back, empty, to the worker it is from.
LEMMA FinishHome ==
    ASSUME TypeOK, Routed, BufferOneHome, NEW l \in Loggers, FinishBuffer(l)
    PROVE  Routed' /\ BufferOneHome'
<1> DEFINE q == writing[l]
<1>0. /\ current \in [Workers -> Buffers \cup {NULL}] /\ pool \in [Workers -> SUBSET Buffers]
      /\ buffer \in [Workers -> [Buffers -> LogBuffers]]
      /\ batch \in [Loggers -> SUBSET Entries] /\ lpc \in [Loggers -> LoggerPcs]
  BY DEF TypeOK, BufferTypes, LoggerTypes
<1>1. q \in batch[l] /\ LoggerOf[q.w] = l /\ q \notin queue[l]
  BY DEF FinishBuffer, Routed
<1>2. q.w \in Workers /\ q.b \in Buffers
  BY <1>0, <1>1 DEF Entries
<1>3. /\ buffer' = [buffer EXCEPT ![q.w][q.b] = EmptyBuffer]
      /\ pool' = [pool EXCEPT ![q.w] = @ \cup {q.b}]
      /\ batch' = [batch EXCEPT ![l] = @ \ {q}]
      /\ UNCHANGED <<queue, current>>
  BY DEF FinishBuffer, ReturnBuffer
<1>4. \/ lpc' = [lpc EXCEPT ![l] = "write"]
      \/ batch[l] = {q} /\ \E pc \in {"min", "wait"} : lpc' = [lpc EXCEPT ![l] = pc]
  BY DEF FinishBuffer, SendNid, LGoto
<1>5. \A m \in Loggers \ {l} : writing'[m] = writing[m]
  BY <1>0 DEF FinishBuffer, TypeOK, BufferTypes
<1> HIDE DEF q
<1>6. Routed'
  <2>1. \A m \in Loggers \ {l} : lpc'[m] = lpc[m] /\ batch'[m] = batch[m]
    BY <1>0, <1>3, <1>4
  <2>2. batch'[l] = batch[l] \ {q} /\ lpc'[l] # "tail" /\ (lpc'[l] # "write" => batch'[l] = {})
    BY <1>0, <1>3, <1>4
  <2> QED
    BY <1>3, <1>5, <2>1, <2>2 DEF Routed
<1>7. InFlight(q.w, q.b) = {q} /\ current[q.w] # q.b
  BY <1>1, <1>2 DEF BufferOneHome, InFlight
<1>8. \A v \in Workers, c \in Buffers :
        InFlight(v, c)' = IF v = q.w /\ c = q.b THEN {} ELSE InFlight(v, c)
  <2> SUFFICES ASSUME NEW v \in Workers, NEW c \in Buffers
               PROVE  InFlight(v, c)' = IF v = q.w /\ c = q.b THEN {} ELSE InFlight(v, c)
    OBVIOUS
  <2>1. LoggerOf[v] \in Loggers
    BY LogAssumption
  <2>2. batch'[LoggerOf[v]] = IF LoggerOf[v] = l THEN batch[l] \ {q} ELSE batch[LoggerOf[v]]
    BY <1>0, <1>3, <2>1
  <2>3. CASE v = q.w /\ c = q.b
    BY <1>1, <1>3, <1>7, <2>2, <2>3 DEF InFlight
  <2>4. CASE ~(v = q.w /\ c = q.b)
    BY <1>3, <2>2, <2>4 DEF InFlight
  <2> QED
    BY <2>3, <2>4
<1>9. BufferOneHome'
  <2> SUFFICES ASSUME NEW v \in Workers, NEW c \in Buffers
               PROVE  /\ c \in pool'[v] => buffer'[v][c] = EmptyBuffer
                      /\ \/ current'[v] = c /\ c \notin pool'[v] /\ InFlight(v, c)' = {}
                         \/ current'[v] # c /\ c \in pool'[v] /\ InFlight(v, c)' = {}
                         \/ /\ current'[v] # c /\ c \notin pool'[v]
                            /\ \E r \in InFlight(v, c)' : InFlight(v, c)' = {r}
    BY DEF BufferOneHome
  <2>1. CASE v = q.w /\ c = q.b
    BY <1>0, <1>2, <1>3, <1>7, <1>8, <2>1
  <2>2. CASE ~(v = q.w /\ c = q.b)
    <3>1. (c \in pool'[v] <=> c \in pool[v]) /\ buffer'[v][c] = buffer[v][c]
      BY <1>0, <1>2, <1>3, <2>2
    <3> QED
      BY <1>3, <1>8, <2>2, <3>1 DEF BufferOneHome
  <2> QED
    BY <2>1, <2>2
<1> QED
  BY <1>6, <1>9

\* Every step leaves each buffer in one place.
LEMMA HomeInvStep == TypeOK /\ HomeInv /\ Step => HomeInv'
<1> SUFFICES ASSUME TypeOK, HomeInv, Step PROVE Routed' /\ BufferOneHome'
  BY HasBufferStep DEF HomeInv
<1>0. BufferTypes /\ Routed /\ BufferOneHome
  BY DEF TypeOK, HomeInv
<1>a. /\ lpc \in [Loggers -> LoggerPcs] /\ writing \in [Loggers -> Entries \cup {NoEntry}]
      /\ queue \in [Loggers -> SUBSET Entries] /\ batch \in [Loggers -> SUBSET Entries]
  BY DEF TypeOK, BufferTypes, LoggerTypes
<1>1. ASSUME UNCHANGED <<current, pool, buffer, queue, batch, writing, lpc>>
      PROVE  Routed' /\ BufferOneHome'
  BY <1>0, <1>1 DEF Routed, BufferOneHome, InFlight
<1>2. ASSUME NEW w \in Workers, PublishOnEpochChange(w) \/ WalPublish(w)
      PROVE  Routed' /\ BufferOneHome'
  <2>1. UNCHANGED <<batch, lpc, writing>>
    BY <1>2, WorkerFrame DEF WorkerStep
  <2>2. UNCHANGED <<pool, buffer>>
    BY <1>2 DEF PublishOnEpochChange, WalPublish
  <2>3. Publish(w) \/ UNCHANGED <<queue, current>>
    BY <1>2 DEF PublishOnEpochChange, WalPublish
  <2>4. current[w] # NULL
    BY <1>2 DEF PublishOnEpochChange, WalPublish, HomeInv, HasBuffer
  <2> QED
    BY <1>0, <1>1, <2>1, <2>2, <2>3, <2>4, PublishHome
<1>3. ASSUME NEW w \in Workers, WaitReady(w) \/ WalPush(w) PROVE Routed' /\ BufferOneHome'
  <2>1. UNCHANGED <<batch, lpc, writing>>
    BY <1>3, WorkerFrame DEF WorkerStep
  <2>2. UNCHANGED queue
    BY <1>3 DEF WaitReady, WalPush
  <2>3. \/ UNCHANGED <<current, pool, buffer>>
        \/ \E b \in Buffers :
             /\ IsReady(w, b)
             /\ \/ buffer' = buffer
                \/ \E x \in {buffer'[w][b]} : buffer' = [buffer EXCEPT ![w][b] = x]
    <3>1. CASE WaitReady(w)
      BY <3>1 DEF WaitReady
    <3>2. CASE WalPush(w)
      <4>1. PICK b \in Buffers :
              /\ IsReady(w, b)
              /\ \/ buffer' = buffer
                 \/ \E x : buffer' = [buffer EXCEPT ![w][b] = x]
        BY <3>2 DEF WalPush
      <4>2. ASSUME NEW x, buffer' = [buffer EXCEPT ![w][b] = x] PROVE x = buffer'[w][b]
        BY <4>2 DEF TypeOK, BufferTypes
      <4> QED
        BY <4>1, <4>2
    <3> QED
      BY <1>3, <3>1, <3>2
  <2>4. CASE UNCHANGED <<current, pool, buffer>>
    BY <1>1, <2>1, <2>2, <2>4
  <2>5. ASSUME NEW b \in Buffers, IsReady(w, b),
               \/ buffer' = buffer
               \/ \E x \in {buffer'[w][b]} : buffer' = [buffer EXCEPT ![w][b] = x]
        PROVE  Routed' /\ BufferOneHome'
    <3>1. \A v \in Workers, c \in Buffers : v # w \/ c # b => buffer'[v][c] = buffer[v][c]
      BY <2>5 DEF TypeOK, BufferTypes
    <3>2. BufferOneHome'
      BY <1>0, <2>1, <2>2, <2>5, <3>1, ReadyHome
    <3>3. Routed'
      BY <1>0, <2>1, <2>2 DEF Routed
    <3> QED
      BY <3>2, <3>3
  <2> QED
    BY <2>3, <2>4, <2>5
<1>4. ASSUME NEW w \in Workers,
             \/ EpochWork(w) \/ SameEpoch(w) \/ EpochWorkCTIDW(w) \/ NoTransaction(w)
             \/ ValidationFails(w) \/ \E n \in Nids \cup {NoNid} : Commit(w, n)
      PROVE  Routed' /\ BufferOneHome'
  <2>1. UNCHANGED <<current, pool, buffer, queue, batch, writing, lpc>>
    BY <1>4 DEF EpochWork, SameEpoch, EpochWorkCTIDW, NoTransaction, ValidationFails, Commit,
                loggerVars
  <2> QED
    BY <1>1, <2>1
<1>5. ASSUME NEW l \in Loggers, Deq(l) PROVE Routed' /\ BufferOneHome'
  <2>1. /\ lpc[l] = "deq" /\ lpc' = [lpc EXCEPT ![l] = "write"]
        /\ batch' = [batch EXCEPT ![l] = queue[l]] /\ queue' = [queue EXCEPT ![l] = {}]
        /\ UNCHANGED <<current, pool, buffer, writing>>
    BY <1>5 DEF Deq, LGoto
  <2>2. batch[l] = {}
    BY <1>0, <2>1 DEF Routed
  <2>3. \A m \in Loggers : queue'[m] \cup batch'[m] = queue[m] \cup batch[m]
    BY <1>a, <2>1, <2>2
  <2>4. \A v \in Workers, c \in Buffers : InFlight(v, c)' = InFlight(v, c)
    BY <2>3, LogAssumption DEF InFlight
  <2>5. BufferOneHome'
    BY <1>0, <2>1, <2>4 DEF BufferOneHome
  <2>6. Routed'
    BY <1>0, <1>a, <2>1, <2>2, <2>3 DEF Routed
  <2> QED
    BY <2>5, <2>6
<1>6. ASSUME NEW l \in Loggers, WriteLog(l) PROVE Routed' /\ BufferOneHome'
  <2>1. /\ lpc' = [lpc EXCEPT ![l] = "tail"] /\ lpc[l] = "write"
        /\ \E q \in batch[l] : writing' = [writing EXCEPT ![l] = q]
        /\ UNCHANGED <<current, pool, buffer, queue, batch>>
    BY <1>6 DEF WriteLog, LGoto
  <2> QED
    BY <1>0, <1>a, <2>1 DEF Routed, BufferOneHome, InFlight
<1>7. ASSUME NEW l \in Loggers, FinishBuffer(l) PROVE Routed' /\ BufferOneHome'
  BY <1>0, <1>7, FinishHome
<1>8. ASSUME NEW l \in Loggers,
             \/ WaitDeq(l) \/ FindMinCTIDW(l) \/ FindMinQueue(l) \/ LoadThLocalDurable(l)
             \/ LoadDurableEpoch(l) \/ CasDurableEpoch(l) \/ WritePepoch(l) \/ Notify(l)
             \/ StoreThLocalDurable(l)
      PROVE  Routed' /\ BufferOneHome'
  <2>1. UNCHANGED <<current, pool, buffer, queue, batch, writing>>
    BY <1>8 DEF WaitDeq, FindMinCTIDW, FindMinQueue, LoadThLocalDurable, LoadDurableEpoch,
                CasDurableEpoch, WritePepoch, Notify, StoreThLocalDurable
  <2>2. lpc[l] \notin {"write", "tail"}
    BY <1>8 DEF WaitDeq, FindMinCTIDW, FindMinQueue, LoadThLocalDurable, LoadDurableEpoch,
                CasDurableEpoch, WritePepoch, Notify, StoreThLocalDurable
  <2>3. \E pc \in LoggerPcs \ {"write", "tail"} : lpc' = [lpc EXCEPT ![l] = pc]
    BY <1>8, <1>a DEF WaitDeq, FindMinCTIDW, FindMinQueue, SendNid, LoadThLocalDurable,
                LoadDurableEpoch, CasDurableEpoch, WritePepoch, Notify, StoreThLocalDurable,
                LGoto, LoggerPcs
  <2> QED
    BY <1>0, <1>a, <2>1, <2>2, <2>3 DEF Routed, BufferOneHome, InFlight
<1> QED
  BY <1>1, <1>2, <1>3, <1>4, <1>5, <1>6, <1>7, <1>8, AdvanceFrame
  DEF Step, WorkerStep, LoggerStep, CommitWrite, CommitReadOnly, Nids

-----------------------------------------------------------------------------
(* Committed transactions                                                  *)

\* The epoch of a committed transaction does not change.
LEMMA TxEpochStays ==
    ASSUME TypeOK, Step
    PROVE  \A n \in Nids : txEpoch[n] # 0 => txEpoch'[n] = txEpoch[n]
<1>0. txEpoch \in [Nids -> Nat]
  BY DEF TypeOK, WorkerTypes
<1>1. ASSUME NEW w \in Workers, CommitWrite(w)
      PROVE  \A n \in Nids : txEpoch[n] # 0 => txEpoch'[n] = txEpoch[n]
  <2>1. PICK i \in 1 .. MaxTx : txEpoch[<<w, i>>] = 0 /\ Commit(w, <<w, i>>)
    BY <1>1 DEF CommitWrite
  <2>2. txEpoch' \in {txEpoch, [txEpoch EXCEPT ![<<w, i>>] = GlobalEpoch]}
    BY <2>1 DEF Commit
  <2> QED
    BY <1>0, <2>1, <2>2
<1>2. ASSUME NEW w \in Workers, WorkerStep(w), ~CommitWrite(w) PROVE UNCHANGED txEpoch
  BY <1>2 DEF WorkerStep, EpochWork, SameEpoch, EpochWorkCTIDW, PublishOnEpochChange, WaitReady,
       NoTransaction, ValidationFails, CommitReadOnly, Commit, WalPublish, WalPush
<1> QED
  BY <1>1, <1>2, LoggerFrame, AdvanceFrame DEF Step

\* The log files only grow, and LogBuffer::write adds the records of the buffer.
LEMMA LoggedGrows ==
    ASSUME TypeOK, Step
    PROVE  /\ Logged \subseteq Logged'
           /\ \A l \in Loggers :
                WriteLog(l) => buffer[writing'[l].w][writing'[l].b].logs \subseteq Logged'
<1>0. logfile \in [Loggers -> Seq(Items)] /\ writing \in [Loggers -> Entries \cup {NoEntry}]
  BY DEF TypeOK, FileTypes, BufferTypes
<1>1. ASSUME UNCHANGED logfile PROVE Logged \subseteq Logged'
  BY <1>1 DEF Logged
<1>2. ASSUME NEW l \in Loggers, WriteLog(l)
      PROVE  /\ Logged \subseteq Logged'
             /\ buffer[writing'[l].w][writing'[l].b].logs \subseteq Logged'
  <2>1. PICK q \in batch[l] : /\ logfile' = [logfile EXCEPT ![l] = Append(@, LogRecord(q))]
                              /\ writing' = [writing EXCEPT ![l] = q]
    BY <1>2 DEF WriteLog
  <2> DEFINE r == LogRecord(q)
  <2>2. r.nids = buffer[q.w][q.b].logs /\ writing'[l] = q
    BY <1>0, <2>1 DEF LogRecord
  <2> HIDE DEF r
  <2>3. logfile' = [logfile EXCEPT ![l] = Append(logfile[l], r)]
    BY <2>1 DEF r
  <2>4. \A m \in Loggers : \A i \in 1 .. Len(logfile[m]) :
          i \in 1 .. Len(logfile'[m]) /\ logfile'[m][i] = logfile[m][i]
    <3>1. \A i \in 1 .. Len(logfile[l]) :
            i \in 1 .. Len(Append(logfile[l], r)) /\ Append(logfile[l], r)[i] = logfile[l][i]
      BY <1>0
    <3>2. logfile'[l] = Append(logfile[l], r) /\ \A m \in Loggers \ {l} : logfile'[m] = logfile[m]
      BY <1>0, <2>3
    <3> QED
      BY <3>1, <3>2
  <2>5. \E i \in 1 .. Len(logfile'[l]) : logfile'[l][i] = r
    <3>1. logfile'[l] = Append(logfile[l], r) /\ logfile[l] \in Seq(Items)
      BY <1>0, <2>3
    <3>2. /\ Len(logfile[l]) + 1 \in 1 .. Len(Append(logfile[l], r))
          /\ Append(logfile[l], r)[Len(logfile[l]) + 1] = r
      BY <3>1
    <3> QED
      BY <3>1, <3>2
  <2>6. Logged \subseteq Logged'
    BY <2>4 DEF Logged
  <2> QED
    BY <2>2, <2>5, <2>6 DEF Logged
<1>3. ASSUME NEW l \in Loggers, LoggerStep(l), ~WriteLog(l) PROVE UNCHANGED logfile
  BY <1>3 DEF LoggerStep, WaitDeq, FindMinCTIDW, FindMinQueue, Deq, FinishBuffer,
              LoadThLocalDurable, LoadDurableEpoch, CasDurableEpoch, WritePepoch, Notify,
              StoreThLocalDurable, fileVars
<1> QED
  BY <1>1, <1>2, <1>3, WorkerFrame, AdvanceFrame DEF Step

\* What a step does to the buffers: push adds the worker's transaction to its
\* current buffer, the logger empties the buffer it has written.
BufferPushed(w, b) ==
    /\ wpc[w] = "push" /\ nid[w] # NoNid /\ current'[w] = b
    /\ LET e == txEpoch[nid[w]]
           old == buffer[w][b]
           new == [logs |-> old.logs \cup {nid[w]}, nids |-> old.nids \cup {nid[w]},
                   minE |-> IF e < old.minE THEN e ELSE old.minE,
                   maxE |-> IF e > old.maxE THEN e ELSE old.maxE]
       IN buffer' = [buffer EXCEPT ![w][b] = new] /\ (Running' => new.minE = new.maxE)

BufferWritten(l) ==
    /\ lpc[l] = "tail" /\ writing[l] \in Entries
    /\ buffer' = [buffer EXCEPT ![writing[l].w][writing[l].b] = EmptyBuffer]

\* LogBuffer::push of a write transaction.
LEMMA PushStep ==
    ASSUME TypeOK, NEW w \in Workers, WalPush(w), nid[w] # NoNid
    PROVE  \E b \in Buffers : BufferPushed(w, b)
<1> DEFINE New(b) == [logs |-> buffer[w][b].logs \cup {nid[w]},
                      nids |-> buffer[w][b].nids \cup {nid[w]},
                      minE |-> IF txEpoch[nid[w]] < buffer[w][b].minE
                               THEN txEpoch[nid[w]] ELSE buffer[w][b].minE,
                      maxE |-> IF txEpoch[nid[w]] > buffer[w][b].maxE
                               THEN txEpoch[nid[w]] ELSE buffer[w][b].maxE]
<1>1. PICK b \in Buffers :
        /\ IsReady(w, b)
        /\ buffer' = [buffer EXCEPT ![w][b] = New(b)]
        /\ failed' = IF New(b).minE # New(b).maxE THEN "buffer_epochs" ELSE failed
  BY DEF WalPush
<1>2. Running' => New(b).minE = New(b).maxE
  BY <1>1 DEF Running
<1>3. current'[w] = b
  BY <1>1 DEF IsReady, TypeOK, BufferTypes
<1>4. wpc[w] = "push"
  BY DEF WalPush
<1> QED
  BY <1>1, <1>2, <1>3, <1>4 DEF BufferPushed

\* It adds the transaction to the records of that buffer and of no other.
LEMMA PushAdds ==
    ASSUME TypeOK, NEW w \in Workers, NEW b \in Buffers, BufferPushed(w, b)
    PROVE  /\ buffer'[w][b].logs = buffer[w][b].logs \cup {nid[w]}
           /\ \A v \in Workers, c \in Buffers :
                ~(v = w /\ c = b) => buffer'[v][c] = buffer[v][c]
<1> DEFINE New == [logs |-> buffer[w][b].logs \cup {nid[w]},
                   nids |-> buffer[w][b].nids \cup {nid[w]},
                   minE |-> IF txEpoch[nid[w]] < buffer[w][b].minE
                            THEN txEpoch[nid[w]] ELSE buffer[w][b].minE,
                   maxE |-> IF txEpoch[nid[w]] > buffer[w][b].maxE
                            THEN txEpoch[nid[w]] ELSE buffer[w][b].maxE]
<1>1. buffer' = [buffer EXCEPT ![w][b] = New]
  BY DEF BufferPushed
<1>2. New.logs = buffer[w][b].logs \cup {nid[w]}
  OBVIOUS
<1> HIDE DEF New
<1> QED
  BY <1>1, <1>2 DEF TypeOK, BufferTypes

\* Every step of the process changes the buffers in one of these ways or not at all.
LEMMA BufferStep ==
    ASSUME TypeOK, HomeInv, Step
    PROVE  \/ UNCHANGED buffer
           \/ \E w \in Workers, b \in Buffers : WalPush(w) /\ BufferPushed(w, b)
           \/ \E l \in Loggers : FinishBuffer(l) /\ BufferWritten(l)
<1>1. ASSUME NEW w \in Workers, WorkerStep(w), ~WalPush(w) PROVE UNCHANGED buffer
  BY <1>1 DEF WorkerStep, EpochWork, SameEpoch, EpochWorkCTIDW, PublishOnEpochChange, WaitReady,
       NoTransaction, ValidationFails, CommitWrite, CommitReadOnly, Commit, WalPublish
<1>2. ASSUME NEW l \in Loggers, LoggerStep(l), ~FinishBuffer(l) PROVE UNCHANGED buffer
  BY <1>2 DEF LoggerStep, WaitDeq, FindMinCTIDW, FindMinQueue, Deq, WriteLog,
              LoadThLocalDurable, LoadDurableEpoch, CasDurableEpoch, WritePepoch, Notify,
              StoreThLocalDurable
<1>3. ASSUME NEW l \in Loggers, FinishBuffer(l) PROVE BufferWritten(l)
  BY <1>3 DEF FinishBuffer, BufferWritten, HomeInv, Routed, TypeOK, BufferTypes
<1>4. ASSUME NEW w \in Workers, WalPush(w)
      PROVE  UNCHANGED buffer \/ \E b \in Buffers : BufferPushed(w, b)
  <2>1. CASE nid[w] = NoNid
    BY <1>4, <2>1 DEF WalPush
  <2>2. CASE nid[w] # NoNid
    BY <1>4, <2>2, PushStep
  <2> QED
    BY <2>1, <2>2
<1> QED
  BY <1>1, <1>2, <1>3, <1>4, AdvanceFrame DEF Step

\* A buffer keeps to one epoch until the assert of push ends the process.
LEMMA BufferContentsStep ==
    TypeOK /\ HomeInv /\ BufferContents /\ InWal /\ Running /\ Step => BufferContents'
<1> SUFFICES ASSUME TypeOK, HomeInv, BufferContents, InWal, Running, Step PROVE BufferContents'
  OBVIOUS
<1>0. buffer \in [Workers -> [Buffers -> LogBuffers]] /\ txEpoch \in [Nids -> Nat]
  BY DEF TypeOK, BufferTypes, WorkerTypes
<1>1. \A n \in Nids : txEpoch[n] # 0 => txEpoch'[n] = txEpoch[n]
  BY TxEpochStays
<1> DEFINE Good(B) == /\ B.nids = B.logs
                      /\ \A n \in B.nids : /\ txEpoch'[n] # 0
                                           /\ B.minE <= txEpoch'[n] /\ txEpoch'[n] <= B.maxE
                      /\ Running' => B.nids = {} \/ B.minE = B.maxE
<1>2. \A w \in Workers, b \in Buffers : Good(buffer[w][b])
  <2> SUFFICES ASSUME NEW w \in Workers, NEW b \in Buffers PROVE Good(buffer[w][b])
    OBVIOUS
  <2>1. buffer[w][b].nids \subseteq Nids
    BY <1>0 DEF LogBuffers
  <2> QED
    BY <1>1, <2>1 DEF BufferContents
<1>3. CASE UNCHANGED buffer
  BY <1>2, <1>3 DEF BufferContents
<1>4. ASSUME NEW w \in Workers, NEW b \in Buffers, BufferPushed(w, b) PROVE BufferContents'
  <2> DEFINE n == nid[w]
             e == txEpoch[n]
             old == buffer[w][b]
             new == [logs |-> old.logs \cup {n}, nids |-> old.nids \cup {n},
                     minE |-> IF e < old.minE THEN e ELSE old.minE,
                     maxE |-> IF e > old.maxE THEN e ELSE old.maxE]
  <2>1. n \in Nids /\ e # 0 /\ e \in Nat
    BY <1>0, <1>4 DEF BufferPushed, InWal, TypeOK, WorkerTypes
  <2>2. buffer' = [buffer EXCEPT ![w][b] = new] /\ (Running' => new.minE = new.maxE)
    BY <1>4 DEF BufferPushed
  <2>3. Good(old) /\ old.minE \in Nat /\ old.maxE \in Nat /\ old.nids \subseteq Nids
    BY <1>0, <1>2 DEF LogBuffers
  <2> HIDE DEF n, e, old
  <2>4. txEpoch'[n] = e
    BY <1>1, <2>1 DEF e
  <2>5. \A k \in old.nids : txEpoch'[k] \in Nat
    <3>1. \A k \in old.nids : k \in Nids /\ txEpoch[k] # 0
      BY <2>3 DEF old, BufferContents
    <3> QED
      BY <1>0, <1>1, <3>1
  <2>6. new.minE <= e /\ new.minE <= old.minE /\ e <= new.maxE /\ old.maxE <= new.maxE
    BY <2>1, <2>3
  <2>7. new.nids = old.nids \cup {n} /\ new.logs = old.logs \cup {n} /\ new.minE \in Nat /\ new.maxE \in Nat
    BY <2>1, <2>3
  <2> HIDE DEF new
  <2>8. Good(new)
    BY <2>1, <2>2, <2>3, <2>4, <2>5, <2>6, <2>7
  <2>9. \A v \in Workers, c \in Buffers : buffer'[v][c] = IF v = w /\ c = b THEN new ELSE buffer[v][c]
    BY <1>0, <2>2
  <2> HIDE DEF Good
  <2>10. \A v \in Workers, c \in Buffers : Good(buffer'[v][c])
    BY <1>2, <2>8, <2>9
  <2> QED
    BY <2>10 DEF Good, BufferContents
<1>5. ASSUME NEW l \in Loggers, BufferWritten(l) PROVE BufferContents'
  <2>1. writing[l].w \in Workers /\ writing[l].b \in Buffers
    BY <1>5 DEF BufferWritten, Entries
  <2>2. Good(EmptyBuffer)
    BY DEF EmptyBuffer
  <2>3. \A v \in Workers, c \in Buffers : buffer'[v][c] \in {EmptyBuffer, buffer[v][c]}
    BY <1>0, <1>5, <2>1 DEF BufferWritten
  <2> HIDE DEF Good
  <2>4. \A v \in Workers, c \in Buffers : Good(buffer'[v][c])
    BY <1>2, <2>2, <2>3
  <2> QED
    BY <2>4 DEF Good, BufferContents
<1> QED
  BY <1>3, <1>4, <1>5, BufferStep

\* A worker that enters wal has just committed; one that stays there keeps its nid.
LEMMA InWalStep == TypeOK /\ EpochsOrdered /\ InWal /\ Step => InWal'
<1> SUFFICES ASSUME TypeOK, EpochsOrdered, InWal, Step PROVE InWal'
  OBVIOUS
<1>0. /\ wpc \in [Workers -> WorkerPcs] /\ nid \in [Workers -> Nids \cup {NoNid}]
      /\ txEpoch \in [Nids -> Nat] /\ GlobalEpoch \in Nat /\ GlobalEpoch # 0
  BY DEF TypeOK, WorkerTypes, EpochTypes, EpochsOrdered
<1>1. ASSUME UNCHANGED <<wpc, nid, txEpoch>> PROVE InWal'
  BY <1>1 DEF InWal
<1>2. ASSUME NEW w \in Workers, NEW n \in Nids \cup {NoNid}, Commit(w, n) PROVE InWal'
  <2>1. /\ nid' = [nid EXCEPT ![w] = n]
        /\ txEpoch' = IF n = NoNid THEN txEpoch ELSE [txEpoch EXCEPT ![n] = GlobalEpoch]
        /\ \E pc \in {"wal", "push"} : wpc' = [wpc EXCEPT ![w] = pc]
    BY <1>2 DEF Commit, WGoto
  <2>2. /\ \A k \in Nids : txEpoch[k] # 0 => txEpoch'[k] # 0
        /\ n # NoNid => txEpoch'[n] # 0
    BY <1>0, <2>1
  <2> QED
    BY <1>0, <2>1, <2>2 DEF InWal
<1>3. ASSUME NEW w \in Workers,
             \/ EpochWork(w) \/ SameEpoch(w) \/ EpochWorkCTIDW(w) \/ PublishOnEpochChange(w)
             \/ WaitReady(w) \/ NoTransaction(w) \/ ValidationFails(w) \/ WalPublish(w) \/ WalPush(w)
      PROVE  InWal'
  <2>1. UNCHANGED txEpoch
    BY <1>3 DEF EpochWork, SameEpoch, EpochWorkCTIDW, PublishOnEpochChange, WaitReady,
                NoTransaction, ValidationFails, WalPublish, WalPush
  <2>2. /\ \E pc \in WorkerPcs :
             /\ wpc' = [wpc EXCEPT ![w] = pc]
             /\ pc \in {"wal", "push"} => wpc[w] \in {"wal", "push"} /\ UNCHANGED nid
        /\ \A v \in Workers \ {w} : nid'[v] = nid[v]
    BY <1>0, <1>3 DEF EpochWork, SameEpoch, EpochWorkCTIDW, PublishOnEpochChange, WaitReady,
                NoTransaction, ValidationFails, WalPublish, WalPush, WGoto, WorkerPcs
  <2> QED
    BY <1>0, <2>1, <2>2 DEF InWal
<1> QED
  BY <1>1, <1>2, <1>3, LoggerFrame, AdvanceFrame
  DEF Step, WorkerStep, CommitWrite, CommitReadOnly, Nids

\* No worker touches a buffer that is being written, so that what WriteLog has
\* put in the log file is all there is when FinishBuffer empties it.
LEMMA WrittenStep == TypeOK /\ HomeInv /\ Written /\ Step => Written'
<1> SUFFICES ASSUME TypeOK, HomeInv, Written, Step, NEW l \in Loggers, lpc'[l] = "tail"
             PROVE  buffer'[writing'[l].w][writing'[l].b].logs \subseteq Logged'
  BY DEF Written
<1> DEFINE q == writing'[l]
<1>0. buffer \in [Workers -> [Buffers -> LogBuffers]] /\ lpc \in [Loggers -> LoggerPcs]
      /\ writing \in [Loggers -> Entries \cup {NoEntry}]
  BY DEF TypeOK, BufferTypes, LoggerTypes
<1>1. HomeInv' /\ BufferTypes'
  BY HomeInvStep, BufferTypesStep
<1>2. q \in batch'[l] /\ LoggerOf[q.w] = l
  BY <1>1 DEF HomeInv, Routed
<1>3. q.w \in Workers /\ q.b \in Buffers
  BY <1>1, <1>2 DEF BufferTypes, Entries
<1>4. \/ WriteLog(l)
      \/ lpc[l] = "tail" /\ writing'[l] = writing[l] /\ ~WriteLog(l) /\ ~FinishBuffer(l)
  <2>1. ASSUME NEW m \in Loggers, LoggerStep(m), m # l PROVE lpc'[l] = lpc[l] /\ writing'[l] = writing[l]
    BY <1>0, <2>1 DEF LoggerStep, WaitDeq, FindMinCTIDW, FindMinQueue, SendNid, Deq, WriteLog,
              FinishBuffer, LoadThLocalDurable, LoadDurableEpoch, CasDurableEpoch, WritePepoch,
              Notify, StoreThLocalDurable, LGoto
  <2>2. ASSUME LoggerStep(l) PROVE WriteLog(l)
    BY <1>0, <2>2 DEF LoggerStep, WaitDeq, FindMinCTIDW, FindMinQueue, SendNid, Deq,
              FinishBuffer, LoadThLocalDurable, LoadDurableEpoch, CasDurableEpoch, WritePepoch,
              Notify, StoreThLocalDurable, LGoto
  <2>3. ~WriteLog(l) => UNCHANGED lpc \/ \E m \in Loggers \ {l} : LoggerStep(m)
    BY <2>2, WorkerFrame, AdvanceFrame DEF Step
  <2>4. lpc[l] = "tail" => ~WriteLog(l)
    BY DEF WriteLog
  <2>5. FinishBuffer(l) => LoggerStep(l)
    BY DEF LoggerStep
  <2>6. UNCHANGED lpc /\ ~(\E m \in Loggers : LoggerStep(m)) => UNCHANGED writing
    BY WorkerFrame, AdvanceFrame DEF Step
  <2> QED
    BY <2>1, <2>2, <2>3, <2>4, <2>5, <2>6
<1>5. Logged \subseteq Logged'
  BY LoggedGrows
<1>6. buffer[q.w][q.b].logs \subseteq Logged'
  BY <1>4, <1>5, LoggedGrows DEF Written
<1>7. CASE UNCHANGED buffer
  BY <1>6, <1>7
<1>8. ASSUME NEW w \in Workers, NEW b \in Buffers, BufferPushed(w, b)
      PROVE  buffer'[q.w][q.b] = buffer[q.w][q.b]
  <2>1. ~(q.w = w /\ q.b = b)
    <3>1. current'[w] = b
      BY <1>8 DEF BufferPushed
    <3>2. InFlight(w, b)' = {}
      BY <1>1, <3>1 DEF HomeInv, BufferOneHome
    <3> QED
      BY <1>2, <3>2 DEF InFlight
  <2> QED
    BY <1>3, <1>8, <2>1, PushAdds
<1>9. ASSUME NEW m \in Loggers, BufferWritten(m)
      PROVE  buffer'[q.w][q.b].logs \subseteq buffer[q.w][q.b].logs
  <2>1. writing[m].w \in Workers /\ writing[m].b \in Buffers
    BY <1>9 DEF BufferWritten, Entries
  <2>2. buffer'[q.w][q.b] \in {EmptyBuffer, buffer[q.w][q.b]}
    BY <1>0, <1>3, <1>9, <2>1 DEF BufferWritten
  <2>3. EmptyBuffer.logs = {}
    BY DEF EmptyBuffer
  <2> QED
    BY <2>2, <2>3
<1> QED
  BY <1>6, <1>7, <1>8, <1>9, BufferStep

\* A committed transaction is in wal, then in a buffer, then in a log file.
LEMMA CommittedNotLostStep ==
    TypeOK /\ HomeInv /\ Written /\ CommittedNotLost /\ Step => CommittedNotLost'
<1> SUFFICES ASSUME TypeOK, HomeInv, Written, CommittedNotLost, Step,
                    NEW n \in Nids, txEpoch'[n] # 0
             PROVE  \/ n \in Logged'
                    \/ \E w \in Workers : nid'[w] = n /\ wpc'[w] \in {"wal", "push"}
                    \/ \E w \in Workers, b \in Buffers : n \in buffer'[w][b].logs
  BY DEF CommittedNotLost
<1>0. /\ wpc \in [Workers -> WorkerPcs] /\ nid \in [Workers -> Nids \cup {NoNid}]
      /\ buffer \in [Workers -> [Buffers -> LogBuffers]] /\ txEpoch \in [Nids -> Nat]
  BY DEF TypeOK, WorkerTypes, BufferTypes
<1>1. CASE n \in Logged
  BY <1>1, LoggedGrows
<1>2. ASSUME NEW w \in Workers, NEW b \in Buffers, n \in buffer[w][b].logs
      PROVE  n \in Logged' \/ n \in buffer'[w][b].logs
  <2>1. CASE UNCHANGED buffer
    BY <1>2, <2>1
  <2>2. ASSUME NEW v \in Workers, NEW c \in Buffers, BufferPushed(v, c)
        PROVE  n \in buffer'[w][b].logs
    BY <1>2, <2>2, PushAdds
  <2>3. ASSUME NEW l \in Loggers, BufferWritten(l)
        PROVE  n \in Logged' \/ n \in buffer'[w][b].logs
    <3>1. writing[l].w \in Workers /\ writing[l].b \in Buffers
      BY <2>3 DEF BufferWritten, Entries
    <3>2. CASE writing[l].w = w /\ writing[l].b = b
      BY <1>2, <2>3, <3>2, LoggedGrows DEF BufferWritten, Written
    <3>3. CASE ~(writing[l].w = w /\ writing[l].b = b)
      BY <1>0, <1>2, <2>3, <3>1, <3>3 DEF BufferWritten
    <3> QED
      BY <3>2, <3>3
  <2> QED
    BY <2>1, <2>2, <2>3, BufferStep
<1>3. ASSUME NEW w \in Workers, nid[w] = n, wpc[w] \in {"wal", "push"}
      PROVE  \/ nid'[w] = n /\ wpc'[w] \in {"wal", "push"}
             \/ \E b \in Buffers : n \in buffer'[w][b].logs
  <2>1. CASE UNCHANGED <<wpc, nid>>
    BY <1>3, <2>1
  <2>2. ASSUME NEW v \in Workers, WorkerStep(v), v # w PROVE wpc'[w] = wpc[w] /\ nid'[w] = nid[w]
    BY <1>0, <2>2 DEF WorkerStep, EpochWork, SameEpoch, EpochWorkCTIDW, PublishOnEpochChange,
         WaitReady, NoTransaction, ValidationFails, CommitWrite, CommitReadOnly, Commit,
         WalPublish, WalPush, WGoto
  <2>3. CASE WorkerStep(w)
    <3>1. WalPublish(w) \/ WalPush(w)
      BY <1>3, <2>3 DEF WorkerStep, EpochWork, SameEpoch, EpochWorkCTIDW, PublishOnEpochChange,
         WaitReady, NoTransaction, ValidationFails, CommitWrite, CommitReadOnly, Commit
    <3>2. CASE WalPublish(w)
      BY <1>0, <1>3, <3>2 DEF WalPublish, WGoto
    <3>3. CASE WalPush(w)
      <4>1. n # NoNid
        <5>1. n = <<n[1], n[2]>>
          BY DEF Nids
        <5> QED
          BY <5>1 DEF NoNid
      <4> QED
        BY <1>3, <3>3, <4>1, PushStep, PushAdds
    <3> QED
      BY <3>1, <3>2, <3>3
  <2> QED
    BY <1>3, <2>1, <2>2, <2>3, LoggerFrame, AdvanceFrame DEF Step
<1>4. CASE txEpoch[n] # 0
  BY <1>1, <1>2, <1>3, <1>4 DEF CommittedNotLost
<1>5. CASE txEpoch[n] = 0
  <2>1. ~UNCHANGED txEpoch
    BY <1>5
  <2>2. PICK w \in Workers : CommitWrite(w)
    BY <2>1, LoggerFrame, AdvanceFrame
    DEF Step, WorkerStep, EpochWork, SameEpoch, EpochWorkCTIDW, PublishOnEpochChange, WaitReady,
        NoTransaction, ValidationFails, CommitReadOnly, Commit, WalPublish, WalPush
  <2>3. PICK k \in Nids : Commit(w, k)
    BY <2>2 DEF CommitWrite, Nids
  <2>4. /\ txEpoch' \in {txEpoch, [txEpoch EXCEPT ![k] = GlobalEpoch]}
        /\ nid' = [nid EXCEPT ![w] = k]
        /\ \E pc \in {"wal", "push"} : wpc' = [wpc EXCEPT ![w] = pc]
    BY <2>3 DEF Commit, WGoto
  <2>5. n = k
    BY <1>0, <1>5, <2>4
  <2> QED
    BY <1>0, <2>4, <2>5
<1> QED
  BY <1>4, <1>5

\* The contents of buffers and files stay right.
LEMMA ContentInvStep ==
    TypeOK /\ EpochInv /\ HomeInv /\ ContentInv /\ Running /\ Step => ContentInv'
BY BufferContentsStep, InWalStep, WrittenStep, CommittedNotLostStep DEF ContentInv, EpochInv

-----------------------------------------------------------------------------
(* Notification                                                            *)

\* NidBuffer::store adds the transactions of a buffer under its epoch only.
LEMMA StoreItems ==
    ASSUME NEW list \in Seq(Items), NEW e \in Nat, NEW ns \in SUBSET Nids,
           NEW i \in 1 .. Len(NidBufferStore(list, e, ns)),
           NEW n \in NidBufferStore(list, e, ns)[i].nids
    PROVE  \/ n \in ns /\ NidBufferStore(list, e, ns)[i].epoch = e
           \/ \E j \in 1 .. Len(list) : /\ n \in list[j].nids
                                        /\ NidBufferStore(list, e, ns)[i].epoch = list[j].epoch
<1> DEFINE s == NidBufferStore(list, e, ns)
<1>1. CASE list[Len(list)].epoch < e
  <2>1. s = Append(list, [epoch |-> e, nids |-> ns])
    BY <1>1 DEF NidBufferStore
  <2>2. (i \in 1 .. Len(list) /\ s[i] = list[i]) \/ s[i] = [epoch |-> e, nids |-> ns]
    BY <2>1
  <2> QED
    BY <2>2
<1>2. CASE ~(list[Len(list)].epoch < e)
  <2>1. s = [j \in 1 .. Len(list) |->
               IF list[j].epoch = e THEN [epoch |-> e, nids |-> list[j].nids \cup ns] ELSE list[j]]
    BY <1>2 DEF NidBufferStore
  <2>2. i \in 1 .. Len(list)
    BY <2>1
  <2>3. \/ s[i] = list[i]
        \/ list[i].epoch = e /\ s[i] = [epoch |-> e, nids |-> list[i].nids \cup ns]
    BY <2>1, <2>2
  <2> QED
    BY <2>2, <2>3
<1> QED
  BY <1>1, <1>2

\* The list of a logger gets the transactions of the buffer it has written, whose
\* records are in the log file and whose epoch is that of the buffer.
LEMMA NidListsStep == TypeOK /\ HomeInv /\ ContentInv /\ NidLists /\ Running /\ Step => NidLists'
<1> SUFFICES ASSUME TypeOK, HomeInv, ContentInv, NidLists, Running, Step PROVE NidLists'
  OBVIOUS
<1>0. nidBuffer \in [Loggers -> Seq(Items)]
  BY DEF TypeOK, FileTypes
<1>a. \A l \in Loggers : \A i \in 1 .. Len(nidBuffer[l]) : nidBuffer[l][i].nids \subseteq Nids
  <2>1. \A l \in Loggers : \A i \in 1 .. Len(nidBuffer[l]) : nidBuffer[l][i] \in Items
    BY <1>0
  <2> QED
    BY <2>1 DEF Items
<1> DEFINE Fine(n, e) == n \in Logged' /\ txEpoch'[n] # 0 /\ txEpoch'[n] = e
<1>1. \A l \in Loggers : \A i \in 1 .. Len(nidBuffer[l]) : \A n \in nidBuffer[l][i].nids :
        Fine(n, nidBuffer[l][i].epoch)
  BY <1>a, TxEpochStays, LoggedGrows DEF NidLists
<1>2. ASSUME UNCHANGED nidBuffer PROVE NidLists'
  BY <1>1, <1>2 DEF NidLists
<1>3. ASSUME NEW l \in Loggers, FinishBuffer(l) PROVE NidLists'
  <2> DEFINE B == buffer[writing[l].w][writing[l].b]
  <2>1. writing[l].w \in Workers /\ writing[l].b \in Buffers
    BY <1>3 DEF FinishBuffer, HomeInv, Routed, TypeOK, BufferTypes, Entries
  <2>2. B.minE \in Nat /\ B.maxE \in Nat /\ B.nids \in SUBSET Nids
    BY <2>1 DEF TypeOK, BufferTypes, LogBuffers
  <2>3. nidBuffer' = nidBuffer \/ nidBuffer' = [nidBuffer EXCEPT ![l] = NidBufferStore(@, B.minE, B.nids)]
    BY <1>3 DEF FinishBuffer
  <2>4. B.nids \subseteq Logged
    BY <1>3, <2>1 DEF FinishBuffer, ContentInv, Written, BufferContents
  <2>5. \A n \in B.nids : txEpoch[n] \in Nat /\ txEpoch[n] # 0 /\ txEpoch[n] = B.minE
    <3>1. \A n \in B.nids : txEpoch[n] \in Nat
      BY <2>2 DEF TypeOK, WorkerTypes
    <3>2. \A n \in B.nids : /\ txEpoch[n] # 0 /\ B.minE <= txEpoch[n] /\ txEpoch[n] <= B.maxE
                            /\ B.minE = B.maxE
      BY <2>1 DEF ContentInv, BufferContents
    <3> QED
      BY <2>2, <3>1, <3>2
  <2> HIDE DEF B
  <2>6. \A n \in B.nids : Fine(n, B.minE)
    BY <2>2, <2>4, <2>5, TxEpochStays, LoggedGrows
  <2>7. CASE UNCHANGED nidBuffer
    BY <1>2, <2>7
  <2>8. CASE nidBuffer' = [nidBuffer EXCEPT ![l] = NidBufferStore(@, B.minE, B.nids)]
    <3>1. nidBuffer[l] \in Seq(Items)
      BY <1>0
    <3>2. \A i \in 1 .. Len(nidBuffer'[l]) : \A n \in nidBuffer'[l][i].nids :
            Fine(n, nidBuffer'[l][i].epoch)
      <4> DEFINE s == NidBufferStore(nidBuffer[l], B.minE, B.nids)
      <4>1. nidBuffer'[l] = s
        BY <1>0, <2>8
      <4>2. \A i \in 1 .. Len(s) : \A n \in s[i].nids :
               \/ n \in B.nids /\ s[i].epoch = B.minE
               \/ \E j \in 1 .. Len(nidBuffer[l]) :
                    n \in nidBuffer[l][j].nids /\ s[i].epoch = nidBuffer[l][j].epoch
        BY <2>2, <3>1, StoreItems
      <4> HIDE DEF s, Fine
      <4>3. \A i \in 1 .. Len(s) : \A n \in s[i].nids : Fine(n, s[i].epoch)
        BY <1>1, <2>6, <4>2
      <4> QED
        BY <4>1, <4>3
    <3>3. \A m \in Loggers \ {l} : nidBuffer'[m] = nidBuffer[m]
      BY <1>0, <2>8
    <3> QED
      BY <1>1, <3>2, <3>3 DEF NidLists
  <2> QED
    BY <2>3, <2>7, <2>8
<1>4. ASSUME NEW l \in Loggers, Notify(l) PROVE NidLists'
  <2> DEFINE s == NidBufferRecycle(nidBuffer[l], minDl[l])
  <2>1. nidBuffer[l] \in Seq(Items) /\ minDl[l] \in Nat
    BY <1>0 DEF TypeOK, LoggerTypes
  <2>2. \A i \in 1 .. Len(s) : s[i].nids = {} \/ \E j \in 1 .. Len(nidBuffer[l]) : s[i] = nidBuffer[l][j]
    BY <2>1, RecycleItems
  <2>3. nidBuffer' = [nidBuffer EXCEPT ![l] = s]
    BY <1>4 DEF Notify, CheckedDurable
  <2> HIDE DEF s, Fine
  <2>4. \A i \in 1 .. Len(s) : \A n \in s[i].nids : Fine(n, s[i].epoch)
    BY <1>1, <2>2
  <2>5. nidBuffer'[l] = s /\ \A m \in Loggers \ {l} : nidBuffer'[m] = nidBuffer[m]
    BY <1>0, <2>3
  <2> QED
    BY <1>1, <2>4, <2>5 DEF NidLists, Fine
<1>5. ASSUME NEW l \in Loggers, LoggerStep(l), ~FinishBuffer(l), ~Notify(l) PROVE UNCHANGED nidBuffer
  BY <1>5 DEF LoggerStep, WaitDeq, FindMinCTIDW, FindMinQueue, Deq, WriteLog, LoadThLocalDurable,
              LoadDurableEpoch, CasDurableEpoch, WritePepoch, StoreThLocalDurable
<1> QED
  BY <1>2, <1>3, <1>4, <1>5, WorkerFrame, AdvanceFrame DEF Step

\* A client is told of transactions up to the bound that check_durable has found
\* on all local durable epochs; none of them falls back later.
LEMMA ToldInvStep ==
    TypeOK /\ EpochInv /\ DurableInv /\ HomeInv /\ ContentInv /\ ToldInv /\ Running /\ Step => ToldInv'
<1> SUFFICES ASSUME TypeOK, EpochInv, DurableInv, HomeInv, ContentInv, ToldInv, Running, Step
             PROVE  ToldCommitted' /\ NotifiedIsSafe'
  BY NidListsStep DEF ToldInv
<1>0. /\ txEpoch \in [Nids -> Nat] /\ ThLocalDurableEpoch \in [Loggers -> Nat] /\ notified \subseteq Nids
  BY DEF TypeOK, WorkerTypes, DurableTypes, FileTypes
<1>1. /\ \A l \in Loggers :
           ThLocalDurableEpoch'[l] \in Nat /\ ThLocalDurableEpoch[l] <= ThLocalDurableEpoch'[l]
      /\ \A n \in Nids : txEpoch[n] # 0 => txEpoch'[n] = txEpoch[n]
      /\ Logged \subseteq Logged'
  BY LocalDurableGrows, TxEpochStays, LoggedGrows DEF EpochInv
<1> DEFINE Safe(n) == /\ n \in Nids /\ n \in Logged /\ txEpoch[n] # 0
                      /\ \A l \in Loggers : txEpoch[n] <= ThLocalDurableEpoch[l]
<1>2. \A n \in notified : Safe(n)
  BY <1>0 DEF ToldInv, ToldCommitted, NotifiedIsSafe
<1>3. \A n \in notified' : n \in notified \/ Safe(n)
  <2>1. ASSUME NEW l \in Loggers, Notify(l), NEW n \in notified', n \notin notified PROVE Safe(n)
    <3>1. /\ n \in NidBufferNotified(nidBuffer[l], minDl[l])
          /\ lpc[l] = "notify"
      BY <2>1 DEF Notify, CheckedDurable
    <3>2. PICK i \in 1 .. Len(nidBuffer[l]) : n \in nidBuffer[l][i].nids /\ nidBuffer[l][i].epoch <= minDl[l]
      BY <3>1 DEF NidBufferNotified, Due
    <3>3. n \in Logged /\ txEpoch[n] # 0 /\ txEpoch[n] = nidBuffer[l][i].epoch
      BY <3>2 DEF ToldInv, NidLists
    <3>4. n \in Nids
      <4>1. nidBuffer[l][i] \in Items
        BY DEF TypeOK, FileTypes
      <4> QED
        BY <3>2, <4>1 DEF Items
    <3>5. \A m \in Loggers : minDl[l] <= ThLocalDurableEpoch[m]
      BY <3>1 DEF DurableInv, MinDlBelow
    <3>6. minDl[l] \in Nat /\ txEpoch[n] \in Nat
      BY <1>0, <3>4 DEF TypeOK, LoggerTypes
    <3> QED
      BY <1>0, <3>2, <3>3, <3>4, <3>5, <3>6
  <2>2. ASSUME NEW l \in Loggers, LoggerStep(l), ~Notify(l) PROVE UNCHANGED notified
    BY <2>2 DEF LoggerStep, WaitDeq, FindMinCTIDW, FindMinQueue, Deq, WriteLog, FinishBuffer,
              LoadThLocalDurable, LoadDurableEpoch, CasDurableEpoch, WritePepoch,
              StoreThLocalDurable
  <2> QED
    BY <2>1, <2>2, WorkerFrame, AdvanceFrame DEF Step
<1>4. \A n \in notified' : Safe(n)
  BY <1>2, <1>3
<1> QED
  BY <1>0, <1>1, <1>4 DEF ToldCommitted, NotifiedIsSafe

-----------------------------------------------------------------------------
(* The theorems                                                            *)

\* The process starts with every buffer but the current ones free and nothing
\* committed.
LEMMA InitTypes == Init => TypeOK
<1> SUFFICES ASSUME Init PROVE TypeOK
  OBVIOUS
<1>0. 0 \in Loggers /\ 1 \in Buffers /\ Infinity \in Nat
  BY LogAssumption DEF Loggers, Buffers, Infinity
<1>1. EpochTypes
  BY DEF Init, EpochTypes
<1>2. WorkerTypes
  BY DEF Init, WorkerTypes, WorkerPcs
<1>3. BufferTypes
  <2>1. EmptyBuffer \in LogBuffers
    BY <1>0 DEF EmptyBuffer, LogBuffers
  <2> QED
    BY <1>0, <2>1 DEF Init, BufferTypes
<1>4. LoggerTypes
  BY <1>0 DEF Init, LoggerTypes, LoggerPcs
<1>5. FileTypes
  <2>1. [epoch |-> 0, nids |-> {}] \in Items
    BY DEF Items
  <2> QED
    BY <2>1 DEF Init, FileTypes
<1>6. DurableTypes
  BY DEF Init, DurableTypes
<1> QED
  BY <1>1, <1>2, <1>3, <1>4, <1>5, <1>6 DEF TypeOK

\* The inductive invariant holds at the start.
LEMMA InitIInv == Init => IInv
<1> SUFFICES ASSUME Init PROVE EpochInv /\ DurableInv /\ HomeInv /\ ContentInv /\ ToldInv
  BY InitTypes DEF IInv
<1>1. EpochInv
  <2>1. EpochsOrdered
    <3>1. Leader \in Workers
      BY LogAssumption DEF Leader, Workers
    <3> QED
      BY <3>1 DEF Init, EpochsOrdered
  <2>2. LoopInv /\ MinEpochOpen /\ DurableEpochClosed
    BY DEF Init, LoopInv, MinEpochOpen, DurableEpochClosed, Measured, MakingDurable
  <2> QED
    BY <2>1, <2>2 DEF EpochInv
<1>2. DurableInv
  BY DEF Init, DurableInv, MinDlBelow, DurableEpochBounded
<1>3. HomeInv
  <2>1. Routed
    BY DEF Init, Routed
  <2>2. HasBuffer
    BY DEF Init, HasBuffer, NULL
  <2>3. BufferOneHome
    <3>1. \A w \in Workers, b \in Buffers : InFlight(w, b) = {}
      BY LogAssumption DEF Init, InFlight
    <3> QED
      BY <3>1 DEF Init, BufferOneHome
  <2> QED
    BY <2>1, <2>2, <2>3 DEF HomeInv
<1>4. ContentInv
  <2>1. BufferContents
    BY DEF Init, BufferContents, EmptyBuffer
  <2>2. InWal /\ Written /\ CommittedNotLost
    BY DEF Init, InWal, Written, CommittedNotLost
  <2> QED
    BY <2>1, <2>2 DEF ContentInv
<1>5. ToldInv
  <2>1. NidLists
    <3>1. \A l \in Loggers : nidBuffer[l] = <<[epoch |-> 0, nids |-> {}]>>
      BY DEF Init
    <3> QED
      BY <3>1 DEF NidLists
  <2>2. ToldCommitted /\ NotifiedIsSafe
    BY DEF Init, ToldCommitted, NotifiedIsSafe
  <2> QED
    BY <2>1, <2>2 DEF ToldInv
<1> QED
  BY <1>1, <1>2, <1>3, <1>4, <1>5

\* Every step keeps the inductive invariant.
LEMMA NextIInv == IInv /\ [Next]_vars => IInv'
<1>1. ASSUME IInv, Running, Step PROVE IInv'
  BY <1>1, TypeOKStep, EpochInvStep, DurableInvStep, HomeInvStep, ContentInvStep, ToldInvStep
  DEF IInv, EpochInv
<1>2. ASSUME IInv, UNCHANGED vars PROVE IInv'
  <2> USE <1>2 DEF vars, workerVars, epochVars, loggerVars, fileVars, durableVars
  <2>1. TypeOK'
    BY DEF IInv, TypeOK, EpochTypes, WorkerTypes, BufferTypes, LoggerTypes, FileTypes, DurableTypes
  <2>2. EpochInv' /\ DurableInv'
    BY DEF IInv, EpochInv, EpochsOrdered, LoopInv, MinEpochOpen, DurableEpochClosed, DurableInv,
           MinDlBelow, DurableEpochBounded
  <2>3. HomeInv'
    BY DEF IInv, HomeInv, Routed, HasBuffer, BufferOneHome, InFlight
  <2>4. ContentInv'
    BY DEF IInv, ContentInv, BufferContents, InWal, Written, CommittedNotLost, Logged, Running
  <2>5. ToldInv'
    BY DEF IInv, ToldInv, NidLists, ToldCommitted, NotifiedIsSafe, Logged
  <2> QED
    BY <2>1, <2>2, <2>3, <2>4, <2>5 DEF IInv
<1> QED
  BY <1>1, <1>2 DEF Next, Halted, Step

\* The inductive invariant holds throughout.
THEOREM Invariance == Spec => []IInv
BY InitIInv, NextIInv, PTL DEF Spec

\* Types: whatever the threads of the logging subsystem do, every variable keeps
\* its type; epochs stay natural numbers and no buffer is used that does not exist.
THEOREM TypeCorrect == Spec => []TypeOK
<1>1. IInv => TypeOK
  BY DEF IInv
<1> QED
  BY <1>1, Invariance, PTL

\* A log buffer is in exactly one place (publish, is_ready, deq, return_buffer).
THEOREM BuffersHaveOneHome == Spec => []BufferOneHome
<1>1. IInv => BufferOneHome
  BY DEF IInv, HomeInv
<1> QED
  BY <1>1, Invariance, PTL

\* A worker that dereferences current_buffer_ has one, so that the asserts on it
\* and the std::abort of durableEpochWork never fire.
THEOREM CurrentIsThere == Spec => []CurrentBufferThere
<1>1. IInv => CurrentBufferThere
  BY DEF IInv, HomeInv, HasBuffer, CurrentBufferThere
<1> QED
  BY <1>1, Invariance, PTL

\* A committed write is never dropped between commit and log file.
THEOREM NothingLost == Spec => []CommittedNotLost
<1>1. IInv => CommittedNotLost
  BY DEF IInv, ContentInv
<1> QED
  BY <1>1, Invariance, PTL

\* The epoch a logger or the system declares durable is over: a transaction in wal
\* is of no earlier epoch, whatever words find_min_epoch has skipped as zero, and
\* that of a worker it cannot miss is of a later one.
THEOREM DurableClosed == Spec => []DurableEpochClosed
<1>1. IInv => DurableEpochClosed
  BY DEF IInv, EpochInv
<1> QED
  BY <1>1, Invariance, PTL

\* DurableEpoch is a lower bound on the loggers' epochs and pepoch.seal on it.
THEOREM DurableBounded == Spec => []DurableEpochBounded
<1>1. IInv => DurableEpochBounded
  BY DEF IInv, DurableInv
<1> QED
  BY <1>1, Invariance, PTL

\* A client hears of a commit only when its record is in a log file and every
\* logger has moved past its epoch.
THEOREM NotificationSafe == Spec => []NotifiedIsSafe
<1>1. IInv => NotifiedIsSafe
  BY DEF IInv, ToldInv
<1> QED
  BY <1>1, Invariance, PTL
=============================================================================
