------------------------------- MODULE SiloLog -------------------------------
(***************************************************************************)
(* Write-ahead logging and group commit: the log buffers of the workers,   *)
(* the queues of the loggers, the log files, the durable epoch and the     *)
(* notification of clients (silo_log_buffer.cpp, silo_log_queue.cpp,       *)
(* silo_logger.cpp, silo_notifier.cpp, and durableEpochWork, epochWork,    *)
(* wal of silo_transaction.cpp).                                           *)
(*                                                                         *)
(* A transaction is its NotificationId <<worker, number>> and the epoch of *)
(* its TID; concurrency control is the subject of SiloTx.  The epoch steps *)
(* are the atomic ones of EpochSync, which SiloEpoch is proved to          *)
(* implement.  CTIDW is kept as its epoch field.  The quit paths are left  *)
(* out: the worker loop never ends.                                        *)
(***************************************************************************)
EXTENDS Integers, Sequences, FiniteSets

CONSTANTS NW,        \* worker threads 0 .. NW-1, worker 0 is the epoch leader
          NL,        \* logger threads 0 .. NL-1
          LoggerOf,  \* the logger a worker hands its buffers to (logger affinity)
          NB,        \* BUFFER_NUM, the log buffers of a worker's LogBufferPool
          MaxLog,    \* MAX_BUFFERED_LOG_ENTRIES
          MaxEpoch,  \* bound on GlobalEpoch
          MaxTx      \* bound on the write transactions of a worker

Workers == 0 .. NW-1
Loggers == 0 .. NL-1
Leader == 0
WorkersOf(l) == {w \in Workers : LoggerOf[w] = l}

ASSUME LogAssumption ==
    /\ NW \in Nat \ {0} /\ NL \in Nat \ {0}
    /\ LoggerOf \in [Workers -> Loggers]
    /\ \A l \in Loggers : WorkersOf(l) # {}
    /\ NB \in Nat \ {0}
    /\ MaxLog \in Nat /\ MaxEpoch \in Nat /\ MaxTx \in Nat

Buffers == 1 .. NB
NULL == 0

\* Notification ids; NoNid stands for a transaction with an empty write set.
Nids == Workers \X (1 .. MaxTx)
NoNid == <<>>

\* Entries of a LogQueue: a buffer under the min_epoch_ it was enqueued with.
Entries == [epoch : Nat, w : Workers, b : Buffers]
NoEntry == [epoch |-> 0, w |-> 0, b |-> NULL]

\* ~(uint64_t)0: larger than every epoch.
Infinity == MaxEpoch + 1

VARIABLES GlobalEpoch, ThLocalEpoch, CTIDW,
          wpc,       \* per worker: the next step
          oldEpoch,  \* per worker: old_thread_local_epoch of durableEpochWork
          newEpoch,  \* per worker: new_epoch_begins of wal
          nid,       \* per worker: nid_ of its transaction, NoNid if it wrote nothing
          txEpoch,   \* the epoch each write transaction committed in, 0 before
          current,   \* per worker: current_buffer_
          pool,      \* per worker: pool_ (which free buffer is taken does not matter)
          buffer     \* per worker and buffer: log_set_, nid_set_, min_epoch_, max_epoch_

VARIABLES queue,     \* per logger: the map of LogQueue, as entries [epoch, w, b]
          lpc,       \* per logger: the next step
          polling,   \* per logger: in wait_deq (TRUE) or in logging (FALSE)
          batch,     \* per logger: log_buffer_vec, still to be handled
          writing,   \* per logger: the entry of batch that is being written
          todo,      \* per logger: the workers whose CTIDW find_min_epoch has yet to load
          minEpoch,  \* per logger: min_ctid, min_epoch (the epoch field)
          minDl,     \* per logger: min_dl of check_durable
          idx,       \* per logger: loop index of check_durable
          nidBuffer, \* per logger: the list of NidBuffer, front first
          logfile,   \* per logger: log<thid>.seal
          tail       \* per logger: tail hash in pepoch.seal, as a position in logfile

VARIABLES ThLocalDurableEpoch, DurableEpoch,
          loadedD,   \* per logger: dl, the value of DurableEpoch the CAS expects
          pepoch,    \* the epoch in pepoch.seal
          notified,  \* transactions whose client was told of the commit
          failed     \* the assert that ended the process, or "none"

workerVars == <<wpc, oldEpoch, newEpoch, nid>>
epochVars == <<GlobalEpoch, ThLocalEpoch>>
loggerVars == <<lpc, polling, batch, writing, todo, minEpoch, minDl, idx, loadedD>>
fileVars == <<logfile, tail, pepoch>>
durableVars == <<ThLocalDurableEpoch, DurableEpoch>>
vars == <<workerVars, epochVars, CTIDW, txEpoch, current, pool, buffer, queue,
          loggerVars, nidBuffer, fileVars, durableVars, notified, failed>>

EmptyBuffer == [logs |-> {}, nids |-> {}, minE |-> Infinity, maxE |-> 0]

Init ==
    /\ GlobalEpoch = 1
    /\ ThLocalEpoch = [w \in Workers |-> 0]
    /\ CTIDW = [w \in Workers |-> 0]
    /\ wpc = [w \in Workers |-> "loop"]
    /\ oldEpoch = [w \in Workers |-> 0]
    /\ newEpoch = [w \in Workers |-> FALSE]
    /\ nid = [w \in Workers |-> NoNid]
    /\ txEpoch = [n \in Nids |-> 0]
    /\ current = [w \in Workers |-> 1]
    /\ pool = [w \in Workers |-> Buffers \ {1}]
    /\ buffer = [w \in Workers |-> [b \in Buffers |-> EmptyBuffer]]
    /\ queue = [l \in Loggers |-> {}]
    /\ lpc = [l \in Loggers |-> "wait"]
    /\ polling = [l \in Loggers |-> FALSE]
    /\ batch = [l \in Loggers |-> {}]
    /\ writing = [l \in Loggers |-> NoEntry]
    /\ todo = [l \in Loggers |-> {}]
    /\ minEpoch = [l \in Loggers |-> 0]
    /\ minDl = [l \in Loggers |-> 0]
    /\ idx = [l \in Loggers |-> 0]
    /\ nidBuffer = [l \in Loggers |-> <<[epoch |-> 0, nids |-> {}]>>]
    /\ logfile = [l \in Loggers |-> <<>>]
    /\ tail = [l \in Loggers |-> 0]
    /\ ThLocalDurableEpoch = [l \in Loggers |-> 0]
    /\ DurableEpoch = 0
    /\ loadedD = [l \in Loggers |-> 0]
    /\ pepoch = 0
    /\ notified = {}
    /\ failed = "none"

WGoto(w, label) == wpc' = [wpc EXCEPT ![w] = label]
LGoto(l, label) == lpc' = [lpc EXCEPT ![l] = label]

Least(S) == CHOOSE x \in S : \A y \in S : x <= y

-----------------------------------------------------------------------------
(* LogBufferPool and LogQueue, as used by a worker                         *)

CurrentBuffer(w) == buffer[w][current[w]]

\* Faulty form: publish leaves current_buffer_ as it is.
Publish_KeepsCurrent(w) ==
    /\ queue' = [queue EXCEPT ![LoggerOf[w]] = @ \cup
                   {[epoch |-> CurrentBuffer(w).minE, w |-> w, b |-> current[w]]}]
    /\ UNCHANGED current

\* LogBufferPool::publish on a ready pool: a buffer with transactions goes to the
\* logger's queue under its min_epoch_ and the pool is left without a current one.
Publish(w) ==
    IF CurrentBuffer(w).nids # {}
    THEN LET l == LoggerOf[w] IN
         /\ queue' = [queue EXCEPT ![l] = @ \cup
                        {[epoch |-> CurrentBuffer(w).minE, w |-> w, b |-> current[w]]}]
         /\ current' = [current EXCEPT ![w] = NULL]
    ELSE UNCHANGED <<queue, current>>

\* LogBufferPool::is_ready returning true: a current buffer, or a free one taken.
IsReady(w, b) ==
    \/ /\ current[w] # NULL
       /\ b = current[w]
       /\ UNCHANGED <<current, pool>>
    \/ /\ current[w] = NULL
       /\ b \in pool[w]
       /\ current' = [current EXCEPT ![w] = b]
       /\ pool' = [pool EXCEPT ![w] = @ \ {b}]

-----------------------------------------------------------------------------
(* Worker: durableEpochWork                                                *)

\* siloLeaderWork, at the start of the leader's epochWork.  chkEpochLoaded passes
\* over a leader that is still in its first epochWork.
EpochAdvance ==
    /\ wpc[Leader] \in {"loop", "spin"}
    /\ GlobalEpoch < MaxEpoch
    /\ \A w \in Workers : \/ ThLocalEpoch[w] = GlobalEpoch
                          \/ w = Leader /\ GlobalEpoch = 1 /\ ThLocalEpoch[w] = 0
    /\ GlobalEpoch' = GlobalEpoch + 1
    /\ UNCHANGED <<workerVars, ThLocalEpoch, CTIDW, txEpoch, current, pool, buffer, queue,
                   loggerVars, nidBuffer, fileVars, durableVars, notified, failed>>

\* epochWork up to the store of ThLocalEpoch, called first ("loop") or while the
\* pool has no free buffer ("spin").
EpochWork(w) ==
    /\ \/ /\ wpc[w] = "loop"
          /\ {ThLocalEpoch[w], CTIDW[w]} # {GlobalEpoch}
          /\ oldEpoch' = [oldEpoch EXCEPT ![w] = ThLocalEpoch[w]]
          /\ WGoto(w, "ctidw")
       \/ /\ wpc[w] = "spin"
          /\ WGoto(w, "spinctidw")
          /\ UNCHANGED oldEpoch
    /\ ThLocalEpoch' = [ThLocalEpoch EXCEPT ![w] = GlobalEpoch]
    /\ UNCHANGED <<newEpoch, nid, GlobalEpoch, CTIDW, txEpoch, current, pool, buffer, queue,
                   loggerVars, nidBuffer, fileVars, durableVars, notified, failed>>

\* durableEpochWork when the epoch has not moved: its stores change nothing, there
\* is nothing to publish and the current buffer is there, so it is one step.
SameEpoch(w) ==
    /\ wpc[w] = "loop"
    /\ {ThLocalEpoch[w], CTIDW[w]} = {GlobalEpoch}
    /\ WGoto(w, "tx")
    /\ UNCHANGED <<oldEpoch, newEpoch, nid, epochVars, CTIDW, txEpoch, current, pool, buffer,
                   queue, loggerVars, nidBuffer, fileVars, durableVars, notified, failed>>

\* The rest of epochWork: CTIDW moves to the new epoch.
EpochWorkCTIDW(w) ==
    /\ \/ wpc[w] = "ctidw" /\ WGoto(w, "publish")
       \/ wpc[w] = "spinctidw" /\ WGoto(w, "ready")
    /\ CTIDW' = [CTIDW EXCEPT ![w] = ThLocalEpoch[w]]
    /\ UNCHANGED <<oldEpoch, newEpoch, nid, epochVars, txEpoch, current, pool, buffer, queue,
                   loggerVars, nidBuffer, fileVars, durableVars, notified, failed>>

\* A changed thread-local epoch publishes a current buffer that has log records;
\* is_ready, called next, is true at once while the worker has a buffer.
PublishOnEpochChange(w) ==
    /\ wpc[w] = "publish"
    /\ IF oldEpoch[w] # ThLocalEpoch[w] /\ CurrentBuffer(w).logs # {}
       THEN Publish(w)
       ELSE UNCHANGED <<queue, current>>
    /\ oldEpoch' = [oldEpoch EXCEPT ![w] = 0]
    /\ WGoto(w, IF current'[w] = NULL THEN "ready" ELSE "tx")
    /\ UNCHANGED <<newEpoch, nid, epochVars, CTIDW, txEpoch, pool, buffer,
                   loggerVars, nidBuffer, fileVars, durableVars, notified, failed>>

\* Faulty form: durableEpochWork does not wait for a free buffer.
WaitReady_NoWait(w) ==
    /\ wpc[w] = "ready"
    /\ WGoto(w, "tx")
    /\ UNCHANGED <<oldEpoch, newEpoch, nid, epochVars, CTIDW, txEpoch, current, pool, buffer,
                   queue, loggerVars, nidBuffer, fileVars, durableVars, notified, failed>>

WaitReady(w) ==
    /\ wpc[w] = "ready"
    /\ \/ \E b \in Buffers : IsReady(w, b) /\ WGoto(w, "tx")
       \/ /\ current[w] = NULL /\ pool[w] = {}
          /\ WGoto(w, "spin")
          /\ UNCHANGED <<current, pool>>
    /\ UNCHANGED <<oldEpoch, newEpoch, nid, epochVars, CTIDW, txEpoch, buffer, queue,
                   loggerVars, nidBuffer, fileVars, durableVars, notified, failed>>

-----------------------------------------------------------------------------
(* Worker: a transaction                                                   *)

\* No transaction waits for the worker, or an operation of it failed.
NoTransaction(w) ==
    /\ wpc[w] = "tx"
    /\ WGoto(w, "loop")
    /\ UNCHANGED <<oldEpoch, newEpoch, nid, epochVars, CTIDW, txEpoch, current, pool, buffer,
                   queue, loggerVars, nidBuffer, fileVars, durableVars, notified, failed>>

\* validationPhase returns false after it has stored ThLocalEpoch; abort and retry.
ValidationFails(w) ==
    /\ wpc[w] = "tx"
    /\ ThLocalEpoch' = [ThLocalEpoch EXCEPT ![w] = GlobalEpoch]
    /\ WGoto(w, "loop")
    /\ UNCHANGED <<oldEpoch, newEpoch, nid, GlobalEpoch, CTIDW, txEpoch, current, pool, buffer,
                   queue, loggerVars, nidBuffer, fileVars, durableVars, notified, failed>>

\* validationPhase returns true; the TID of the commit has epoch ThLocalEpoch.  n is
\* the transaction's NotificationId, NoNid if its write set is empty.  wal sees a new
\* epoch when CTIDW lags behind; it publishes a full buffer, or one of another epoch.
Commit(w, n) ==
    LET newBegins == CTIDW[w] # GlobalEpoch
        full == Cardinality(CurrentBuffer(w).logs) > MaxLog
    IN
    /\ wpc[w] = "tx"
    /\ ThLocalEpoch' = [ThLocalEpoch EXCEPT ![w] = GlobalEpoch]
    /\ newEpoch' = [newEpoch EXCEPT ![w] = newBegins]
    /\ nid' = [nid EXCEPT ![w] = n]
    /\ txEpoch' = IF n = NoNid THEN txEpoch ELSE [txEpoch EXCEPT ![n] = GlobalEpoch]
    /\ WGoto(w, IF full \/ newBegins THEN "wal" ELSE "push")
    /\ UNCHANGED <<oldEpoch, GlobalEpoch, CTIDW, current, pool, buffer,
                   queue, loggerVars, nidBuffer, fileVars, durableVars, notified, failed>>

CommitWrite(w) ==
    \E i \in 1 .. MaxTx :
        /\ txEpoch[<<w, i>>] = 0
        /\ \A j \in 1 .. i-1 : txEpoch[<<w, j>>] # 0
        /\ Commit(w, <<w, i>>)

CommitReadOnly(w) == Commit(w, NoNid)

\* The publish at the start of LogBufferPool::push.
WalPublish(w) ==
    /\ wpc[w] = "wal"
    /\ Publish(w)
    /\ WGoto(w, "push")
    /\ UNCHANGED <<oldEpoch, newEpoch, nid, epochVars, CTIDW, txEpoch, pool, buffer,
                   loggerVars, nidBuffer, fileVars, durableVars, notified, failed>>

\* LogBuffer::push into the current buffer, once there is one, and the rest of wal,
\* which stores CTIDW when a new epoch began.  Until it is published the buffer is
\* the worker's own, so the two are one step.  A buffer holding records of another
\* epoch trips the assert on min_epoch_ and max_epoch_.
WalPush(w) ==
    /\ wpc[w] = "push"
    /\ \E b \in Buffers :
        /\ IsReady(w, b)
        /\ IF nid[w] = NoNid
           THEN UNCHANGED <<buffer, failed>>
           ELSE LET e == txEpoch[nid[w]]
                    old == buffer[w][b]
                    new == [logs |-> old.logs \cup {nid[w]},
                            nids |-> old.nids \cup {nid[w]},
                            minE |-> IF e < old.minE THEN e ELSE old.minE,
                            maxE |-> IF e > old.maxE THEN e ELSE old.maxE]
                IN /\ buffer' = [buffer EXCEPT ![w][b] = new]
                   /\ failed' = IF new.minE # new.maxE THEN "buffer_epochs" ELSE failed
    /\ CTIDW' = IF newEpoch[w] THEN [CTIDW EXCEPT ![w] = ThLocalEpoch[w]] ELSE CTIDW
    /\ newEpoch' = [newEpoch EXCEPT ![w] = FALSE]
    /\ nid' = [nid EXCEPT ![w] = NoNid]
    /\ WGoto(w, "loop")
    /\ UNCHANGED <<oldEpoch, epochVars, txEpoch, queue,
                   loggerVars, nidBuffer, fileVars, durableVars, notified>>

-----------------------------------------------------------------------------
(* Logger: wait_deq, find_min_epoch                                        *)

\* Faulty form: the last worker is left out.
StartFindMin_NotLast(l) ==
    /\ todo' = [todo EXCEPT ![l] = {w \in WorkersOf(l) : \E v \in WorkersOf(l) : w < v}]
    /\ minEpoch' = [minEpoch EXCEPT ![l] = Infinity]

\* The loop of find_min_epoch: it starts with ~0 and no word loaded.
StartFindMin(l) ==
    /\ todo' = [todo EXCEPT ![l] = WorkersOf(l)]
    /\ minEpoch' = [minEpoch EXCEPT ![l] = Infinity]

\* Faulty form: wait_deq always times out.
WaitDeq_TimesOut(l) ==
    /\ lpc[l] = "wait"
    /\ polling' = [polling EXCEPT ![l] = TRUE]
    /\ StartFindMin(l)
    /\ LGoto(l, "ctidw")
    /\ UNCHANGED <<workerVars, epochVars, CTIDW, txEpoch, current, pool, buffer, queue,
                   batch, writing, minDl, idx, loadedD, nidBuffer, fileVars, durableVars,
                   notified, failed>>

\* LogQueue::wait_deq: a buffer has arrived, or the wait timed out.
WaitDeq(l) ==
    /\ lpc[l] = "wait"
    /\ polling' = [polling EXCEPT ![l] = (queue[l] = {})]
    /\ StartFindMin(l)
    /\ LGoto(l, "ctidw")
    /\ UNCHANGED <<workerVars, epochVars, CTIDW, txEpoch, current, pool, buffer, queue,
                   batch, writing, minDl, idx, loadedD, nidBuffer, fileVars, durableVars,
                   notified, failed>>

\* One load of the loop of find_min_epoch over the CTIDW words of the logger's
\* workers, a word that is still zero being skipped.  After the last one, with no
\* word found it returns 0 and the logger waits again, and so it does in wait_deq
\* when its minimum, which the queue can only lower, brings nothing new.
FindMinCTIDW(l) ==
    LET w == Least(todo[l])
        m == Least({minEpoch[l], CTIDW[w]} \ {0})
        again == m = Infinity \/ (polling[l] /\ m - 1 <= ThLocalDurableEpoch[l])
    IN
    /\ lpc[l] = "ctidw"
    /\ todo' = [todo EXCEPT ![l] = @ \ {w}]
    /\ \/ /\ todo[l] # {w}
          /\ minEpoch' = [minEpoch EXCEPT ![l] = m]
          /\ UNCHANGED <<lpc, polling>>
       \/ /\ todo[l] = {w} /\ again
          /\ minEpoch' = [minEpoch EXCEPT ![l] = 0]
          /\ polling' = [polling EXCEPT ![l] = FALSE]
          /\ LGoto(l, "wait")
       \/ /\ todo[l] = {w} /\ ~again
          /\ minEpoch' = [minEpoch EXCEPT ![l] = m]
          /\ LGoto(l, "qmin")
          /\ UNCHANGED polling
    /\ UNCHANGED <<workerVars, epochVars, CTIDW, txEpoch, current, pool, buffer, queue,
                   batch, writing, minDl, idx, loadedD, nidBuffer, fileVars, durableVars,
                   notified, failed>>

\* The test of send_nid_to_notifier, with m as min_epoch: only a larger local
\* durable epoch goes on to make_durable.  Both sides of it are the logger's own.
SendNid(l, m) ==
    \/ /\ ThLocalDurableEpoch[l] < m - 1
       /\ LGoto(l, "min")
       /\ minEpoch' = [minEpoch EXCEPT ![l] = m]
       /\ minDl' = [minDl EXCEPT ![l] = Infinity]
    \/ /\ ThLocalDurableEpoch[l] >= m - 1
       /\ LGoto(l, "wait")
       /\ minEpoch' = [minEpoch EXCEPT ![l] = 0]
       /\ UNCHANGED minDl

\* LogQueue::min_epoch caps the result.
FindMinQueue(l) ==
    LET m == Least({minEpoch[l]} \cup {q.epoch : q \in queue[l]}) IN
    /\ lpc[l] = "qmin"
    /\ \/ polling[l] /\ SendNid(l, m)
       \/ /\ ~polling[l]
          /\ minEpoch' = [minEpoch EXCEPT ![l] = m]
          /\ LGoto(l, "deq")
          /\ UNCHANGED minDl
    /\ polling' = [polling EXCEPT ![l] = FALSE]
    /\ UNCHANGED <<workerVars, epochVars, CTIDW, txEpoch, current, pool, buffer, queue,
                   batch, writing, todo, idx, loadedD, nidBuffer, fileVars, durableVars,
                   notified, failed>>

-----------------------------------------------------------------------------
(* Logger: logging                                                         *)

\* LogQueue::deq takes everything.
Deq(l) ==
    /\ lpc[l] = "deq"
    /\ batch' = [batch EXCEPT ![l] = queue[l]]
    /\ queue' = [queue EXCEPT ![l] = {}]
    /\ LGoto(l, "write")
    /\ UNCHANGED <<workerVars, epochVars, CTIDW, txEpoch, current, pool, buffer,
                   polling, writing, todo, minEpoch, minDl, idx, loadedD, nidBuffer, fileVars, durableVars,
                   notified, failed>>

\* The buffer handled next: lowest epoch first, as the map's order has it.
First(q, S) == q \in S /\ \A r \in S : q.epoch <= r.epoch

\* Faulty form: log_set_ is cleared before it is written.
LogRecord_Cleared(q) == [epoch |-> buffer[q.w][q.b].minE, nids |-> {}]

\* What LogBuffer::write puts in the log file.
LogRecord(q) == [epoch |-> buffer[q.w][q.b].minE, nids |-> buffer[q.w][q.b].logs]

\* LogBuffer::write: the records go to the end of the log file.
WriteLog(l) ==
    /\ lpc[l] = "write"
    /\ \E q \in batch[l] :
        /\ First(q, batch[l])
        /\ logfile' = [logfile EXCEPT ![l] =
                         Append(@, LogRecord(q))]
        /\ writing' = [writing EXCEPT ![l] = q]
    /\ LGoto(l, "tail")
    /\ UNCHANGED <<workerVars, epochVars, CTIDW, txEpoch, current, pool, buffer, queue,
                   polling, batch, todo, minEpoch, minDl, idx, loadedD, nidBuffer, tail, pepoch,
                   durableVars, notified, failed>>

\* NidBuffer::store: the list has increasing epochs; a missing epoch is added at
\* the end only, so one that is missing before the end trips the assert.
NidBufferAccepts(list, e) ==
    \/ list[Len(list)].epoch < e
    \/ \E i \in 1 .. Len(list) : list[i].epoch = e

NidBufferStore(list, e, ns) ==
    IF list[Len(list)].epoch < e
    THEN Append(list, [epoch |-> e, nids |-> ns])
    ELSE [i \in 1 .. Len(list) |->
            IF list[i].epoch = e THEN [epoch |-> e, nids |-> list[i].nids \cup ns]
                                 ELSE list[i]]

\* Faulty form: the buffer is not returned.
ReturnBuffer_Forgotten(q) == UNCHANGED pool

\* LogBuffer::return_buffer: the emptied buffer goes back to the pool of its worker.
ReturnBuffer(q) == pool' = [pool EXCEPT ![q.w] = @ \cup {q.b}]

\* The rest of LogBuffer::write (tail hash, log_set_ cleared), then pass_nid and
\* return_buffer; after the last buffer of the batch, send_nid_to_notifier.  What the
\* step does after a failed assert is of no account: the process has ended.
FinishBuffer(l) ==
    LET q == writing[l]
        e == buffer[q.w][q.b].minE
    IN
    /\ lpc[l] = "tail"
    /\ tail' = [tail EXCEPT ![l] = Len(logfile[l])]
    /\ IF NidBufferAccepts(nidBuffer[l], e)
       THEN /\ nidBuffer' = [nidBuffer EXCEPT
                               ![l] = NidBufferStore(@, e, buffer[q.w][q.b].nids)]
            /\ UNCHANGED failed
       ELSE /\ failed' = "nid_buffer_epoch"
            /\ UNCHANGED nidBuffer
    /\ buffer' = [buffer EXCEPT ![q.w][q.b] = EmptyBuffer]
    /\ ReturnBuffer(q)
    /\ batch' = [batch EXCEPT ![l] = @ \ {q}]
    /\ writing' = [writing EXCEPT ![l] = NoEntry]
    /\ \/ /\ batch[l] # {q}
          /\ LGoto(l, "write")
          /\ UNCHANGED <<minEpoch, minDl>>
       \/ /\ batch[l] = {q}
          /\ SendNid(l, minEpoch[l])
    /\ UNCHANGED <<workerVars, epochVars, CTIDW, txEpoch, current, queue,
                   polling, todo, idx, loadedD, logfile, pepoch,
                   durableVars, notified>>

-----------------------------------------------------------------------------
(* Logger: make_durable, check_durable                                     *)

\* Faulty form: the loop of check_durable goes one too far, or stops one too early.
MoreLoggers_OnePast(i) == i < NL
MoreLoggers_OneShort(i) == i < NL - 2

\* The loop condition of check_durable after index i.
MoreLoggers(i) == i < NL - 1

\* One load of the loop of check_durable over ThLocalDurableEpoch.
LoadThLocalDurable(l) ==
    /\ lpc[l] = "min"
    /\ minDl' = [minDl EXCEPT ![l] = Least({@, ThLocalDurableEpoch[idx[l]]})]
    /\ IF MoreLoggers(idx[l])
       THEN idx' = [idx EXCEPT ![l] = @ + 1] /\ UNCHANGED lpc
       ELSE idx' = [idx EXCEPT ![l] = 0] /\ LGoto(l, "load")
    /\ UNCHANGED <<workerVars, epochVars, CTIDW, txEpoch, current, pool, buffer, queue,
                   polling, batch, writing, todo, minEpoch, loadedD, nidBuffer, fileVars, durableVars,
                   notified, failed>>

LoadDurableEpoch(l) ==
    /\ lpc[l] = "load"
    /\ loadedD' = [loadedD EXCEPT ![l] = DurableEpoch]
    /\ LGoto(l, IF DurableEpoch < minDl[l] THEN "cas" ELSE "notify")
    /\ UNCHANGED <<workerVars, epochVars, CTIDW, txEpoch, current, pool, buffer, queue,
                   polling, batch, writing, todo, minEpoch, minDl, idx, nidBuffer, fileVars, durableVars,
                   notified, failed>>

\* What check_durable swaps in.
NewDurableEpoch(l) == minDl[l]

\* The CAS on DurableEpoch; when another logger was faster nothing is written.
CasDurableEpoch(l) ==
    /\ lpc[l] = "cas"
    /\ IF DurableEpoch = loadedD[l]
       THEN DurableEpoch' = NewDurableEpoch(l) /\ LGoto(l, "pepoch")
       ELSE UNCHANGED DurableEpoch /\ LGoto(l, "notify")
    /\ UNCHANGED <<workerVars, epochVars, CTIDW, txEpoch, current, pool, buffer, queue,
                   polling, batch, writing, todo, minEpoch, minDl, idx, loadedD, nidBuffer, fileVars,
                   ThLocalDurableEpoch, notified, failed>>

\* PepochFile::write_epoch overwrites the first bytes of pepoch.seal.
WritePepoch(l) ==
    /\ lpc[l] = "pepoch"
    /\ pepoch' = minDl[l]
    /\ LGoto(l, "notify")
    /\ UNCHANGED <<workerVars, epochVars, CTIDW, txEpoch, current, pool, buffer, queue,
                   polling, batch, writing, todo, minEpoch, minDl, idx, loadedD, nidBuffer, logfile, tail,
                   durableVars, notified, failed>>

\* NidBuffer::notify(d): the items up to d are reported.  Each is then recycled to
\* the end of the list with the next epoch, every item at most once per call; the
\* single item of a fresh list stays where it is.
Due(list, d) == {i \in 1 .. Len(list) : list[i].epoch <= d}

NidBufferNotified(list, d) == UNION {list[i].nids : i \in Due(list, d)}

NidBufferRecycle(list, d) ==
    LET n == Len(list)
        k == Cardinality(Due(list, d))
    IN  IF n = 1
        THEN [i \in 1 .. 1 |-> IF k = 1 THEN [list[1] EXCEPT !.nids = {}] ELSE list[1]]
        ELSE [i \in 1 .. n |->
                IF i <= n - k THEN list[i + k]
                ELSE [epoch |-> list[n].epoch + i - (n - k), nids |-> {}]]

\* Faulty form: clients are notified up to the logger's own new durable epoch.
CheckedDurable_Own(l) == minEpoch[l] - 1

\* The result of check_durable: min_dl, whether or not the CAS was needed or won.
CheckedDurable(l) == minDl[l]

\* make_durable after check_durable.
Notify(l) ==
    /\ lpc[l] = "notify"
    /\ notified' = notified \cup NidBufferNotified(nidBuffer[l], CheckedDurable(l))
    /\ nidBuffer' = [nidBuffer EXCEPT ![l] = NidBufferRecycle(@, CheckedDurable(l))]
    /\ LGoto(l, "store")
    /\ UNCHANGED <<workerVars, epochVars, CTIDW, txEpoch, current, pool, buffer, queue,
                   polling, batch, writing, todo, minEpoch, minDl, idx, loadedD, fileVars, durableVars, failed>>

\* Faulty form: the epoch that is still open is declared durable.
NewDl_Open(l) == minEpoch[l]

\* new_dl of send_nid_to_notifier: the epoch before the oldest one in use.
NewDl(l) == minEpoch[l] - 1

\* Only now, after make_durable, send_nid_to_notifier stores the new local durable
\* epoch.
StoreThLocalDurable(l) ==
    /\ lpc[l] = "store"
    /\ ThLocalDurableEpoch' = [ThLocalDurableEpoch EXCEPT ![l] = NewDl(l)]
    /\ minEpoch' = [minEpoch EXCEPT ![l] = 0]
    /\ minDl' = [minDl EXCEPT ![l] = 0]
    /\ loadedD' = [loadedD EXCEPT ![l] = 0]
    /\ LGoto(l, "wait")
    /\ UNCHANGED <<workerVars, epochVars, CTIDW, txEpoch, current, pool, buffer, queue,
                   polling, batch, writing, todo, idx, nidBuffer, fileVars, DurableEpoch, notified, failed>>

-----------------------------------------------------------------------------

WorkerStep(w) ==
    \/ EpochWork(w) \/ SameEpoch(w) \/ EpochWorkCTIDW(w) \/ PublishOnEpochChange(w) \/ WaitReady(w)
    \/ NoTransaction(w) \/ ValidationFails(w) \/ CommitWrite(w) \/ CommitReadOnly(w)
    \/ WalPublish(w) \/ WalPush(w)

LoggerStep(l) ==
    \/ WaitDeq(l) \/ FindMinCTIDW(l) \/ FindMinQueue(l)
    \/ Deq(l) \/ WriteLog(l) \/ FinishBuffer(l)
    \/ LoadThLocalDurable(l) \/ LoadDurableEpoch(l) \/ CasDurableEpoch(l)
    \/ WritePepoch(l) \/ Notify(l) \/ StoreThLocalDurable(l)

Running == failed = "none"

\* A failed assert ends the process.
Halted == ~Running /\ UNCHANGED vars

Next ==
    \/ Running /\ EpochAdvance
    \/ Running /\ \E w \in Workers : WorkerStep(w)
    \/ Running /\ \E l \in Loggers : LoggerStep(l)
    \/ Halted

Spec == Init /\ [][Next]_vars

\* Every thread runs its loop for ever and the leader's epoch timer keeps expiring.
Fairness ==
    /\ \A w \in Workers : WF_vars(Running /\ WorkerStep(w))
    /\ \A l \in Loggers : WF_vars(Running /\ LoggerStep(l))
    /\ SF_vars(Running /\ EpochAdvance)

FairSpec == Spec /\ Fairness

-----------------------------------------------------------------------------
(* Properties                                                              *)

WorkerPcs == {"loop", "ctidw", "publish", "ready", "spin", "spinctidw", "tx",
              "wal", "push"}
LoggerPcs == {"wait", "ctidw", "qmin", "deq", "write", "tail", "min", "load",
              "cas", "pepoch", "notify", "store"}

LogBuffers == [logs : SUBSET Nids, nids : SUBSET Nids, minE : Nat, maxE : Nat]
Items == [epoch : Nat, nids : SUBSET Nids]   \* of a log file and of a NidBuffer

EpochTypes ==
    /\ GlobalEpoch \in Nat
    /\ ThLocalEpoch \in [Workers -> Nat]
    /\ CTIDW \in [Workers -> Nat]

WorkerTypes ==
    /\ wpc \in [Workers -> WorkerPcs]
    /\ oldEpoch \in [Workers -> Nat]
    /\ newEpoch \in [Workers -> BOOLEAN]
    /\ nid \in [Workers -> Nids \cup {NoNid}]
    /\ txEpoch \in [Nids -> Nat]

BufferTypes ==
    /\ current \in [Workers -> Buffers \cup {NULL}]
    /\ pool \in [Workers -> SUBSET Buffers]
    /\ buffer \in [Workers -> [Buffers -> LogBuffers]]
    /\ queue \in [Loggers -> SUBSET Entries]
    /\ batch \in [Loggers -> SUBSET Entries]
    /\ writing \in [Loggers -> Entries \cup {NoEntry}]

LoggerTypes ==
    /\ lpc \in [Loggers -> LoggerPcs]
    /\ polling \in [Loggers -> BOOLEAN]
    /\ todo \in [Loggers -> SUBSET Workers]
    /\ minEpoch \in [Loggers -> Nat]
    /\ minDl \in [Loggers -> Nat]
    /\ idx \in [Loggers -> Loggers]
    /\ loadedD \in [Loggers -> Nat]

FileTypes ==
    /\ nidBuffer \in [Loggers -> Seq(Items)]
    /\ logfile \in [Loggers -> Seq(Items)]
    /\ tail \in [Loggers -> Nat]
    /\ notified \subseteq Nids
    /\ failed \in {"none", "buffer_epochs", "nid_buffer_epoch"}

DurableTypes ==
    /\ ThLocalDurableEpoch \in [Loggers -> Nat]
    /\ DurableEpoch \in Nat
    /\ pepoch \in Nat

TypeOK ==
    /\ EpochTypes /\ WorkerTypes /\ BufferTypes
    /\ LoggerTypes /\ FileTypes /\ DurableTypes

\* Transactions found in some log file.
Logged == UNION {UNION {logfile[l][i].nids : i \in 1 .. Len(logfile[l])} : l \in Loggers}

\* Entries of a worker's buffer on their way through the logger.
InFlight(w, b) ==
    {q \in queue[LoggerOf[w]] \cup batch[LoggerOf[w]] : q.w = w /\ q.b = b}

\* A log buffer is in exactly one place: current, free in the pool, or queued or
\* being written; a worker never appends to a buffer its logger is writing and no
\* buffer is lost (publish, is_ready, deq, return_buffer).
BufferOneHome ==
    \A w \in Workers, b \in Buffers :
        /\ b \in pool[w] => buffer[w][b] = EmptyBuffer
        /\ \/ current[w] = b /\ b \notin pool[w] /\ InFlight(w, b) = {}
           \/ current[w] # b /\ b \in pool[w] /\ InFlight(w, b) = {}
           \/ current[w] # b /\ b \notin pool[w] /\ \E q \in InFlight(w, b) : InFlight(w, b) = {q}

\* The buffer that push, publish and durableEpochWork dereference is there: the
\* asserts on current_buffer_ and the std::abort of durableEpochWork never fire.
CurrentBufferThere ==
    \A w \in Workers : wpc[w] \in {"publish", "tx", "wal"} => current[w] # NULL

\* A committed write is never dropped: until it is in a log file it is on its way
\* in wal or in a log buffer (LogBuffer::push, publish, LogBuffer::write).
CommittedNotLost ==
    \A n \in Nids :
        txEpoch[n] # 0 =>
            \/ n \in Logged
            \/ \E w \in Workers : nid[w] = n /\ wpc[w] \in {"wal", "push"}
            \/ \E w \in Workers, b \in Buffers : n \in buffer[w][b].logs

\* A client hears of a commit only after its log record is in a log file and after
\* every logger has moved past its epoch (pass_nid, check_durable, notify).
NotifiedIsSafe ==
    \A n \in notified :
        /\ n \in Logged
        /\ \A l \in Loggers : txEpoch[n] <= ThLocalDurableEpoch[l]

\* Workers whose CTIDW may be skipped as zero without harm: the last one in
\* thid_vec_, loaded when no later word can be of a later epoch, and the leader,
\* which does not advance the epoch while it is in wal.
SkippedSafely(w) == w = Leader \/ \A v \in WorkersOf(LoggerOf[w]) : v <= w

\* An epoch declared durable is over: a transaction in wal is not of an epoch
\* before its logger's durable epoch, or before the DurableEpoch of the system, nor
\* of that epoch itself if its worker is the leader, or the last or only one that
\* its logger looks at (find_min_epoch against epochWork and wal).
DurableEpochClosed ==
    \A w \in Workers :
        wpc[w] \in {"wal", "push"} =>
            /\ ThLocalDurableEpoch[LoggerOf[w]] <= ThLocalEpoch[w]
            /\ DurableEpoch <= ThLocalEpoch[w]
            /\ SkippedSafely(w) => /\ ThLocalDurableEpoch[LoggerOf[w]] < ThLocalEpoch[w]
                                   /\ DurableEpoch < ThLocalEpoch[w]

\* DurableEpoch never exceeds what every logger claims, and the file never runs
\* ahead of DurableEpoch (check_durable).
DurableEpochBounded ==
    /\ pepoch <= DurableEpoch
    /\ \A l \in Loggers : DurableEpoch <= ThLocalDurableEpoch[l]

\* Workers, each waiting for a buffer or for the epoch, and loggers never block each
\* other for good: the epoch goes on to its bound (LogBufferPool::push and
\* durableEpochWork against return_buffer and chkEpochLoaded).
EpochKeepsMoving == <>(GlobalEpoch = MaxEpoch \/ ~Running)

\* A buffer handed to a logger comes back to its worker, its records in the log
\* file, whether or not more buffers follow (enq, wait_deq, logging).
BufferReturns ==
    \A w \in Workers, b \in Buffers :
        InFlight(w, b) # {} ~> (b \in pool[w] \/ current[w] = b \/ ~Running)

\* cassa_server.cpp and silo_r/README.md: every transaction up to the durable
\* epoch on file has been persisted.
DurableIsLogged ==
    \A n \in Nids : txEpoch[n] \in 1 .. pepoch => n \in Logged

\* silo_logger.cpp: find_min_epoch returns the minimum epoch among the logger's
\* worker threads, so that when the epoch before it is stored as durable no worker
\* has a transaction of that epoch in wal.
MinEpochIsMinimum ==
    \A l \in Loggers, w \in Workers :
        lpc[l] = "store" /\ LoggerOf[w] = l /\ wpc[w] \in {"wal", "push"} =>
            minEpoch[l] <= ThLocalEpoch[w]

\* silo_notifier.cpp, cassa_server.cpp: only transactions up to the durable epoch
\* on file have been reported, so that a restart keeps what clients were told.
NotifiedIsPersisted ==
    \A n \in notified : txEpoch[n] <= pepoch
=============================================================================
