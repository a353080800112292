----------------------------- MODULE SiloRecovery -----------------------------
(***************************************************************************)
(* Crash, recovery and restart: what execute_recovery makes of the log     *)
(* files and pepoch.seal that a crash leaves behind (silor.cpp,            *)
(* silor_log_archive.cpp, main and the ocalls of app_server.cpp).          *)
(*                                                                         *)
(* The running server is reduced to what reaches the files: one worker per *)
(* logger, transactions of one operation, and the steps between which a    *)
(* crash leaves different files (SiloLog has the logger in detail).  A     *)
(* hash is the content it was computed from.  File writes are not torn.    *)
(***************************************************************************)
EXTENDS Integers, Sequences, FiniteSets, SequencesExt

CONSTANTS NL,         \* loggers 0 .. NL-1, each with one worker; worker 0 is the epoch leader
          Keys,
          MaxEpoch,   \* bound on GlobalEpoch
          MaxCommits, \* bound on the transactions
          MaxLater,   \* bound on those of a session after the first
          MaxCrashes  \* bound on the crashes

Loggers == 0 .. NL-1
Leader == 0

ASSUME RecoveryAssumption ==
    /\ NL \in Nat \ {0}
    /\ MaxEpoch \in Nat \ {0} /\ MaxCommits \in Nat /\ MaxLater \in Nat /\ MaxCrashes \in Nat

\* The start of the hash chain, and a tail hash that was never written (zero bytes,
\* which is_valid_hex_string refuses).  The code never compares the two.
PASSPHRASE == <<>>
NoHash == <<>>

\* A TID as <<epoch, number>>; NoValue marks a key that is not in Masstree.
NoValue == <<-1, 0>>
Less(s, t) == s[1] < t[1] \/ (s[1] = t[1] /\ s[2] < t[2])
MaxTid(S) == CHOOSE t \in S : \A s \in S : ~Less(t, s)

\* A value is named by the number of the transaction that wrote it.
Absent == 0

Ops == {"INSERT", "WRITE", "DELETE"}

VARIABLES phase,
          GlobalEpoch, ThLocalEpoch, DurableEpoch,
          tidword,    \* per key: TID of its Value, NoValue without one
          mrctid,     \* per worker: TID of its last commit
          buffer,     \* per worker: log records of current_buffer_
          queue,      \* per logger: published buffers
          prevHash    \* per logger: prev_epoch_hash_

VARIABLES logfile,    \* per logger: log<thid>.seal, a sequence of log sets
          tail,       \* per logger: the tail hash in pepoch.seal
          pepoch      \* the epoch in pepoch.seal, 0 while it was never written

VARIABLES current_epoch,  \* of RecoveryManager
          durable_epoch,
          archive,        \* per log file: RecoveryLogArchive
          records,        \* current_epoch_log_records_; duplicates change nothing
          db              \* per key: the value in the recovered Masstree, Absent for none

VARIABLES commits,    \* history: the transactions a recovery should see; their values are in order
          made,       \* history: the number of transactions so far
          crashes,    \* also the number of the session
          clean       \* history: every crash so far was Quiet

runVars == <<GlobalEpoch, ThLocalEpoch, DurableEpoch, tidword, mrctid, buffer, queue, prevHash>>
fileVars == <<logfile, tail, pepoch>>
recoveryVars == <<current_epoch, durable_epoch, archive, records, db>>
historyVars == <<commits, made, crashes, clean>>
vars == <<phase, runVars, fileVars, recoveryVars, historyVars>>

ClosedArchive == [offset |-> 0, buffered |-> <<>>, prev |-> PASSPHRASE,
                  matched |-> TRUE, allRead |-> TRUE]

Init ==
    /\ phase = "run"
    /\ GlobalEpoch = 1
    /\ ThLocalEpoch = [l \in Loggers |-> 0]
    /\ DurableEpoch = 0
    /\ tidword = [k \in Keys |-> NoValue]
    /\ mrctid = [l \in Loggers |-> <<0, 0>>]
    /\ buffer = [l \in Loggers |-> <<>>]
    /\ queue = [l \in Loggers |-> <<>>]
    /\ prevHash = [l \in Loggers |-> PASSPHRASE]
    /\ logfile = [l \in Loggers |-> <<>>]
    /\ tail = [l \in Loggers |-> NoHash]
    /\ pepoch = 0
    /\ current_epoch = 0
    /\ durable_epoch = 0
    /\ archive = [l \in Loggers |-> ClosedArchive]
    /\ records = {}
    /\ db = [k \in Keys |-> Absent]
    /\ commits = {}
    /\ made = 0
    /\ crashes = 0
    /\ clean = TRUE

-----------------------------------------------------------------------------
(* The running server                                                      *)

EpochOf(recs) == Last(recs).tid[1]

\* GlobalEpoch when the session began.
StartEpoch == IF durable_epoch = 0 THEN 1 ELSE durable_epoch

\* siloLeaderWork; chkEpochLoaded passes over a leader in its first epochWork.
EpochAdvance ==
    /\ phase = "run"
    /\ GlobalEpoch < MaxEpoch
    /\ \A l \in Loggers : \/ ThLocalEpoch[l] = GlobalEpoch
                          \/ l = Leader /\ GlobalEpoch = StartEpoch /\ ThLocalEpoch[l] = 0
    /\ GlobalEpoch' = GlobalEpoch + 1
    /\ UNCHANGED <<phase, ThLocalEpoch, DurableEpoch, tidword, mrctid, buffer, queue, prevHash,
                   fileVars, recoveryVars, historyVars>>

\* epochWork of the worker.  CTIDW follows at once, before the buffer is published.
EpochWork(l) ==
    /\ phase = "run"
    /\ ThLocalEpoch[l] # GlobalEpoch
    /\ ThLocalEpoch' = [ThLocalEpoch EXCEPT ![l] = GlobalEpoch]
    /\ UNCHANGED <<phase, GlobalEpoch, DurableEpoch, tidword, mrctid, buffer, queue, prevHash,
                   fileVars, recoveryVars, historyVars>>

\* INSERT needs a key that is not in Masstree; WRITE and DELETE only need its Value,
\* which a committed DELETE leaves there, marked absent.
Possible(op, k) == (op = "INSERT") = (tidword[k] = NoValue)

\* writePhase and wal: the TID exceeds that of the record and of the worker's last
\* commit.  The epoch e is the one validationPhase loaded, while the record was
\* locked; GlobalEpoch may have moved on since.  A buffer of another epoch has to be
\* published first.
Commit(l, op, k, e) ==
    LET Succ(t) == <<t[1], t[2] + 1>>
        seen == IF op = "INSERT" THEN <<0, 0>> ELSE tidword[k]
        tid == MaxTid({Succ(seen), Succ(mrctid[l]), <<e, 0>>})
        rec == [tid |-> tid, op |-> op, key |-> k, val |-> made + 1]
    IN
    /\ phase = "run"
    /\ made < MaxCommits
    /\ crashes > 0 => Cardinality({c \in commits : c.session = crashes}) < MaxLater
    /\ Possible(op, k)
    /\ e \in {ThLocalEpoch[l], GlobalEpoch} \ {0}
    /\ tid[1] = e
    /\ buffer[l] # <<>> => EpochOf(buffer[l]) = e
    /\ ThLocalEpoch' = [ThLocalEpoch EXCEPT ![l] = e]
    /\ tidword' = [tidword EXCEPT ![k] = tid]
    /\ mrctid' = [mrctid EXCEPT ![l] = tid]
    /\ buffer' = [buffer EXCEPT ![l] = Append(@, rec)]
    /\ commits' = commits \cup {[rec |-> rec, log |-> l, session |-> crashes]}
    /\ made' = made + 1
    /\ UNCHANGED <<phase, GlobalEpoch, DurableEpoch, queue, prevHash, fileVars, recoveryVars,
                   crashes, clean>>

\* LogBufferPool::publish, because the epoch changed or the buffer is full.
Publish(l) ==
    /\ phase = "run"
    /\ buffer[l] # <<>>
    /\ queue' = [queue EXCEPT ![l] = Append(@, buffer[l])]
    /\ buffer' = [buffer EXCEPT ![l] = <<>>]
    /\ UNCHANGED <<phase, GlobalEpoch, ThLocalEpoch, DurableEpoch, tidword, mrctid, prevHash,
                   fileVars, recoveryVars, historyVars>>

\* Faulty form: the prev_hash of the first record is not updated by the later ones.
Chained_Open(recs) ==
    [i \in 1 .. Len(recs) |->
        [rec |-> recs[i], prev |-> recs[IF i = 1 THEN 1 ELSE i - 1]]]

\* create_json_log: each record with the hash of the one before it, the first with
\* that of the last.
Chained(recs) ==
    [i \in 1 .. Len(recs) |->
        [rec |-> recs[i], prev |-> IF i = 1 THEN Last(recs) ELSE recs[i - 1]]]

\* The tail hash of the last written set is not in pepoch.seal yet.
TailDue(l) == prevHash[l] # PASSPHRASE /\ tail[l] # prevHash[l]

\* LogBuffer::write up to the ocall that appends to the log file.
WriteLog(l) ==
    /\ phase = "run"
    /\ queue[l] # <<>>
    /\ ~TailDue(l)
    /\ logfile' = [logfile EXCEPT ![l] =
                     Append(@, [prev |-> prevHash[l], recs |-> Chained(Head(queue[l]))])]
    /\ prevHash' = [prevHash EXCEPT ![l] = Head(queue[l])]
    /\ queue' = [queue EXCEPT ![l] = Tail(@)]
    /\ UNCHANGED <<phase, GlobalEpoch, ThLocalEpoch, DurableEpoch, tidword, mrctid, buffer,
                   tail, pepoch, recoveryVars, historyVars>>

\* write_tail_log_hash, a second ocall.
WriteTail(l) ==
    /\ phase = "run"
    /\ TailDue(l)
    /\ tail' = [tail EXCEPT ![l] = prevHash[l]]
    /\ UNCHANGED <<phase, runVars, logfile, pepoch, recoveryVars, historyVars>>

\* The epochs a logger still waits for.  A buffer that its worker has not published
\* is not among them (find_min_epoch).
InUse(l) ==
    {ThLocalEpoch[l]} \cup {EpochOf(queue[l][i]) : i \in 1 .. Len(queue[l])}
                      \cup (IF TailDue(l) THEN {EpochOf(prevHash[l])} ELSE {})

\* check_durable: DurableEpoch, which starts at 0 in every session, moves to an
\* epoch that all loggers are past, and pepoch.seal follows.
WritePepoch(d) ==
    /\ phase = "run"
    /\ DurableEpoch < d
    /\ \A l \in Loggers : \A e \in InUse(l) : d < e
    /\ DurableEpoch' = d
    /\ pepoch' = d
    /\ UNCHANGED <<phase, GlobalEpoch, ThLocalEpoch, tidword, mrctid, buffer, queue, prevHash,
                   logfile, tail, recoveryVars, historyVars>>

-----------------------------------------------------------------------------
(* Crash and restart                                                       *)

Recovering == phase \in {"open", "read", "epoch", "check"}

LoggedVals ==
    UNION {UNION {{r.rec.val : r \in ToSet(s.recs)} : s \in ToSet(logfile[l])} : l \in Loggers}

\* A crash that leaves the tail hashes up to date and no transaction of a durable
\* epoch unlogged (the windows of LogBuffer::write and of epochWork).
Quiet ==
    /\ \A l \in Loggers : ~TailDue(l)
    /\ \A c \in commits : c.rec.tid[1] <= pepoch => c.rec.val \in LoggedVals

\* The process ends at any point, a recovery included; only the files are left.  The
\* next start finds the log directory and performs recovery.
Crash ==
    /\ phase \in {"run"} \/ Recovering
    /\ crashes < MaxCrashes
    /\ phase' = "open"
    /\ crashes' = crashes + 1
    /\ clean' = (clean /\ (phase = "run" => Quiet))
    /\ GlobalEpoch' = 1
    /\ ThLocalEpoch' = [l \in Loggers |-> 0]
    /\ DurableEpoch' = 0
    /\ tidword' = [k \in Keys |-> NoValue]
    /\ mrctid' = [l \in Loggers |-> <<0, 0>>]
    /\ buffer' = [l \in Loggers |-> <<>>]
    /\ queue' = [l \in Loggers |-> <<>>]
    /\ prevHash' = [l \in Loggers |-> PASSPHRASE]
    /\ current_epoch' = 0
    /\ durable_epoch' = 0
    /\ archive' = [l \in Loggers |-> ClosedArchive]
    /\ records' = {}
    /\ db' = [k \in Keys |-> Absent]
    /\ UNCHANGED <<fileVars, commits, made>>

\* ecall_initialize_global_variables and the start of the threads after a successful
\* recovery: the Values have TID 0.  Transactions past the durable epoch are gone.
Restart ==
    /\ phase = "recovered"
    /\ crashes < MaxCrashes
    /\ phase' = "run"
    /\ tidword' = [k \in Keys |-> IF db[k] = Absent THEN NoValue ELSE <<0, 0>>]
    /\ commits' = {c \in commits : c.rec.tid[1] <= durable_epoch}
    /\ current_epoch' = 0
    /\ archive' = [l \in Loggers |-> ClosedArchive]
    /\ db' = [k \in Keys |-> Absent]
    /\ UNCHANGED <<GlobalEpoch, ThLocalEpoch, DurableEpoch, mrctid, buffer, queue, prevHash,
                   fileVars, durable_epoch, records, made, crashes, clean>>

-----------------------------------------------------------------------------
(* execute_recovery                                                        *)

\* pepoch.seal as create_log_files left it, of length 0.
EmptyEpochFile == pepoch = 0 /\ \A l \in Loggers : tail[l] = NoHash

\* The durable epoch and one archive for each tail hash.  The length of an empty
\* pepoch.seal less 8 wraps around, and the loop over the hashes exhausts memory.
\* A log without a tail hash is not read, as if it had no archive.
OpenFiles ==
    /\ phase = "open"
    /\ phase' = IF EmptyEpochFile THEN "died" ELSE "read"
    /\ durable_epoch' = pepoch
    /\ archive' = [l \in Loggers |->
                     [ClosedArchive EXCEPT !.matched = (tail[l] = NoHash),
                                           !.allRead = (tail[l] = NoHash)]]
    /\ UNCHANGED <<runVars, fileVars, current_epoch, records, db, historyVars>>

Plain(set) == [i \in 1 .. Len(set.recs) |-> set.recs[i].rec]
SetEpoch(set) == EpochOf(Plain(set))

\* The loop that reads an archive goes on: there is more in the file, and the set at
\* the front of its buffer is not of a later epoch.
MoreToRead(l) ==
    LET a == archive[l] IN
    /\ ~a.allRead
    /\ a.offset < Len(logfile[l])
    /\ a.buffered # <<>> => Head(a.buffered).recs[1].rec.tid[1] <= current_epoch

\* fetch_next_log_record and deserialize_log_set.
NextLogSet(l) == logfile[l][archive[l].offset + 1]

\* One turn of the reading loop, archives in order.
ReadLogSet(l) ==
    /\ phase = "read"
    /\ MoreToRead(l)
    /\ \A m \in 0 .. l-1 : ~MoreToRead(m)
    /\ IF archive[l].matched
       THEN phase' = "refused" /\ UNCHANGED archive
       ELSE /\ archive' = [archive EXCEPT ![l].offset = @ + 1,
                                          ![l].buffered = Append(@, NextLogSet(l))]
            /\ UNCHANGED phase
    /\ UNCHANGED <<runVars, fileVars, current_epoch, durable_epoch, records, db, historyVars>>

ReadDone ==
    /\ phase = "read"
    /\ \A l \in Loggers : ~MoreToRead(l)
    /\ phase' = "epoch"
    /\ UNCHANGED <<runVars, fileVars, recoveryVars, historyVars>>

\* verify_log_level_integrity.
LogLevelIntegrity(set) ==
    LET recs == Plain(set)
        n == Len(recs)
    IN  \A i \in 1 .. n : set.recs[i].prev = recs[IF i = 1 THEN n ELSE i - 1]

\* The buffered sets of the current epoch, by position.
DueSets(l) ==
    {i \in 1 .. Len(archive[l].buffered) : SetEpoch(archive[l].buffered[i]) = current_epoch}

\* Faulty form: the sets of the epoch are erased before the records are taken.
HandedOver_AfterErase(l) ==
    UNION {ToSet(Plain(s)) : s \in {t \in ToSet(archive[l].buffered) : SetEpoch(t) # current_epoch}}

\* What verify_epoch_level_integrity hands to the replay for one set of the current
\* epoch: the records of everything that is buffered, later epochs included.
HandedOver(l) ==
    UNION {ToSet(Plain(s)) : s \in ToSet(archive[l].buffered)}

\* One set of the loop of verify_epoch_level_integrity.
VerifyLogSet(l) ==
    /\ phase = "epoch"
    /\ DueSets(l) # {}
    /\ \A m \in 0 .. l-1 : DueSets(m) = {}
    /\ LET i == CHOOSE j \in DueSets(l) : \A h \in DueSets(l) : j <= h
           set == archive[l].buffered[i]
       IN IF set.prev # archive[l].prev \/ ~LogLevelIntegrity(set)
          THEN phase' = "refused" /\ UNCHANGED <<archive, records>>
          ELSE /\ archive' = [archive EXCEPT
                                ![l].prev = Plain(set),
                                ![l].matched = @ \/ Plain(set) = tail[l],
                                ![l].buffered = RemoveAt(@, i)]
               /\ records' = records \cup HandedOver(l)
               /\ UNCHANGED phase
    /\ UNCHANGED <<runVars, fileVars, current_epoch, durable_epoch, db, historyVars>>

\* All archives of the epoch are verified; the replay takes place.
Verified == phase = "epoch" /\ \A l \in Loggers : DueSets(l) = {}

\* A record next in the order of TIDs.
NextByTid(r) == \A s \in records : ~Less(s.tid, r.tid)

\* Replay of one record: insert_value keeps a key that exists and remove_value
\* ignores one that does not; WRITE stores through the pointer get_value returns.
ReplayRecord(r) ==
    /\ Verified
    /\ r \in records /\ NextByTid(r)
    /\ records' = records \ {r}
    /\ db' = CASE r.op = "INSERT" -> IF db[r.key] = Absent THEN [db EXCEPT ![r.key] = r.val] ELSE db
               [] r.op = "WRITE"  -> IF db[r.key] # Absent THEN [db EXCEPT ![r.key] = r.val] ELSE db
               [] r.op = "DELETE" -> [db EXCEPT ![r.key] = Absent]
    /\ phase' = IF r.op = "WRITE" /\ db[r.key] = Absent THEN "died" ELSE phase
    /\ UNCHANGED <<runVars, fileVars, current_epoch, durable_epoch, archive, historyVars>>

\* The loop condition after the increment.
MoreEpochs == current_epoch + 1 <= durable_epoch

NextEpoch ==
    /\ Verified
    /\ records = {}
    /\ current_epoch' = current_epoch + 1
    /\ phase' = IF MoreEpochs THEN "read" ELSE "check"
    /\ UNCHANGED <<runVars, fileVars, durable_epoch, archive, records, db, historyVars>>

\* Faulty form: the tail hashes are not looked at.
TailsMatched_Skipped == TRUE

\* The loop over the archives after the last epoch.
TailsMatched == \A l \in Loggers : archive[l].matched

\* Every tail hash must have been met; then GlobalEpoch becomes the durable epoch.
CheckTails ==
    /\ phase = "check"
    /\ IF TailsMatched
       THEN phase' = "recovered" /\ GlobalEpoch' = durable_epoch
       ELSE phase' = "refused" /\ UNCHANGED GlobalEpoch
    /\ UNCHANGED <<ThLocalEpoch, DurableEpoch, tidword, mrctid, buffer, queue, prevHash,
                   fileVars, recoveryVars, historyVars>>

-----------------------------------------------------------------------------

RecoveryStep ==
    \/ OpenFiles
    \/ \E l \in Loggers : ReadLogSet(l)
    \/ ReadDone
    \/ \E l \in Loggers : VerifyLogSet(l)
    \/ \E r \in records : ReplayRecord(r)
    \/ NextEpoch
    \/ CheckTails

\* A server that failed to recover is not started; the last recovery ends the model.
Stopped ==
    /\ \/ phase \in {"refused", "died"}
       \/ phase = "recovered" /\ crashes = MaxCrashes
    /\ UNCHANGED vars

Next ==
    \/ EpochAdvance
    \/ \E l \in Loggers : EpochWork(l)
    \/ \E l \in Loggers, op \in Ops, k \in Keys, e \in 1 .. MaxEpoch : Commit(l, op, k, e)
    \/ \E l \in Loggers : Publish(l)
    \/ \E l \in Loggers : WriteLog(l)
    \/ \E l \in Loggers : WriteTail(l)
    \/ \E d \in 1 .. MaxEpoch : WritePepoch(d)
    \/ Crash
    \/ RecoveryStep
    \/ Restart
    \/ Stopped

Spec == Init /\ [][Next]_vars

-----------------------------------------------------------------------------
(* Properties                                                              *)

Phases == {"run", "open", "read", "epoch", "check", "recovered", "refused", "died"}

Tids == (-1 .. MaxEpoch) \X Nat
Vals == 0 .. MaxCommits
Recs == [tid : Tids, op : Ops, key : Keys, val : Vals]

TypeOK ==
    /\ phase \in Phases
    /\ GlobalEpoch \in 1 .. MaxEpoch
    /\ ThLocalEpoch \in [Loggers -> 0 .. MaxEpoch]
    /\ DurableEpoch \in 0 .. MaxEpoch
    /\ tidword \in [Keys -> Tids]
    /\ mrctid \in [Loggers -> Tids]
    /\ \A l \in Loggers :
        /\ ToSet(buffer[l]) \subseteq Recs
        /\ \A i \in 1 .. Len(queue[l]) : queue[l][i] # <<>> /\ ToSet(queue[l][i]) \subseteq Recs
        /\ archive[l].offset \in 0 .. Len(logfile[l])
    /\ pepoch \in 0 .. MaxEpoch
    /\ current_epoch \in 0 .. MaxEpoch + 1
    /\ durable_epoch \in 0 .. MaxEpoch
    /\ records \subseteq Recs
    /\ db \in [Keys -> Vals]
    /\ crashes \in 0 .. MaxCrashes
    /\ clean \in BOOLEAN

\* What a transaction leaves of its key, and the database after the given ones: the
\* last of each key counts.
Outcome(c) == IF c.rec.op = "DELETE" THEN Absent ELSE c.rec.val
LastOf(C) == CHOOSE c \in C : \A d \in C : d.rec.val <= c.rec.val
Effect(C) ==
    [k \in Keys |-> LET own == {c \in C : c.rec.key = k}
                    IN  IF own = {} THEN Absent ELSE Outcome(LastOf(own))]

\* No key was written in one epoch on both sides of a restart, after which TIDs
\* start again in the epoch of the recovered state.
TidsComparable ==
    \A c, d \in commits :
        c.rec.key = d.rec.key /\ c.rec.tid[1] = d.rec.tid[1] => c.session = d.session

\* Records of a key in two logs, or of two sessions in one log.
KeyInOneLog == \A c, d \in commits : c.rec.key = d.rec.key => c.log = d.log
LogOfOneSession == \A c, d \in commits : c.log = d.log => c.session = d.session

\* Recovery that reports success has rebuilt exactly the transactions up to the
\* durable epoch, although sets are replayed early and several times and the logs are
\* merged by TID (verify_epoch_level_integrity, execute_recovery).
RecoveredIsDurableState ==
    phase = "recovered" /\ clean /\ TidsComparable =>
        db = Effect({c \in commits : c.rec.tid[1] <= durable_epoch})

\* Logs that end at the durable epoch, without DELETE, each key in one log and each
\* log from one session, are accepted: the chains the loggers wrote are the ones
\* recovery checks (create_json_log, verify_log_level_integrity, tail hashes).
QuietLogsRecover ==
    /\ clean /\ crashes > 0 /\ pepoch > 0
    /\ \A c \in commits : c.rec.tid[1] <= pepoch /\ c.rec.op # "DELETE"
    /\ KeyInOneLog /\ LogOfOneSession
    => phase \notin {"refused", "died"}

\* silor.cpp, silo_r/README.md: recovery rebuilds the last consistent state after a
\* failure; the untouched files of a crashed server are not refused.
CrashIsRecovered == pepoch > 0 => phase # "refused"
=============================================================================
