-------------------------- MODULE SiloRecoveryProofs --------------------------
(***************************************************************************)
(* Proofs about SiloRecovery, for every number of loggers, keys, epochs,   *)
(* transactions, sessions and crashes: the types and what the log files    *)
(* hold (Inv), that a recovery which reports success has rebuilt the       *)
(* durable state (DurInv), and that the logs of a quiet session are        *)
(* accepted (AcceptedInv).                                                 *)
(***************************************************************************)
EXTENDS SiloRecovery, WellFoundedInduction, TLAPS

-----------------------------------------------------------------------------
(* The inductive invariant                                                 *)

\* The log records of committed transactions, which belong to an epoch; a buffer, and
\* so a hash, is a sequence of them.
LogTids == (1 .. MaxEpoch) \X Nat
LogRecs == [tid : LogTids, op : Ops, key : Keys, val : Vals]
Buffers == Seq(LogRecs)

\* What LogBuffer::write appends to a log file.
LogSets ==
  {s \in [prev : Buffers, recs : Seq([rec : LogRecs, prev : LogRecs])] :
     s.recs # <<>> /\ LogLevelIntegrity(s)}

\* What RecoveryLogArchive keeps.
Archives ==
  [offset : Nat, buffered : Seq(LogSets), prev : Buffers, matched : BOOLEAN, allRead : BOOLEAN]

\* The types, those of the files included, which outlive a crash.
Typed ==
  /\ phase \in Phases
  /\ GlobalEpoch \in 1 .. MaxEpoch /\ ThLocalEpoch \in [Loggers -> 0 .. MaxEpoch]
  /\ DurableEpoch \in 0 .. MaxEpoch
  /\ tidword \in [Keys -> Tids] /\ mrctid \in [Loggers -> Tids]
  /\ buffer \in [Loggers -> Buffers] /\ queue \in [Loggers -> Seq(Buffers \ {<<>>})]
  /\ prevHash \in [Loggers -> Buffers]
  /\ logfile \in [Loggers -> Seq(LogSets)] /\ tail \in [Loggers -> Buffers]
  /\ pepoch \in 0 .. MaxEpoch
  /\ durable_epoch \in 0 .. MaxEpoch /\ current_epoch \in 0 .. MaxEpoch + 1
  /\ archive \in [Loggers -> Archives]
  /\ records \subseteq LogRecs /\ db \in [Keys -> Vals]
  /\ made \in 0 .. MaxCommits /\ crashes \in 0 .. MaxCrashes /\ clean \in BOOLEAN

\* A set follows the one before it, or is the first of its session.
ChainOf(l) ==
  \A i \in 1 .. Len(logfile[l]) :
    \/ logfile[l][i].prev = PASSPHRASE
    \/ i - 1 \in 1 .. Len(logfile[l]) /\ logfile[l][i].prev = Plain(logfile[l][i - 1])

\* The logger remembers the hash of the last set of its file.
HashOf(l) ==
  prevHash[l] # PASSPHRASE =>
    Len(logfile[l]) # 0 /\ prevHash[l] = Plain(logfile[l][Len(logfile[l])])

\* The tail hash is that of a set of the file.
TailOf(l) ==
  tail[l] # NoHash => \E i \in 1 .. Len(logfile[l]) : tail[l] = Plain(logfile[l][i])

\* r is a record of the set s; it is a record of a log file.
IsIn(r, s) == \E j \in 1 .. Len(s.recs) : s.recs[j].rec = r
Logged(r) == \E l \in Loggers : \E i \in 1 .. Len(logfile[l]) : IsIn(r, logfile[l][i])

\* A log file has x as a value of k.
LoggedValue(k, x) ==
  \E l \in Loggers : \E i \in 1 .. Len(logfile[l]) : \E j \in 1 .. Len(logfile[l][i].recs) :
    LET r == logfile[l][i].recs[j].rec IN r.op # "DELETE" /\ r.key = k /\ r.val = x

\* What recovery has read of a log file is there.
ReadOf(l) ==
  /\ archive[l].offset <= Len(logfile[l])
  /\ \A i \in 1 .. Len(archive[l].buffered) :
       \E j \in 1 .. Len(logfile[l]) : archive[l].buffered[i] = logfile[l][j]

\* What is replayed, and what is in the recovered database, is in a log file.
Replayed ==
  /\ \A r \in records : Logged(r)
  /\ \A k \in Keys : db[k] # Absent => LoggedValue(k, db[k])

\* The loop over the epochs; without a durable epoch some tail hash is never met.
EpochLoop ==
  /\ phase \in {"read", "epoch"} => current_epoch <= durable_epoch
  /\ phase = "open" => current_epoch = 0
  /\ phase \in {"read", "epoch", "check"} /\ durable_epoch = 0 =>
       \E l \in Loggers : ~archive[l].matched

\* The parts that are about the files, and about what recovery took from them.
FileInv == \A l \in Loggers : ChainOf(l) /\ HashOf(l) /\ TailOf(l)
ReadInv == (\A l \in Loggers : ReadOf(l)) /\ Replayed

\* The inductive invariant.
Inv == Typed /\ FileInv /\ ReadInv /\ EpochLoop

-----------------------------------------------------------------------------
(* The operators of the model                                              *)

\* A set of positions has a least one.
LEMMA LeastExists ==
  ASSUME NEW S \in SUBSET Nat, S # {}
  PROVE  \E x \in S : \A y \in S : x <= y
<1> DEFINE R == {p \in Nat \X Nat : p[1] < p[2]}
<1>1. IsWellFoundedOn(R, Nat)
  BY NatLessThanWellFounded DEF OpToRel
<1>2. \E x \in S : \A y \in S : <<y, x>> \notin R
  BY <1>1, WFMin
<1>3. \A x, y \in Nat : <<y, x>> \notin R => x <= y
  OBVIOUS
<1> HIDE DEF R
<1> QED
  BY <1>2, <1>3

\* The TID that writePhase chooses is one of the three it compares.
LEMMA MaxTidIsOne ==
  ASSUME NEW a \in Int \X Nat, NEW b \in Int \X Nat, NEW c \in Int \X Nat
  PROVE  MaxTid({a, b, c}) \in {a, b, c}
<1>1. \E t \in {a, b, c} : \A s \in {a, b, c} : ~Less(t, s)
  BY DEF Less
<1> QED
  BY <1>1 DEF MaxTid

\* create_json_log keeps the records, and the chain it adds is the one that
\* verify_log_level_integrity looks for.
LEMMA ChainedVerifies ==
  ASSUME NEW q \in Buffers, q # <<>>, NEW h \in Buffers, NEW s,
         s = [prev |-> h, recs |-> Chained(q)]
  PROVE  s \in LogSets /\ s.prev = h /\ Plain(s) = q
<1>1. Len(q) \in Nat /\ Len(q) # 0 /\ \A i \in 1 .. Len(q) : q[i] \in LogRecs
  BY DEF Buffers
<1>2. PICK c : c = Chained(q)
  OBVIOUS
<1>3. \A i \in 1 .. Len(q) : (IF i = 1 THEN Last(q) ELSE q[i - 1]) \in LogRecs
  BY <1>1 DEF Last
<1>4. /\ c \in Seq([rec : LogRecs, prev : LogRecs]) /\ Len(c) = Len(q)
      /\ \A i \in 1 .. Len(q) : c[i].rec = q[i] /\ c[i].prev = IF i = 1 THEN q[Len(q)] ELSE q[i - 1]
  BY <1>1, <1>2, <1>3 DEF Chained, Last
<1>5. s.recs = c /\ s.prev = h /\ c # <<>>
  BY <1>1, <1>2, <1>4
<1>6. Plain(s) = q
  BY <1>1, <1>4, <1>5 DEF Plain, Buffers
<1>7. LogLevelIntegrity(s)
  BY <1>1, <1>4, <1>5, <1>6 DEF LogLevelIntegrity
<1>8. s \in [prev : Buffers, recs : Seq([rec : LogRecs, prev : LogRecs])]
  BY <1>2, <1>4
<1> QED
  BY <1>5, <1>6, <1>7, <1>8 DEF LogSets

\* The records of a log set.
LEMMA PlainOf ==
  ASSUME NEW s \in LogSets
  PROVE  /\ Plain(s) \in Buffers /\ Plain(s) # <<>> /\ Len(Plain(s)) = Len(s.recs)
         /\ \A i \in 1 .. Len(s.recs) : Plain(s)[i] = s.recs[i].rec /\ s.recs[i].rec \in LogRecs
         /\ SetEpoch(s) \in 1 .. MaxEpoch
<1>1. /\ s.recs \in Seq([rec : LogRecs, prev : LogRecs]) /\ s.recs # <<>>
      /\ Len(s.recs) \in Nat /\ Len(s.recs) # 0
  BY DEF LogSets
<1>2. PICK p : p = Plain(s)
  OBVIOUS
<1>3. ASSUME NEW i \in 1 .. Len(s.recs) PROVE s.recs[i].rec \in LogRecs
  <2>1. \A T : \A q \in Seq(T) : \A j \in 1 .. Len(q) : q[j] \in T
    OBVIOUS
  <2>2. s.recs[i] \in [rec : LogRecs, prev : LogRecs]
    BY <1>1, <2>1, Zenon
  <2> QED
    BY <2>2
<1>4. p \in Seq(LogRecs) /\ Len(p) = Len(s.recs) /\ \A i \in 1 .. Len(s.recs) : p[i] = s.recs[i].rec
  BY <1>1, <1>2, <1>3 DEF Plain
<1>5. p # <<>> /\ p[Len(p)] \in LogRecs
  BY <1>1, <1>4
<1>6. p[Len(p)].tid[1] \in 1 .. MaxEpoch
  BY <1>5 DEF LogRecs, LogTids
<1> QED
  BY <1>2, <1>3, <1>4, <1>5, <1>6 DEF Buffers, SetEpoch, EpochOf, Last

\* The erasure of a set from the buffer of an archive.
LEMMA RemoveAtElements ==
  ASSUME NEW S, NEW q \in Seq(S), NEW n \in 1 .. Len(q)
  PROVE  /\ RemoveAt(q, n) \in Seq(S)
         /\ \A i \in 1 .. Len(RemoveAt(q, n)) : \E j \in 1 .. Len(q) : RemoveAt(q, n)[i] = q[j]
<1>1. Len(q) \in Nat /\ n \in Nat
  OBVIOUS
<1>2. /\ SubSeq(q, 1, n - 1) \in Seq(S) /\ Len(SubSeq(q, 1, n - 1)) = n - 1
      /\ \A i \in 1 .. n - 1 : SubSeq(q, 1, n - 1)[i] = q[i]
  BY <1>1
<1>3. /\ SubSeq(q, n + 1, Len(q)) \in Seq(S) /\ Len(SubSeq(q, n + 1, Len(q))) = Len(q) - n
      /\ \A i \in 1 .. Len(q) - n : SubSeq(q, n + 1, Len(q))[i] = q[n + i]
  BY <1>1
<1>4. PICK a \in Seq(S), b \in Seq(S) : a = SubSeq(q, 1, n - 1) /\ b = SubSeq(q, n + 1, Len(q))
  BY <1>2, <1>3
<1>5. PICK c : c = a \o b
  OBVIOUS
<1>6. c \in Seq(S) /\ Len(c) = Len(a) + Len(b)
  BY <1>5
<1>7. \A i \in 1 .. Len(c) : c[i] = IF i <= Len(a) THEN a[i] ELSE b[i - Len(a)]
  BY <1>5, <1>6
<1>8. Len(a) = n - 1 /\ Len(b) = Len(q) - n
  BY <1>2, <1>3, <1>4
<1>9. ASSUME NEW i \in 1 .. Len(c) PROVE \E j \in 1 .. Len(q) : c[i] = q[j]
  <2>1. CASE i <= n - 1
    <3>1. i \in 1 .. n - 1 /\ i \in 1 .. Len(q)
      BY <1>1, <1>6, <1>8, <2>1
    <3>2. c[i] = q[i]
      BY <1>2, <1>4, <1>7, <1>8, <2>1, <3>1
    <3> QED
      BY <3>1, <3>2
  <2>2. CASE ~(i <= n - 1)
    <3>1. i - (n - 1) \in 1 .. Len(q) - n /\ i + 1 \in 1 .. Len(q)
      BY <1>1, <1>6, <1>8, <2>2
    <3>2. c[i] = b[i - (n - 1)]
      BY <1>7, <1>8, <2>2
    <3>3. b[i - (n - 1)] = q[n + (i - (n - 1))]
      BY <1>3, <1>4, <3>1
    <3>4. n + (i - (n - 1)) = i + 1
      BY <1>1, <3>1
    <3> QED
      BY <3>1, <3>2, <3>3, <3>4
  <2> QED
    BY <2>1, <2>2
<1>10. RemoveAt(q, n) = c
  BY <1>4, <1>5 DEF RemoveAt
<1> QED
  BY <1>6, <1>9, <1>10

-----------------------------------------------------------------------------
(* The running server                                                      *)

\* The steps that leave the files and what recovery keeps alone.
LEMMA QuietStep ==
  ASSUME Inv, Typed', UNCHANGED <<phase, prevHash, fileVars, recoveryVars>>
  PROVE  Inv'
<1>1. FileInv'
  BY DEF Inv, FileInv, ChainOf, HashOf, TailOf, fileVars
<1>2. ReadInv'
  BY DEF Inv, ReadInv, ReadOf, Replayed, Logged, LoggedValue, fileVars, recoveryVars
<1>3. EpochLoop'
  BY DEF Inv, EpochLoop, recoveryVars
<1> QED
  BY <1>1, <1>2, <1>3 DEF Inv

\* siloLeaderWork.
LEMMA EpochAdvanceStep ==
  ASSUME Inv, EpochAdvance
  PROVE  Inv'
<1>1. Typed'
  BY RecoveryAssumption DEF Inv, Typed, EpochAdvance, fileVars, recoveryVars, historyVars
<1> QED
  BY <1>1, QuietStep DEF EpochAdvance

\* epochWork.
LEMMA EpochWorkStep ==
  ASSUME Inv, NEW l \in Loggers, EpochWork(l)
  PROVE  Inv'
<1>1. Typed'
  BY RecoveryAssumption DEF Inv, Typed, EpochWork, fileVars, recoveryVars, historyVars
<1> QED
  BY <1>1, QuietStep DEF EpochWork

\* LogBufferPool::publish.
LEMMA PublishStep ==
  ASSUME Inv, NEW l \in Loggers, Publish(l)
  PROVE  Inv'
<1>1. buffer[l] \in Buffers \ {<<>>} /\ queue[l] \in Seq(Buffers \ {<<>>})
  BY DEF Inv, Typed, Publish
<1>2. Append(queue[l], buffer[l]) \in Seq(Buffers \ {<<>>}) /\ <<>> \in Buffers
  BY <1>1 DEF Buffers
<1>3. Typed'
  BY <1>1, <1>2 DEF Inv, Typed, Publish, fileVars, recoveryVars, historyVars
<1> QED
  BY <1>3, QuietStep DEF Publish

\* The TID of a commit is of the epoch that was loaded.
LEMMA CommitStep ==
  ASSUME Inv, NEW l \in Loggers, NEW op \in Ops, NEW k \in Keys, NEW e \in 1 .. MaxEpoch,
         Commit(l, op, k, e)
  PROVE  Inv'
<1>0. Typed /\ MaxEpoch \in Nat /\ MaxCommits \in Nat
  BY RecoveryAssumption DEF Inv
<1>1. PICK a : a = IF op = "INSERT" THEN <<0, 0>> ELSE tidword[k]
  OBVIOUS
<1>2. a \in Int \X Nat /\ mrctid[l] \in Int \X Nat
  BY <1>0, <1>1 DEF Typed, Tids
<1>3. PICK b : b = <<a[1], a[2] + 1>>
  OBVIOUS
<1>4. PICK c : c = <<mrctid[l][1], mrctid[l][2] + 1>>
  OBVIOUS
<1>5. PICK d : d = <<e, 0>>
  OBVIOUS
<1>6. b \in Int \X Nat /\ c \in Int \X Nat /\ d \in Int \X Nat
  BY <1>0, <1>2, <1>3, <1>4, <1>5
<1>7. PICK t : t = MaxTid({b, c, d})
  OBVIOUS
<1>8. t \in Int \X Nat
  BY <1>6, <1>7, MaxTidIsOne
<1>9. PICK r : r = [tid |-> t, op |-> op, key |-> k, val |-> made + 1]
  OBVIOUS
<1>10. /\ t[1] = e /\ made < MaxCommits /\ made' = made + 1
       /\ ThLocalEpoch' = [ThLocalEpoch EXCEPT ![l] = e] /\ tidword' = [tidword EXCEPT ![k] = t]
       /\ mrctid' = [mrctid EXCEPT ![l] = t] /\ buffer' = [buffer EXCEPT ![l] = Append(@, r)]
       /\ UNCHANGED <<phase, GlobalEpoch, DurableEpoch, queue, prevHash, fileVars, recoveryVars,
                      crashes, clean>>
  BY <1>1, <1>3, <1>4, <1>5, <1>7, <1>9 DEF Commit
<1>11. t \in LogTids /\ t \in Tids
  BY <1>0, <1>8, <1>10 DEF LogTids, Tids
<1>12. made + 1 \in Vals /\ made + 1 \in 0 .. MaxCommits
  BY <1>0, <1>10 DEF Typed, Vals
<1>13. r \in LogRecs
  BY <1>9, <1>11, <1>12 DEF LogRecs
<1>14. Append(buffer[l], r) \in Buffers
  BY <1>0, <1>13 DEF Typed, Buffers
<1>15. /\ ThLocalEpoch' \in [Loggers -> 0 .. MaxEpoch] /\ tidword' \in [Keys -> Tids]
       /\ mrctid' \in [Loggers -> Tids] /\ buffer' \in [Loggers -> Buffers]
       /\ made' \in 0 .. MaxCommits
  BY <1>0, <1>10, <1>11, <1>12, <1>14 DEF Typed
<1>16. Typed'
  BY <1>0, <1>10, <1>15 DEF Typed, fileVars, recoveryVars
<1> QED
  BY <1>10, <1>16, QuietStep

\* LogBuffer::write appends a set that follows the last one of the session.
LEMMA WriteLogStep ==
  ASSUME Inv, NEW l \in Loggers, WriteLog(l)
  PROVE  Inv'
<1>0. /\ Typed /\ FileInv /\ ReadInv /\ EpochLoop
      /\ queue[l] \in Seq(Buffers \ {<<>>}) /\ queue[l] # <<>> /\ prevHash[l] \in Buffers
      /\ logfile[l] \in Seq(LogSets)
  BY DEF Inv, Typed, WriteLog
<1>1. PICK q : q = Head(queue[l])
  OBVIOUS
<1>2. q \in Buffers /\ q # <<>> /\ Tail(queue[l]) \in Seq(Buffers \ {<<>>})
  BY <1>0, <1>1
<1>3. PICK s : s = [prev |-> prevHash[l], recs |-> Chained(q)]
  OBVIOUS
<1>4. s \in LogSets /\ s.prev = prevHash[l] /\ Plain(s) = q
  BY <1>0, <1>2, <1>3, ChainedVerifies
<1>5. PICK f : f = Append(logfile[l], s)
  OBVIOUS
<1>6. /\ f \in Seq(LogSets) /\ Len(f) = Len(logfile[l]) + 1 /\ Len(logfile[l]) \in Nat
      /\ f[Len(f)] = s /\ \A i \in 1 .. Len(logfile[l]) : f[i] = logfile[l][i]
  BY <1>0, <1>4, <1>5
<1>7. /\ logfile' = [logfile EXCEPT ![l] = f] /\ prevHash' = [prevHash EXCEPT ![l] = q]
      /\ queue' = [queue EXCEPT ![l] = Tail(@)]
      /\ UNCHANGED <<phase, GlobalEpoch, ThLocalEpoch, DurableEpoch, tidword, mrctid, buffer,
                     tail, pepoch, recoveryVars, historyVars>>
  BY <1>1, <1>3, <1>5 DEF WriteLog
<1>8. Typed'
  <2>1. /\ logfile' \in [Loggers -> Seq(LogSets)] /\ prevHash' \in [Loggers -> Buffers]
        /\ queue' \in [Loggers -> Seq(Buffers \ {<<>>})]
    BY <1>0, <1>2, <1>6, <1>7 DEF Typed
  <2> QED
    BY <1>0, <1>7, <2>1 DEF Typed, recoveryVars, historyVars
<1>9. /\ logfile'[l] = f /\ prevHash'[l] = q
      /\ \A m \in Loggers : m # l => logfile'[m] = logfile[m] /\ prevHash'[m] = prevHash[m]
  BY <1>0, <1>7 DEF Typed
<1>10. FileInv'
  <2>1. ASSUME NEW m \in Loggers, m # l PROVE (ChainOf(m) /\ HashOf(m) /\ TailOf(m))'
    BY <1>0, <1>7, <1>9, <2>1 DEF FileInv, ChainOf, HashOf, TailOf
  <2>2. ASSUME NEW i \in 1 .. Len(f)
        PROVE  \/ f[i].prev = PASSPHRASE
               \/ i - 1 \in 1 .. Len(f) /\ f[i].prev = Plain(f[i - 1])
    <3>1. CASE i \in 1 .. Len(logfile[l])
      <4>1. \/ logfile[l][i].prev = PASSPHRASE
            \/ i - 1 \in 1 .. Len(logfile[l]) /\ logfile[l][i].prev = Plain(logfile[l][i - 1])
        BY <1>0, <3>1 DEF FileInv, ChainOf
      <4> QED
        BY <1>6, <3>1, <4>1
    <3>2. CASE i = Len(f) /\ prevHash[l] # PASSPHRASE
      <4>1. Len(logfile[l]) # 0 /\ prevHash[l] = Plain(logfile[l][Len(logfile[l])])
        BY <1>0, <3>2 DEF FileInv, HashOf
      <4> QED
        BY <1>4, <1>6, <3>2, <4>1
    <3>3. CASE i = Len(f) /\ prevHash[l] = PASSPHRASE
      BY <1>4, <1>6, <3>3
    <3> QED
      BY <1>6, <3>1, <3>2, <3>3
  <2>3. ChainOf(l)'
    BY <1>9, <2>2 DEF ChainOf
  <2>4. HashOf(l)'
    BY <1>4, <1>6, <1>9 DEF HashOf
  <2>5. TailOf(l)'
    <3>1. ASSUME tail[l] # NoHash PROVE \E i \in 1 .. Len(f) : tail[l] = Plain(f[i])
      <4>1. PICK i \in 1 .. Len(logfile[l]) : tail[l] = Plain(logfile[l][i])
        BY <1>0, <3>1 DEF FileInv, TailOf
      <4> QED
        BY <1>6, <4>1
    <3> QED
      BY <1>7, <1>9, <3>1 DEF TailOf
  <2> QED
    BY <2>1, <2>3, <2>4, <2>5 DEF FileInv
<1>11. ASSUME NEW m \in Loggers, NEW i \in 1 .. Len(logfile[m])
       PROVE  i \in 1 .. Len(logfile'[m]) /\ logfile'[m][i] = logfile[m][i]
  <2>1. CASE m = l
    BY <1>6, <1>9, <2>1
  <2>2. CASE m # l
    BY <1>9, <2>2
  <2> QED
    BY <2>1, <2>2
<1>12. archive' = archive /\ records' = records /\ db' = db
  BY <1>7 DEF recoveryVars
<1>13. ReadInv'
  <2>1. ASSUME NEW m \in Loggers PROVE ReadOf(m)'
    <3>1. ReadOf(m) /\ archive[m].offset \in Nat
      BY <1>0 DEF ReadInv, Typed, Archives
    <3>2. Len(logfile[m]) <= Len(logfile'[m])
      <4>1. CASE m = l
        BY <1>6, <1>9, <4>1
      <4>2. CASE m # l
        <5>1. logfile[m] \in Seq(LogSets)
          BY <1>0 DEF Typed
        <5>2. Len(logfile[m]) \in Nat /\ logfile'[m] = logfile[m]
          BY <1>9, <4>2, <5>1
        <5> QED
          BY <5>2
      <4> QED
        BY <4>1, <4>2
    <3>3. Len(logfile[m]) \in Nat /\ Len(logfile'[m]) \in Nat
      <4>1. logfile[m] \in Seq(LogSets) /\ logfile'[m] \in Seq(LogSets)
        BY <1>0, <1>8 DEF Typed
      <4> QED
        BY <4>1
    <3> QED
      BY <1>11, <1>12, <3>1, <3>2, <3>3 DEF ReadOf
  <2>2. ASSUME NEW r, Logged(r) PROVE Logged(r)'
    BY <1>11, <2>2 DEF Logged
  <2>3. ASSUME NEW k \in Keys, NEW x, LoggedValue(k, x) PROVE LoggedValue(k, x)'
    <3>1. PICK m \in Loggers : \E i \in 1 .. Len(logfile[m]) : \E j \in 1 .. Len(logfile[m][i].recs) :
            LET r == logfile[m][i].recs[j].rec IN r.op # "DELETE" /\ r.key = k /\ r.val = x
      BY <2>3 DEF LoggedValue
    <3>2. PICK i \in 1 .. Len(logfile[m]) : \E j \in 1 .. Len(logfile[m][i].recs) :
            LET r == logfile[m][i].recs[j].rec IN r.op # "DELETE" /\ r.key = k /\ r.val = x
      BY <3>1
    <3>3. i \in 1 .. Len(logfile'[m]) /\ logfile'[m][i] = logfile[m][i]
      BY <1>11
    <3> QED
      BY <3>2, <3>3 DEF LoggedValue
  <2>4. Replayed'
    BY <1>0, <1>12, <2>2, <2>3 DEF ReadInv, Replayed
  <2> QED
    BY <2>1, <2>4 DEF ReadInv
<1>14. EpochLoop'
  BY <1>0, <1>7 DEF EpochLoop, recoveryVars
<1> QED
  BY <1>8, <1>10, <1>13, <1>14 DEF Inv

\* write_tail_log_hash.
LEMMA WriteTailStep ==
  ASSUME Inv, NEW l \in Loggers, WriteTail(l)
  PROVE  Inv'
<1>0. Typed /\ FileInv /\ ReadInv /\ EpochLoop /\ prevHash[l] # PASSPHRASE
  BY DEF Inv, WriteTail, TailDue
<1>1. /\ tail' = [tail EXCEPT ![l] = prevHash[l]]
      /\ UNCHANGED <<phase, runVars, logfile, pepoch, recoveryVars, historyVars>>
  BY DEF WriteTail
<1>2. Typed'
  BY <1>0, <1>1 DEF Typed, runVars, recoveryVars, historyVars
<1>3. Len(logfile[l]) \in 1 .. Len(logfile[l]) /\ prevHash[l] = Plain(logfile[l][Len(logfile[l])])
  <2>1. Len(logfile[l]) \in Nat
    BY <1>0 DEF Typed
  <2> QED
    BY <1>0, <2>1 DEF FileInv, HashOf
<1>4. /\ tail'[l] = prevHash[l] /\ logfile' = logfile /\ prevHash' = prevHash
      /\ \A m \in Loggers : m # l => tail'[m] = tail[m]
  BY <1>0, <1>1 DEF Typed, runVars
<1>5. FileInv'
  <2>1. ASSUME NEW m \in Loggers PROVE TailOf(m)'
    <3>1. CASE m = l
      BY <1>3, <1>4, <3>1 DEF TailOf
    <3>2. CASE m # l
      BY <1>0, <1>4, <3>2 DEF TailOf, FileInv
    <3> QED
      BY <3>1, <3>2
  <2> QED
    BY <1>0, <1>4, <2>1 DEF FileInv, ChainOf, HashOf
<1>6. ReadInv' /\ EpochLoop'
  BY <1>0, <1>1 DEF ReadInv, EpochLoop, ReadOf, Replayed, Logged, LoggedValue, recoveryVars
<1> QED
  BY <1>2, <1>5, <1>6 DEF Inv

\* check_durable.
LEMMA WritePepochStep ==
  ASSUME Inv, NEW d \in 1 .. MaxEpoch, WritePepoch(d)
  PROVE  Inv'
<1>0. Typed /\ FileInv /\ ReadInv /\ EpochLoop /\ MaxEpoch \in Nat
  BY RecoveryAssumption DEF Inv
<1>1. /\ DurableEpoch' = d /\ pepoch' = d
      /\ UNCHANGED <<phase, GlobalEpoch, ThLocalEpoch, tidword, mrctid, buffer, queue, prevHash,
                     logfile, tail, recoveryVars, historyVars>>
  BY DEF WritePepoch
<1>2. Typed'
  BY <1>0, <1>1 DEF Typed, recoveryVars, historyVars
<1>3. FileInv'
  BY <1>0, <1>1 DEF FileInv, ChainOf, HashOf, TailOf
<1>4. ReadInv' /\ EpochLoop'
  BY <1>0, <1>1 DEF ReadInv, EpochLoop, ReadOf, Replayed, Logged, LoggedValue, recoveryVars
<1> QED
  BY <1>2, <1>3, <1>4 DEF Inv

-----------------------------------------------------------------------------
(* Crash and restart                                                       *)

\* A recovery begins with nothing.
LEMMA ClosedIs ==
  ASSUME NEW a \in BOOLEAN, NEW b \in BOOLEAN, NEW r,
         r = [ClosedArchive EXCEPT !.matched = a, !.allRead = b] \/ r = ClosedArchive
  PROVE  r \in Archives /\ r.offset = 0 /\ r.buffered = <<>>
<1>1. <<>> \in Buffers /\ <<>> \in Seq(LogSets)
  BY DEF Buffers
<1>2. PICK c \in BOOLEAN, d \in BOOLEAN :
        r = [offset |-> 0, buffered |-> <<>>, prev |-> <<>>, matched |-> c, allRead |-> d]
  BY DEF ClosedArchive, PASSPHRASE
<1>3. r \in Archives
  BY <1>1, <1>2 DEF Archives
<1> QED
  BY <1>2, <1>3

\* An archive that is not open.
LEMMA ClosedReads ==
  /\ ClosedArchive \in Archives
  /\ ClosedArchive.offset = 0 /\ ClosedArchive.buffered = <<>>
BY ClosedIs

\* Only the files are left.
LEMMA CrashStep ==
  ASSUME Inv, Crash
  PROVE  Inv'
<1>0. Typed /\ FileInv /\ MaxEpoch \in Nat \ {0} /\ MaxCommits \in Nat /\ MaxCrashes \in Nat
  BY RecoveryAssumption DEF Inv
<1>1. /\ tidword' \in [Keys -> Tids] /\ mrctid' \in [Loggers -> Tids]
      /\ ThLocalEpoch' \in [Loggers -> 0 .. MaxEpoch] /\ GlobalEpoch' \in 1 .. MaxEpoch
      /\ DurableEpoch' \in 0 .. MaxEpoch
  BY <1>0 DEF Crash, Tids, NoValue
<1>2. /\ buffer' \in [Loggers -> Buffers] /\ queue' \in [Loggers -> Seq(Buffers \ {<<>>})]
      /\ prevHash' \in [Loggers -> Buffers]
  BY DEF Crash, Buffers, PASSPHRASE
<1>3. /\ archive' \in [Loggers -> Archives] /\ records' \subseteq LogRecs /\ db' \in [Keys -> Vals]
      /\ durable_epoch' \in 0 .. MaxEpoch /\ current_epoch' \in 0 .. MaxEpoch + 1
  BY <1>0, ClosedReads DEF Crash, Absent, Vals
<1>4. crashes' \in 0 .. MaxCrashes /\ phase' \in Phases
  BY <1>0 DEF Crash, Typed, Phases
<1>5. clean' \in BOOLEAN
  BY Zenon DEF Crash
<1>6. UNCHANGED <<logfile, tail, pepoch, made>>
  BY DEF Crash, fileVars
<1>7. Typed'
  BY <1>0, <1>1, <1>2, <1>3, <1>4, <1>5, <1>6 DEF Typed
<1>8. FileInv'
  BY <1>0, <1>6 DEF Crash, FileInv, ChainOf, HashOf, TailOf
<1>9. ReadInv'
  <2>1. ASSUME NEW l \in Loggers PROVE ReadOf(l)'
    <3>1. archive'[l] = ClosedArchive /\ logfile[l] \in Seq(LogSets)
      BY <1>0 DEF Crash, Typed
    <3>2. Len(logfile[l]) \in Nat
      BY <3>1
    <3> QED
      BY <1>6, <3>1, <3>2, ClosedReads DEF ReadOf
  <2>2. Replayed'
    BY DEF Crash, Replayed
  <2> QED
    BY <2>1, <2>2 DEF ReadInv
<1>10. EpochLoop'
  BY DEF Crash, EpochLoop
<1> QED
  BY <1>7, <1>8, <1>9, <1>10 DEF Inv

\* The server starts from the recovered state.
LEMMA RestartStep ==
  ASSUME Inv, Restart
  PROVE  Inv'
<1>0. Typed /\ FileInv /\ ReadInv /\ MaxEpoch \in Nat \ {0} /\ MaxCommits \in Nat
  BY RecoveryAssumption DEF Inv
<1>1. tidword' \in [Keys -> Tids]
  BY <1>0 DEF Restart, Tids, NoValue
<1>2. archive' \in [Loggers -> Archives] /\ db' \in [Keys -> Vals] /\ current_epoch' \in 0 .. MaxEpoch + 1
  BY <1>0, ClosedReads DEF Restart, Absent, Vals
<1>3. UNCHANGED <<GlobalEpoch, ThLocalEpoch, DurableEpoch, mrctid, buffer, queue, prevHash,
                  logfile, tail, pepoch, durable_epoch, records, made, crashes, clean>>
  BY DEF Restart, fileVars
<1>4. Typed'
  BY <1>0, <1>1, <1>2, <1>3 DEF Typed, Restart, Phases
<1>5. FileInv'
  BY <1>0, <1>3 DEF FileInv, ChainOf, HashOf, TailOf
<1>6. ReadInv'
  <2>1. ASSUME NEW l \in Loggers PROVE ReadOf(l)'
    <3>1. archive'[l] = ClosedArchive /\ logfile[l] \in Seq(LogSets)
      BY <1>0 DEF Restart, Typed
    <3>2. Len(logfile[l]) \in Nat
      BY <3>1
    <3> QED
      BY <1>3, <3>1, <3>2, ClosedReads DEF ReadOf
  <2>2. Replayed'
    BY <1>0, <1>3 DEF Restart, ReadInv, Replayed, Logged
  <2> QED
    BY <2>1, <2>2 DEF ReadInv
<1>7. EpochLoop'
  BY DEF Restart, EpochLoop
<1> QED
  BY <1>4, <1>5, <1>6, <1>7 DEF Inv

-----------------------------------------------------------------------------
(* execute_recovery                                                        *)

\* The steps of recovery change neither the files nor what the server will run with.
LEMMA RecoveryFrame ==
  ASSUME Inv, UNCHANGED <<runVars, fileVars, historyVars>>, phase' \in Phases,
         durable_epoch' \in 0 .. MaxEpoch, current_epoch' \in 0 .. MaxEpoch + 1,
         archive' \in [Loggers -> Archives], records' \subseteq LogRecs, db' \in [Keys -> Vals]
  PROVE  Typed' /\ FileInv'
<1>1. Typed'
  BY DEF Inv, Typed, runVars, fileVars, historyVars
<1>2. FileInv'
  BY DEF Inv, FileInv, ChainOf, HashOf, TailOf, runVars, fileVars
<1> QED
  BY <1>1, <1>2

\* What has been replayed stays in the files.
LEMMA ReplayedFrame ==
  ASSUME Replayed, UNCHANGED <<logfile, records, db>>
  PROVE  Replayed'
<1>1. (\A r \in records : Logged(r))'
  BY DEF Replayed, Logged
<1>2. ASSUME NEW k \in Keys, db'[k] # Absent PROVE LoggedValue(k, db[k])'
  <2>1. LoggedValue(k, db[k])
    BY <1>2 DEF Replayed
  <2> QED
    BY <2>1 DEF LoggedValue
<1> QED
  BY <1>1, <1>2 DEF Replayed

\* So does what has been read.
LEMMA ReadFrame ==
  ASSUME ReadInv, UNCHANGED <<logfile, archive, records, db>>
  PROVE  ReadInv'
<1>1. \A l \in Loggers : ReadOf(l)'
  BY DEF ReadInv, ReadOf
<1>2. Replayed'
  BY ReplayedFrame DEF ReadInv
<1> QED
  BY <1>1, <1>2 DEF ReadInv

\* The archives are opened; without a durable epoch there is a tail hash to be met.
LEMMA OpenFilesStep ==
  ASSUME Inv, OpenFiles
  PROVE  Inv'
<1>0. Typed /\ ReadInv /\ EpochLoop /\ phase = "open" /\ current_epoch = 0 /\ MaxEpoch \in Nat
  BY RecoveryAssumption DEF Inv, OpenFiles, EpochLoop
<1>1. ASSUME NEW l \in Loggers
      PROVE  /\ archive'[l] \in Archives /\ archive'[l].offset = 0 /\ archive'[l].buffered = <<>>
             /\ tail[l] # NoHash => ~archive'[l].matched
  <2>1. PICK a \in BOOLEAN : a = (tail[l] = NoHash)
    OBVIOUS
  <2>2. archive'[l] = [ClosedArchive EXCEPT !.matched = a, !.allRead = a]
    BY <2>1 DEF OpenFiles
  <2>3. archive'[l].matched = a
    BY <2>2 DEF ClosedArchive
  <2> QED
    BY <2>1, <2>2, <2>3, ClosedIs
<1>2. /\ UNCHANGED <<runVars, fileVars, current_epoch, records, db, historyVars>>
      /\ durable_epoch' = pepoch /\ phase' = IF EmptyEpochFile THEN "died" ELSE "read"
  BY DEF OpenFiles
<1>3. archive' \in [Loggers -> Archives]
  BY <1>1 DEF OpenFiles
<1>4. Typed' /\ FileInv'
  BY <1>0, <1>2, <1>3, RecoveryFrame DEF Typed, Phases
<1>5. logfile' = logfile /\ tail' = tail
  BY <1>2 DEF fileVars
<1>6. ReadInv'
  <2>1. ASSUME NEW l \in Loggers PROVE ReadOf(l)'
    <3>1. logfile[l] \in Seq(LogSets)
      BY <1>0 DEF Typed
    <3>2. Len(logfile[l]) \in Nat
      BY <3>1
    <3> QED
      BY <1>1, <1>5, <3>2 DEF ReadOf
  <2>2. Replayed'
    BY <1>0, <1>2, <1>5, ReplayedFrame DEF ReadInv
  <2> QED
    BY <2>1, <2>2 DEF ReadInv
<1>7. EpochLoop'
  <2>1. CASE EmptyEpochFile
    BY <1>2, <2>1 DEF EpochLoop
  <2>2. CASE ~EmptyEpochFile
    <3>1. ASSUME durable_epoch' = 0 PROVE \E l \in Loggers : ~archive'[l].matched
      <4>1. PICK l \in Loggers : tail[l] # NoHash
        BY <1>2, <2>2, <3>1 DEF EmptyEpochFile
      <4> QED
        BY <1>1, <4>1
    <3>2. current_epoch' = 0 /\ durable_epoch' \in Nat /\ phase' = "read"
      BY <1>0, <1>2, <2>2 DEF Typed
    <3> QED
      BY <3>1, <3>2 DEF EpochLoop
  <2> QED
    BY <2>1, <2>2
<1> QED
  BY <1>4, <1>6, <1>7 DEF Inv

\* A log set is read into the buffer of its archive.
LEMMA ReadLogSetStep ==
  ASSUME Inv, NEW l \in Loggers, ReadLogSet(l)
  PROVE  Inv'
<1>0. /\ Typed /\ ReadInv /\ EpochLoop /\ phase = "read" /\ MoreToRead(l)
      /\ archive[l] \in Archives /\ logfile[l] \in Seq(LogSets) /\ ReadOf(l)
  BY DEF Inv, ReadLogSet, Typed, ReadInv
<1>1. UNCHANGED <<runVars, fileVars, current_epoch, durable_epoch, records, db, historyVars>>
  BY DEF ReadLogSet
<1>2. logfile' = logfile
  BY <1>1 DEF fileVars
<1>3. CASE archive[l].matched
  <2>1. phase' = "refused" /\ archive' = archive
    BY <1>3 DEF ReadLogSet
  <2>2. Typed' /\ FileInv'
    BY <1>0, <1>1, <2>1, RecoveryFrame DEF Typed, Phases
  <2>3. ReadInv'
    BY <1>0, <1>1, <1>2, <2>1, ReadFrame
  <2>4. EpochLoop'
    BY <2>1 DEF EpochLoop
  <2> QED
    BY <2>2, <2>3, <2>4 DEF Inv
<1>4. CASE ~archive[l].matched
  <2>1. PICK n : n = archive[l].offset + 1
    OBVIOUS
  <2>2. Len(logfile[l]) \in Nat /\ archive[l].offset \in Nat /\ archive[l].buffered \in Seq(LogSets)
    BY <1>0 DEF Archives
  <2>3. n \in 1 .. Len(logfile[l])
    BY <1>0, <2>1, <2>2 DEF MoreToRead
  <2>4. PICK s \in LogSets : s = logfile[l][n]
    BY <1>0, <2>3
  <2>5. PICK q : q = Append(archive[l].buffered, s)
    OBVIOUS
  <2>6. /\ q \in Seq(LogSets) /\ Len(q) = Len(archive[l].buffered) + 1 /\ q[Len(q)] = s
        /\ \A i \in 1 .. Len(archive[l].buffered) : q[i] = archive[l].buffered[i]
        /\ Len(archive[l].buffered) \in Nat
    BY <2>2, <2>4, <2>5
  <2>7. PICK a : a = [archive[l] EXCEPT !.offset = n, !.buffered = q]
    OBVIOUS
  <2>8. /\ a \in Archives /\ a.offset = n /\ a.buffered = q /\ a.matched = archive[l].matched
    <3>1. n \in Nat
      BY <2>1, <2>2
    <3> QED
      BY <1>0, <2>6, <2>7, <3>1 DEF Archives
  <2>9. phase' = phase /\ archive' = [archive EXCEPT ![l] = a]
    BY <1>0, <1>4, <2>1, <2>4, <2>5, <2>7 DEF ReadLogSet, NextLogSet, Typed
  <2>10. /\ archive' \in [Loggers -> Archives] /\ archive'[l] = a
         /\ \A m \in Loggers : m # l => archive'[m] = archive[m]
    BY <1>0, <2>8, <2>9 DEF Typed
  <2>11. Typed' /\ FileInv'
    BY <1>0, <1>1, <2>9, <2>10, RecoveryFrame DEF Typed, Phases
  <2>12. ReadOf(l)'
    <3>1. ASSUME NEW i \in 1 .. Len(q) PROVE \E j \in 1 .. Len(logfile[l]) : q[i] = logfile[l][j]
      <4>1. CASE i \in 1 .. Len(archive[l].buffered)
        BY <1>0, <2>6, <4>1 DEF ReadOf
      <4>2. CASE i = Len(q)
        BY <2>3, <2>4, <2>6, <4>2
      <4> QED
        BY <2>6, <4>1, <4>2
    <3> QED
      BY <1>2, <2>2, <2>3, <2>8, <2>10, <3>1 DEF ReadOf
  <2>13. ReadInv'
    <3>1. ASSUME NEW m \in Loggers PROVE ReadOf(m)'
      <4>1. CASE m # l
        BY <1>0, <1>2, <2>10, <4>1 DEF ReadInv, ReadOf
      <4> QED
        BY <2>12, <4>1
    <3>2. Replayed'
      BY <1>0, <1>1, <1>2, ReplayedFrame DEF ReadInv
    <3> QED
      BY <3>1, <3>2 DEF ReadInv
  <2>14. \A m \in Loggers : archive'[m].matched = archive[m].matched
    BY <2>8, <2>10
  <2>15. EpochLoop'
    BY <1>0, <1>1, <2>9, <2>14 DEF EpochLoop
  <2> QED
    BY <2>11, <2>13, <2>15 DEF Inv
<1> QED
  BY <1>3, <1>4

\* The steps that only move on.
LEMMA ReadDoneStep ==
  ASSUME Inv, ReadDone
  PROVE  Inv'
<1>0. Typed /\ ReadInv /\ EpochLoop /\ phase = "read" /\ phase' = "epoch"
  BY DEF Inv, ReadDone
<1>1. UNCHANGED <<runVars, fileVars, recoveryVars, historyVars>>
  BY DEF ReadDone
<1>2. Typed' /\ FileInv'
  BY <1>0, <1>1, RecoveryFrame DEF Typed, Phases, recoveryVars
<1>3. ReadInv'
  BY <1>0, <1>1, ReadFrame DEF recoveryVars, fileVars
<1>4. EpochLoop'
  BY <1>0, <1>1 DEF EpochLoop, recoveryVars
<1> QED
  BY <1>2, <1>3, <1>4 DEF Inv

\* A verified set is handed over with everything that is buffered, and erased.
LEMMA VerifyLogSetStep ==
  ASSUME Inv, NEW l \in Loggers, VerifyLogSet(l)
  PROVE  Inv'
<1>0. /\ Typed /\ ReadInv /\ EpochLoop /\ phase = "epoch" /\ DueSets(l) # {}
      /\ archive[l] \in Archives /\ logfile[l] \in Seq(LogSets) /\ ReadOf(l)
  BY DEF Inv, VerifyLogSet, Typed, ReadInv
<1>1. UNCHANGED <<runVars, fileVars, current_epoch, durable_epoch, db, historyVars>>
  BY DEF VerifyLogSet
<1>2. logfile' = logfile
  BY <1>1 DEF fileVars
<1>3. archive[l].buffered \in Seq(LogSets) /\ Len(archive[l].buffered) \in Nat
  BY <1>0 DEF Archives
<1>4. ASSUME NEW i \in DueSets(l) PROVE i \in 1 .. Len(archive[l].buffered) /\ archive[l].buffered[i] \in LogSets
  BY <1>3 DEF DueSets
<1>5. current_epoch # 0 /\ durable_epoch # 0
  <2>1. PICK i \in DueSets(l) : TRUE
    BY <1>0
  <2>2. PICK s \in LogSets : s = archive[l].buffered[i]
    BY <1>4
  <2>3. SetEpoch(s) = current_epoch /\ SetEpoch(s) \in 1 .. MaxEpoch
    BY <2>2, PlainOf DEF DueSets
  <2>4. current_epoch <= durable_epoch /\ durable_epoch \in Nat
    BY <1>0 DEF EpochLoop, Typed
  <2> QED
    BY <2>3, <2>4
<1>6. ASSUME phase' = "refused", archive' = archive, records' = records PROVE Inv'
  <2>1. Typed' /\ FileInv'
    BY <1>0, <1>1, <1>6, RecoveryFrame DEF Typed, Phases
  <2>2. ReadInv'
    BY <1>0, <1>1, <1>2, <1>6, ReadFrame
  <2>3. EpochLoop'
    BY <1>6 DEF EpochLoop
  <2> QED
    BY <2>1, <2>2, <2>3 DEF Inv
<1>7. ASSUME NEW i \in DueSets(l), NEW s \in LogSets,
             archive' = [archive EXCEPT ![l].prev = Plain(s), ![l].matched = @ \/ Plain(s) = tail[l],
                                        ![l].buffered = RemoveAt(@, i)],
             records' = records \cup HandedOver(l), phase' = phase
      PROVE  Inv'
  <2>1. PICK q : q = RemoveAt(archive[l].buffered, i)
    OBVIOUS
  <2>2. /\ q \in Seq(LogSets)
        /\ \A h \in 1 .. Len(q) : \E j \in 1 .. Len(archive[l].buffered) : q[h] = archive[l].buffered[j]
    <3>1. PICK p \in Seq(LogSets) : p = archive[l].buffered
      BY <1>3
    <3>2. i \in 1 .. Len(p) /\ q = RemoveAt(p, i)
      BY <1>4, <2>1, <3>1
    <3>3. q \in Seq(LogSets) /\ \A h \in 1 .. Len(q) : \E j \in 1 .. Len(p) : q[h] = p[j]
      BY <3>2, RemoveAtElements
    <3> QED
      BY <3>1, <3>3
  <2>3. PICK b \in BOOLEAN : b = (archive[l].matched \/ Plain(s) = tail[l])
    OBVIOUS
  <2>4. PICK a : a = [archive[l] EXCEPT !.prev = Plain(s), !.matched = b, !.buffered = q]
    OBVIOUS
  <2>5. Plain(s) \in Buffers
    BY PlainOf
  <2>6. a \in Archives /\ a.buffered = q /\ a.offset = archive[l].offset
    BY <1>0, <2>2, <2>3, <2>4, <2>5 DEF Archives
  <2>7. archive' = [archive EXCEPT ![l] = a]
    BY <1>0, <1>7, <2>1, <2>3, <2>4 DEF Typed
  <2>8. /\ archive' \in [Loggers -> Archives] /\ archive'[l] = a
        /\ \A m \in Loggers : m # l => archive'[m] = archive[m]
    BY <1>0, <2>6, <2>7 DEF Typed
  <2>9. ASSUME NEW r \in HandedOver(l) PROVE r \in LogRecs /\ Logged(r)
    <3>1. PICK t \in ToSet(archive[l].buffered) : r \in ToSet(Plain(t))
      BY <2>9 DEF HandedOver
    <3>2. PICK h \in 1 .. Len(archive[l].buffered) : t = archive[l].buffered[h] /\ t \in LogSets
      BY <1>3, <3>1 DEF ToSet
    <3>3. PICK p \in Buffers : p = Plain(t)
      BY <3>2, PlainOf
    <3>4. PICK g \in 1 .. Len(p) : r = p[g]
      BY <3>1, <3>3 DEF ToSet, Buffers
    <3>5. g \in 1 .. Len(t.recs) /\ r = t.recs[g].rec /\ r \in LogRecs
      BY <3>2, <3>3, <3>4, PlainOf
    <3>6. PICK j \in 1 .. Len(logfile[l]) : t = logfile[l][j]
      BY <1>0, <3>2 DEF ReadOf
    <3>7. IsIn(r, logfile[l][j])
      BY <3>5, <3>6 DEF IsIn
    <3> QED
      BY <3>5, <3>7 DEF Logged
  <2>10. records' \subseteq LogRecs
    BY <1>0, <1>7, <2>9 DEF Typed
  <2>11. Typed' /\ FileInv'
    BY <1>0, <1>1, <1>7, <2>8, <2>10, RecoveryFrame DEF Typed, Phases
  <2>12. ReadInv'
    <3>1. ASSUME NEW m \in Loggers PROVE ReadOf(m)'
      <4>1. CASE m = l
        <5>1. ASSUME NEW h \in 1 .. Len(q) PROVE \E j \in 1 .. Len(logfile[l]) : q[h] = logfile[l][j]
          BY <1>0, <2>2 DEF ReadOf
        <5> QED
          BY <1>0, <1>2, <2>6, <2>8, <4>1, <5>1 DEF ReadOf
      <4>2. CASE m # l
        BY <1>0, <1>2, <2>8, <4>2 DEF ReadInv, ReadOf
      <4> QED
        BY <4>1, <4>2
    <3>2. Replayed'
      <4>1. \A r : Logged(r)' = Logged(r)
        BY <1>2 DEF Logged
      <4>2. \A k, x : LoggedValue(k, x)' = LoggedValue(k, x)
        BY <1>2 DEF LoggedValue
      <4> QED
        BY <1>0, <1>1, <1>7, <2>9, <4>1, <4>2 DEF ReadInv, Replayed
    <3> QED
      BY <3>1, <3>2 DEF ReadInv
  <2>13. EpochLoop'
    BY <1>0, <1>1, <1>5, <1>7 DEF EpochLoop
  <2> QED
    BY <2>11, <2>12, <2>13 DEF Inv
<1>8. PICK i : i = CHOOSE j \in DueSets(l) : \A h \in DueSets(l) : j <= h
  OBVIOUS
<1>9. i \in DueSets(l)
  <2>1. DueSets(l) \subseteq Nat
    BY <1>3 DEF DueSets
  <2>2. PICK j \in DueSets(l) : \A h \in DueSets(l) : j <= h
    BY <1>0, <2>1, LeastExists
  <2> QED
    BY <1>8, <2>2
<1>10. PICK s \in LogSets : s = archive[l].buffered[i]
  BY <1>4, <1>9
<1>11. CASE s.prev # archive[l].prev \/ ~LogLevelIntegrity(s)
  <2>1. phase' = "refused" /\ archive' = archive /\ records' = records
    BY <1>8, <1>10, <1>11 DEF VerifyLogSet
  <2> QED
    BY <1>6, <2>1
<1>12. CASE ~(s.prev # archive[l].prev \/ ~LogLevelIntegrity(s))
  <2>1. /\ archive' = [archive EXCEPT ![l].prev = Plain(s), ![l].matched = @ \/ Plain(s) = tail[l],
                                        ![l].buffered = RemoveAt(@, i)]
        /\ records' = records \cup HandedOver(l) /\ phase' = phase
    BY <1>8, <1>10, <1>12 DEF VerifyLogSet
  <2> QED
    BY <1>7, <1>9, <2>1
<1> QED
  BY <1>11, <1>12

\* A record that is replayed gives its key a value of the log, or none.
LEMMA ReplayRecordStep ==
  ASSUME Inv, NEW r \in records, ReplayRecord(r)
  PROVE  Inv'
<1>0. /\ Typed /\ ReadInv /\ EpochLoop /\ phase = "epoch" /\ r \in LogRecs /\ Logged(r)
      /\ db \in [Keys -> Vals] /\ Absent \in Vals
  <2>1. Typed /\ ReadInv /\ EpochLoop /\ phase = "epoch"
    BY DEF Inv, ReplayRecord, Verified
  <2>2. r \in LogRecs /\ db \in [Keys -> Vals]
    BY <2>1 DEF Typed
  <2>3. Logged(r)
    BY <2>1 DEF ReadInv, Replayed
  <2>4. Absent \in Vals
    BY RecoveryAssumption DEF Absent, Vals
  <2> QED
    BY <2>1, <2>2, <2>3, <2>4
<1>1. r.key \in Keys /\ r.val \in Vals /\ r.op \in Ops
  BY <1>0 DEF LogRecs
<1>2. /\ UNCHANGED <<runVars, fileVars, current_epoch, durable_epoch, archive, historyVars>>
      /\ records' = records \ {r} /\ phase' \in {"died", "epoch"}
  BY <1>0 DEF ReplayRecord
<1>3. logfile' = logfile
  BY <1>2 DEF fileVars
<1>4. \/ db' = db
      \/ db' = [db EXCEPT ![r.key] = Absent]
      \/ r.op # "DELETE" /\ db' = [db EXCEPT ![r.key] = r.val]
  <2>1. CASE r.op = "INSERT"
    BY <2>1 DEF ReplayRecord
  <2>2. CASE r.op = "WRITE"
    BY <2>2 DEF ReplayRecord
  <2>3. CASE r.op = "DELETE"
    BY <2>3 DEF ReplayRecord
  <2> QED
    BY <1>1, <2>1, <2>2, <2>3 DEF Ops
<1>5. db' \in [Keys -> Vals]
  BY <1>0, <1>1, <1>4
<1>6. Typed' /\ FileInv'
  BY <1>0, <1>2, <1>5, RecoveryFrame DEF Typed, Phases
<1>7. r.op # "DELETE" => LoggedValue(r.key, r.val)
  <2>1. PICK l \in Loggers : \E i \in 1 .. Len(logfile[l]) : IsIn(r, logfile[l][i])
    BY <1>0 DEF Logged
  <2>2. PICK i \in 1 .. Len(logfile[l]) : IsIn(r, logfile[l][i])
    BY <2>1
  <2>3. PICK j \in 1 .. Len(logfile[l][i].recs) : logfile[l][i].recs[j].rec = r
    BY <2>2 DEF IsIn
  <2> QED
    BY <2>3 DEF LoggedValue
<1>8. \A q : Logged(q)' = Logged(q)
  BY <1>3 DEF Logged
<1>9. ASSUME NEW k \in Keys, db'[k] # Absent PROVE LoggedValue(k, db'[k])
  <2>1. db[k] # Absent => LoggedValue(k, db[k])
    BY <1>0 DEF ReadInv, Replayed
  <2>2. CASE db'[k] = db[k]
    BY <1>9, <2>1, <2>2
  <2>3. CASE db'[k] # db[k]
    <3>1. k = r.key /\ db'[k] = r.val /\ r.op # "DELETE"
      BY <1>0, <1>1, <1>4, <1>9, <2>3
    <3> QED
      BY <1>7, <3>1
  <2> QED
    BY <2>2, <2>3
<1>10. ReadInv'
  <2>1. \A l \in Loggers : ReadOf(l)'
    BY <1>0, <1>2, <1>3 DEF ReadInv, ReadOf
  <2>2. \A q \in records' : Logged(q)'
    BY <1>0, <1>2, <1>8 DEF ReadInv, Replayed
  <2>3. ASSUME NEW k \in Keys, db'[k] # Absent PROVE LoggedValue(k, db[k])'
    <3>1. LoggedValue(k, db'[k])
      BY <1>9, <2>3
    <3>2. PICK x : x = db'[k]
      OBVIOUS
    <3>3. LoggedValue(k, x)'
      BY <1>3, <3>1, <3>2 DEF LoggedValue
    <3> QED
      BY <3>2, <3>3 DEF LoggedValue
  <2>4. Replayed'
    BY <2>2, <2>3 DEF Replayed
  <2> QED
    BY <2>1, <2>4 DEF ReadInv
<1>11. EpochLoop'
  BY <1>0, <1>2 DEF EpochLoop
<1> QED
  BY <1>6, <1>10, <1>11 DEF Inv

\* The loop over the epochs goes on, or ends.
LEMMA NextEpochStep ==
  ASSUME Inv, NextEpoch
  PROVE  Inv'
<1>0. /\ Typed /\ ReadInv /\ EpochLoop /\ phase = "epoch" /\ current_epoch' = current_epoch + 1
      /\ phase' = IF MoreEpochs THEN "read" ELSE "check"
      /\ UNCHANGED <<runVars, fileVars, durable_epoch, archive, records, db, historyVars>>
  BY DEF Inv, NextEpoch, Verified
<1>1. /\ current_epoch \in Nat /\ durable_epoch \in 0 .. MaxEpoch /\ current_epoch <= durable_epoch
      /\ MaxEpoch \in Nat
  BY <1>0, RecoveryAssumption DEF EpochLoop, Typed
<1>2. current_epoch' \in 0 .. MaxEpoch + 1
  BY <1>0, <1>1
<1>3. Typed' /\ FileInv'
  BY <1>0, <1>2, RecoveryFrame DEF Typed, Phases
<1>4. ReadInv'
  BY <1>0, ReadFrame DEF fileVars
<1>5. EpochLoop'
  BY <1>0, <1>1 DEF EpochLoop, MoreEpochs
<1> QED
  BY <1>3, <1>4, <1>5 DEF Inv

\* Recovery succeeds only with a durable epoch, which becomes the global one.
LEMMA CheckTailsStep ==
  ASSUME Inv, CheckTails
  PROVE  Inv'
<1>0. /\ Typed /\ FileInv /\ ReadInv /\ EpochLoop /\ phase = "check" /\ phase' \in {"recovered", "refused"}
      /\ UNCHANGED <<ThLocalEpoch, DurableEpoch, tidword, mrctid, buffer, queue, prevHash,
                     fileVars, recoveryVars, historyVars>>
  BY DEF Inv, CheckTails
<1>1. GlobalEpoch' \in 1 .. MaxEpoch
  <2>1. CASE TailsMatched
    <3>1. durable_epoch # 0
      BY <1>0, <2>1 DEF TailsMatched, EpochLoop
    <3> QED
      BY <1>0, <2>1, <3>1, RecoveryAssumption DEF CheckTails, Typed
  <2>2. CASE ~TailsMatched
    BY <1>0, <2>2 DEF CheckTails, Typed
  <2> QED
    BY <2>1, <2>2
<1>2. Typed'
  BY <1>0, <1>1 DEF Typed, Phases, fileVars, recoveryVars, historyVars
<1>3. FileInv'
  BY <1>0 DEF FileInv, ChainOf, HashOf, TailOf, fileVars
<1>4. ReadInv'
  BY <1>0, ReadFrame DEF fileVars, recoveryVars
<1>5. EpochLoop'
  BY <1>0 DEF EpochLoop
<1> QED
  BY <1>2, <1>3, <1>4, <1>5 DEF Inv

-----------------------------------------------------------------------------
(* The theorems                                                            *)

\* A new directory.
LEMMA InitInv ==
  ASSUME Init
  PROVE  Inv
<1>0. MaxEpoch \in Nat \ {0} /\ MaxCommits \in Nat /\ MaxCrashes \in Nat
  BY RecoveryAssumption
<1>1. <<>> \in Buffers /\ <<>> \in Seq(Buffers \ {<<>>}) /\ <<>> \in Seq(LogSets) /\ Len(<<>>) = 0
  BY DEF Buffers
<1>2. Typed
  <2>1. /\ tidword \in [Keys -> Tids] /\ mrctid \in [Loggers -> Tids]
        /\ ThLocalEpoch \in [Loggers -> 0 .. MaxEpoch] /\ db \in [Keys -> Vals]
    BY <1>0 DEF Init, Tids, NoValue, Vals, Absent
  <2>2. /\ buffer \in [Loggers -> Buffers] /\ queue \in [Loggers -> Seq(Buffers \ {<<>>})]
        /\ prevHash \in [Loggers -> Buffers] /\ tail \in [Loggers -> Buffers]
        /\ logfile \in [Loggers -> Seq(LogSets)]
    BY <1>1 DEF Init, PASSPHRASE, NoHash
  <2>3. archive \in [Loggers -> Archives]
    BY ClosedReads DEF Init
  <2> QED
    BY <1>0, <2>1, <2>2, <2>3 DEF Init, Typed, Phases
<1>3. FileInv
  BY <1>1 DEF Init, FileInv, ChainOf, HashOf, TailOf, NoHash, PASSPHRASE
<1>4. ReadInv
  BY <1>1, ClosedReads DEF Init, ReadInv, ReadOf, Replayed
<1>5. EpochLoop
  BY DEF Init, EpochLoop
<1> QED
  BY <1>2, <1>3, <1>4, <1>5 DEF Inv

\* What the files hold and what recovery has made of them, in every session and through
\* every crash.
THEOREM Invariance == Spec => []Inv
<1>1. Init => Inv
  BY InitInv
<1>2. Inv /\ [Next]_vars => Inv'
  <2> SUFFICES ASSUME Inv, [Next]_vars PROVE Inv'
    OBVIOUS
  <2>1. CASE UNCHANGED vars
    <3>1. UNCHANGED <<phase, runVars, fileVars, recoveryVars, historyVars>>
      BY <2>1 DEF vars
    <3>2. Typed'
      BY <3>1 DEF Inv, Typed, runVars, fileVars, recoveryVars, historyVars
    <3> QED
      BY <3>1, <3>2, QuietStep DEF runVars
  <2>2. CASE EpochAdvance
    BY <2>2, EpochAdvanceStep
  <2>3. CASE \E l \in Loggers : EpochWork(l) \/ Publish(l) \/ WriteLog(l) \/ WriteTail(l)
    BY <2>3, EpochWorkStep, PublishStep, WriteLogStep, WriteTailStep
  <2>4. CASE \E l \in Loggers, op \in Ops, k \in Keys, e \in 1 .. MaxEpoch : Commit(l, op, k, e)
    BY <2>4, CommitStep
  <2>5. CASE \E d \in 1 .. MaxEpoch : WritePepoch(d)
    BY <2>5, WritePepochStep
  <2>6. CASE Crash
    BY <2>6, CrashStep
  <2>7. CASE Restart
    BY <2>7, RestartStep
  <2>8. CASE OpenFiles
    BY <2>8, OpenFilesStep
  <2>9. CASE \E l \in Loggers : ReadLogSet(l) \/ VerifyLogSet(l)
    BY <2>9, ReadLogSetStep, VerifyLogSetStep
  <2>10. CASE ReadDone \/ NextEpoch \/ CheckTails
    BY <2>10, ReadDoneStep, NextEpochStep, CheckTailsStep
  <2>11. CASE \E r \in records : ReplayRecord(r)
    BY <2>11, ReplayRecordStep
  <2>12. CASE Stopped
    BY <2>1, <2>12 DEF Stopped
  <2> QED
    BY <2>1, <2>2, <2>3, <2>4, <2>5, <2>6, <2>7, <2>8, <2>9, <2>10, <2>11, <2>12
    DEF Next, RecoveryStep
<1> QED
  BY <1>1, <1>2, PTL DEF Spec

\* The state of the server, of the files and of recovery keeps its types; in particular
\* recovery never succeeds with epoch 0, whatever a crash left of pepoch.seal
\* (execute_recovery).
THEOREM TypeCorrect == Spec => []TypeOK
<1>1. Inv => TypeOK
  <2> SUFFICES ASSUME Inv PROVE TypeOK
    OBVIOUS
  <2>0. Typed /\ ReadInv
    BY DEF Inv
  <2>1. LogRecs \subseteq Recs
    BY RecoveryAssumption DEF LogRecs, Recs, LogTids, Tids
  <2>2. ASSUME NEW q \in Buffers PROVE ToSet(q) \subseteq Recs
    BY <2>1 DEF Buffers, ToSet
  <2>3. ASSUME NEW l \in Loggers
        PROVE  /\ ToSet(buffer[l]) \subseteq Recs
               /\ \A i \in 1 .. Len(queue[l]) : queue[l][i] # <<>> /\ ToSet(queue[l][i]) \subseteq Recs
               /\ archive[l].offset \in 0 .. Len(logfile[l])
    <3>1. ToSet(buffer[l]) \subseteq Recs
      BY <2>0, <2>2 DEF Typed
    <3>2. ASSUME NEW i \in 1 .. Len(queue[l]) PROVE queue[l][i] # <<>> /\ ToSet(queue[l][i]) \subseteq Recs
      <4>1. queue[l] \in Seq(Buffers \ {<<>>})
        BY <2>0 DEF Typed
      <4>2. queue[l][i] \in Buffers \ {<<>>}
        BY <4>1
      <4> QED
        BY <2>2, <4>2
    <3>3. archive[l] \in Archives /\ logfile[l] \in Seq(LogSets) /\ ReadOf(l)
      BY <2>0 DEF Typed, ReadInv
    <3>4. archive[l].offset \in Nat /\ Len(logfile[l]) \in Nat /\ archive[l].offset <= Len(logfile[l])
      BY <3>3 DEF Archives, ReadOf
    <3> QED
      BY <3>1, <3>2, <3>4
  <2>4. records \subseteq Recs
    BY <2>0, <2>1 DEF Typed
  <2> QED
    BY <2>0, <2>3, <2>4 DEF Typed, TypeOK
<1> QED
  BY <1>1, Invariance, PTL

\* The log files as the servers of all sessions left them: every set passes
\* verify_log_level_integrity, follows the one before it or begins a session, and the
\* tail hash is that of one of the sets.
SealedLogs ==
  \A l \in Loggers :
    /\ \A i \in 1 .. Len(logfile[l]) : LogLevelIntegrity(logfile[l][i])
    /\ ChainOf(l) /\ TailOf(l)

\* The loggers write what recovery checks, wherever a crash falls between the write of
\* a set and that of its tail hash (create_json_log, LogBuffer::write,
\* write_tail_log_hash, verify_log_level_integrity).
THEOREM LogsAreSealed == Spec => []SealedLogs
<1>1. Inv => SealedLogs
  <2> SUFFICES ASSUME Inv, NEW l \in Loggers
               PROVE  /\ \A i \in 1 .. Len(logfile[l]) : LogLevelIntegrity(logfile[l][i])
                      /\ ChainOf(l) /\ TailOf(l)
    BY DEF SealedLogs
  <2>1. logfile[l] \in Seq(LogSets)
    BY DEF Inv, Typed
  <2>2. ASSUME NEW i \in 1 .. Len(logfile[l]) PROVE LogLevelIntegrity(logfile[l][i])
    <3>1. logfile[l][i] \in LogSets
      BY <2>1
    <3> QED
      BY <3>1 DEF LogSets
  <2> QED
    BY <2>2 DEF Inv, FileInv
<1> QED
  BY <1>1, Invariance, PTL

\* Every value of the database that recovery builds is in a log file, as a value of its
\* key.
NothingInvented == \A k \in Keys : db[k] # Absent => LoggedValue(k, db[k])

\* However often sets are handed over and records replayed, recovery gives a key only
\* what was logged for it (verify_epoch_level_integrity, execute_recovery).
THEOREM RecoveryInventsNothing == Spec => []NothingInvented
<1>1. Inv => NothingInvented
  BY DEF Inv, ReadInv, Replayed, NothingInvented
<1> QED
  BY <1>1, Invariance, PTL

-----------------------------------------------------------------------------
(* Recovery rebuilds the durable state: the inductive invariant            *)

Reading == phase \in {"read", "epoch", "check", "recovered"}
EpochAt(c) == c.rec.tid[1]

\* The history has one transaction for each value, of this session or an earlier one.
HistoryTyped ==
  /\ commits \subseteq [rec : LogRecs, log : Loggers, session : 0 .. MaxCrashes]
  /\ \A c \in commits :
       /\ 1 <= c.rec.val /\ c.rec.val <= made
       /\ c.session <= crashes /\ (phase # "run" => c.session < crashes)
  /\ \A c, d \in commits : c.rec.val = d.rec.val => c = d

\* What the threads and the loop of recovery have in each phase.
ClockInv ==
  /\ phase = "run" => StartEpoch <= GlobalEpoch
  /\ phase = "run" =>
       \A l \in Loggers : \/ ThLocalEpoch[l] = 0
                          \/ StartEpoch <= ThLocalEpoch[l] /\ ThLocalEpoch[l] <= GlobalEpoch
  /\ phase # "run" =>
       \A l \in Loggers : ThLocalEpoch[l] = 0 /\ buffer[l] = <<>> /\ queue[l] = <<>> /\ prevHash[l] = PASSPHRASE
  /\ phase = "recovered" => GlobalEpoch = durable_epoch
  /\ Reading => durable_epoch = pepoch
  /\ phase \in {"check", "recovered"} => current_epoch = durable_epoch + 1
  /\ Reading /\ phase # "epoch" => records = {}
  /\ phase = "open" => records = {} /\ \A k \in Keys : db[k] = Absent

\* TIDs and epochs follow the order of the transactions: the epochs across sessions,
\* the TIDs of a key within one.
OrderInv ==
  /\ \A c, d \in commits :
       c.session < d.session => EpochAt(c) <= EpochAt(d) /\ c.rec.val < d.rec.val
  /\ \A c, d \in commits :
       c.session = d.session /\ c.rec.key = d.rec.key /\ c.rec.val < d.rec.val =>
         Less(c.rec.tid, d.rec.tid)
  /\ phase = "run" =>
       \A c \in commits :
         /\ c.session < crashes => EpochAt(c) <= StartEpoch
         /\ c.session = crashes =>
              /\ StartEpoch <= EpochAt(c)
              /\ tidword[c.rec.key] # NoValue /\ ~Less(tidword[c.rec.key], c.rec.tid)

\* A buffer has the records of one epoch.
OneEpoch(q) == \A i \in 1 .. Len(q) : q[i].tid[1] = EpochOf(q)
EpochsInv ==
  \A l \in Loggers :
    /\ OneEpoch(buffer[l])
    /\ \A i \in 1 .. Len(queue[l]) : OneEpoch(queue[l][i])
    /\ \A i \in 1 .. Len(logfile[l]) : OneEpoch(Plain(logfile[l][i]))

\* The epoch a worker has reached.
Reached(l) == IF ThLocalEpoch[l] = 0 THEN StartEpoch ELSE ThLocalEpoch[l]

\* Epochs do not go back from the file to the queue and to the buffer of its worker.
InOrder(l) ==
  /\ \A i, j \in 1 .. Len(logfile[l]) : i <= j => SetEpoch(logfile[l][i]) <= SetEpoch(logfile[l][j])
  /\ \A i \in 1 .. Len(logfile[l]), j \in 1 .. Len(queue[l]) :
       SetEpoch(logfile[l][i]) <= EpochOf(queue[l][j])
  /\ \A i, j \in 1 .. Len(queue[l]) : i <= j => EpochOf(queue[l][i]) <= EpochOf(queue[l][j])
  /\ buffer[l] # <<>> =>
       /\ \A i \in 1 .. Len(logfile[l]) : SetEpoch(logfile[l][i]) <= EpochOf(buffer[l])
       /\ \A i \in 1 .. Len(queue[l]) : EpochOf(queue[l][i]) <= EpochOf(buffer[l])

UpToNow(l) ==
  phase = "run" =>
    /\ \A i \in 1 .. Len(logfile[l]) : SetEpoch(logfile[l][i]) <= Reached(l)
    /\ \A i \in 1 .. Len(queue[l]) : EpochOf(queue[l][i]) <= Reached(l)
    /\ buffer[l] # <<>> => EpochOf(buffer[l]) <= Reached(l)

\* Nothing is logged but the transactions.
Made(r) == \E c \in commits : c.rec = r
MadeOnly(l) ==
  /\ \A i \in 1 .. Len(buffer[l]) : Made(buffer[l][i])
  /\ \A i \in 1 .. Len(queue[l]) : \A j \in 1 .. Len(queue[l][i]) : Made(queue[l][i][j])
  /\ \A i \in 1 .. Len(logfile[l]) :
       \A j \in 1 .. Len(logfile[l][i].recs) : Made(logfile[l][i].recs[j].rec)

\* The tail hash is that of the last set.
TailIsLast(l) ==
  IF logfile[l] = <<>> THEN tail[l] = NoHash ELSE tail[l] = Plain(logfile[l][Len(logfile[l])])

\* The files after crashes that were all Quiet.
FilesOf(l) == InOrder(l) /\ UpToNow(l) /\ MadeOnly(l) /\ (TailDue(l) \/ TailIsLast(l))
CleanInv ==
  clean =>
    /\ \A l \in Loggers : FilesOf(l)
    /\ phase # "run" => \A c \in commits : EpochAt(c) <= pepoch => Logged(c.rec)

\* Where the sets of a file are while recovery is at current_epoch.
Buffered(l, s) == \E i \in 1 .. Len(archive[l].buffered) : archive[l].buffered[i] = s
Taken(s) == \A j \in 1 .. Len(s.recs) : s.recs[j].rec \in records
Ahead(l) ==
  \A i \in 1 .. Len(archive[l].buffered) :
    /\ current_epoch <= SetEpoch(archive[l].buffered[i])
    /\ \E j \in 1 .. archive[l].offset : archive[l].buffered[i] = logfile[l][j]
Placed(l) ==
  \A j \in 1 .. Len(logfile[l]) :
    LET s == logfile[l][j] IN
    /\ current_epoch < SetEpoch(s) /\ j <= archive[l].offset => Buffered(l, s)
    /\ archive[l].offset < j => current_epoch <= SetEpoch(s)
    /\ phase = "epoch" /\ archive[l].offset < j => current_epoch < SetEpoch(s)
    /\ phase = "read" /\ current_epoch = SetEpoch(s) /\ j <= archive[l].offset => Buffered(l, s)
    /\ phase = "epoch" /\ current_epoch = SetEpoch(s) => Buffered(l, s) \/ Taken(s) \/ Verified
Met(l) ==
  /\ archive[l].allRead => tail[l] = NoHash
  /\ archive[l].matched => tail[l] = NoHash \/ EpochOf(tail[l]) <= durable_epoch

\* The logs end at the durable epoch.
LogsEnd ==
  \A l \in Loggers : \A i \in 1 .. Len(logfile[l]) : SetEpoch(logfile[l][i]) <= durable_epoch

PlacesInv ==
  clean =>
    /\ phase \in {"read", "epoch"} => \A l \in Loggers : Ahead(l) /\ Placed(l)
    /\ Reading => \A l \in Loggers : Met(l)
    /\ phase = "epoch" => \A r \in records : current_epoch <= r.tid[1]
    /\ phase = "recovered" => LogsEnd

\* Up to the epoch e, a key was not written in one epoch on both sides of a restart.
Comparable(e) ==
  \A c, d \in commits :
    /\ c.rec.key = d.rec.key /\ EpochAt(c) = EpochAt(d) /\ EpochAt(c) <= e
    => c.session = d.session

\* A key that is inserted was deleted by the last transaction that had it.
DeletedFrom(k, v, w) ==
  \E p \in commits : p.rec.key = k /\ p.rec.op = "DELETE" /\ v <= p.rec.val /\ p.rec.val < w
InsertInv ==
  clean =>
    /\ \A c, d \in commits :
         /\ d.rec.op = "INSERT" /\ c.rec.key = d.rec.key /\ c.rec.val < d.rec.val
         /\ Comparable(EpochAt(d))
         => DeletedFrom(d.rec.key, c.rec.val, d.rec.val)
    /\ phase = "run" /\ Comparable(StartEpoch) =>
         \A c \in commits :
           tidword[c.rec.key] = NoValue => DeletedFrom(c.rec.key, c.rec.val, made + 1)

\* The transactions that the replay is past.
Passed(c) ==
  \/ EpochAt(c) < current_epoch
  \/ EpochAt(c) = current_epoch /\ Verified /\ c.rec \notin records

\* The database has a transaction of the key that none it is past comes after.
ReplayedTo(k) ==
  \/ db[k] = Absent /\ \A p \in commits : p.rec.key = k => ~Passed(p)
  \/ \E c \in commits :
       /\ c.rec.key = k /\ EpochAt(c) <= durable_epoch /\ db[k] = Outcome(c)
       /\ \A p \in commits : p.rec.key = k /\ Passed(p) => p.rec.val <= c.rec.val

ReplayInv ==
  Reading /\ clean /\ LogsEnd /\ Comparable(durable_epoch) =>
    /\ \A k \in Keys : ReplayedTo(k)
    /\ Verified =>
         \A p \in commits, s \in records : Passed(p) => ~Less(s.tid, p.rec.tid)

DurInv ==
  /\ HistoryTyped /\ ClockInv /\ OrderInv /\ EpochsInv
  /\ CleanInv /\ PlacesInv /\ InsertInv /\ ReplayInv

-----------------------------------------------------------------------------
(* The running server                                                      *)

\* The steps that add no transaction leave the history alone.
LEMMA SameHistory ==
  ASSUME HistoryTyped, OrderInv, InsertInv, phase' = phase,
         UNCHANGED <<tidword, durable_epoch, historyVars>>
  PROVE  HistoryTyped' /\ OrderInv' /\ InsertInv'
<1>1. HistoryTyped'
  BY DEF HistoryTyped, historyVars
<1>2. OrderInv'
  BY DEF OrderInv, StartEpoch, historyVars, EpochAt
<1>3. (\A e : Comparable(e)' <=> Comparable(e)) /\ StartEpoch' = StartEpoch
  BY DEF Comparable, EpochAt, StartEpoch, historyVars
<1>4. \A k, v, w : DeletedFrom(k, v, w)' <=> DeletedFrom(k, v, w)
  BY DEF DeletedFrom, historyVars
<1>5. InsertInv'
  BY <1>3, <1>4 DEF InsertInv, EpochAt, historyVars
<1> QED
  BY <1>1, <1>2, <1>5

\* The parts of FilesOf after a step that does not touch what they are about.
LEMMA SameFiles ==
  ASSUME NEW l \in Loggers
  PROVE  /\ InOrder(l) /\ logfile'[l] = logfile[l] /\ queue'[l] = queue[l] /\ buffer'[l] = buffer[l] => InOrder(l)'
         /\ /\ MadeOnly(l) /\ logfile'[l] = logfile[l] /\ queue'[l] = queue[l] /\ buffer'[l] = buffer[l]
            /\ commits \subseteq commits'
            => MadeOnly(l)'
         /\ (TailDue(l) \/ TailIsLast(l)) /\ logfile'[l] = logfile[l] /\ tail'[l] = tail[l] /\ prevHash'[l] = prevHash[l]
            => (TailDue(l) \/ TailIsLast(l))'
         /\ /\ UpToNow(l) /\ logfile'[l] = logfile[l] /\ queue'[l] = queue[l] /\ buffer'[l] = buffer[l]
            /\ phase' = phase /\ Reached(l)' = Reached(l)
            => UpToNow(l)'
<1>1. InOrder(l) /\ logfile'[l] = logfile[l] /\ queue'[l] = queue[l] /\ buffer'[l] = buffer[l] => InOrder(l)'
  BY DEF InOrder
<1>2. ASSUME MadeOnly(l), logfile'[l] = logfile[l], queue'[l] = queue[l], buffer'[l] = buffer[l],
             commits \subseteq commits'
      PROVE  MadeOnly(l)'
  <2>1. \A r : Made(r) => Made(r)'
    BY <1>2 DEF Made
  <2> QED
    BY <1>2, <2>1 DEF MadeOnly
<1>3. (TailDue(l) \/ TailIsLast(l)) /\ logfile'[l] = logfile[l] /\ tail'[l] = tail[l] /\ prevHash'[l] = prevHash[l]
      => (TailDue(l) \/ TailIsLast(l))'
  BY DEF TailDue, TailIsLast
<1>4. /\ UpToNow(l) /\ logfile'[l] = logfile[l] /\ queue'[l] = queue[l] /\ buffer'[l] = buffer[l]
      /\ phase' = phase /\ Reached(l)' = Reached(l)
      => UpToNow(l)'
  BY DEF UpToNow
<1> QED
  BY <1>1, <1>2, <1>3, <1>4

\* siloLeaderWork.
LEMMA EpochAdvanceDur ==
  ASSUME Inv, DurInv, EpochAdvance
  PROVE  DurInv'
<1>1. HistoryTyped' /\ OrderInv' /\ InsertInv'
  BY SameHistory DEF DurInv, EpochAdvance, recoveryVars
<1>2. ClockInv'
  BY RecoveryAssumption DEF Inv, Typed, DurInv, ClockInv, EpochAdvance, recoveryVars, StartEpoch, Reading
<1>3. EpochsInv'
  BY DEF DurInv, EpochsInv, EpochAdvance, fileVars
<1>4. ASSUME NEW l \in Loggers, FilesOf(l) PROVE FilesOf(l)'
  <2>1. Reached(l)' = Reached(l)
    BY DEF EpochAdvance, Reached, StartEpoch, recoveryVars
  <2> QED
    BY <1>4, <2>1, SameFiles DEF FilesOf, EpochAdvance, fileVars, historyVars
<1>5. CleanInv'
  BY <1>4 DEF DurInv, CleanInv, EpochAdvance, historyVars
<1>6. PlacesInv' /\ ReplayInv'
  BY DEF EpochAdvance, PlacesInv, ReplayInv, Reading
<1> QED
  BY <1>1, <1>2, <1>3, <1>5, <1>6 DEF DurInv

\* The epoch of a buffer is that of its last record.
LEMMA BufferEpoch ==
  ASSUME NEW q \in Buffers, q # <<>>
  PROVE  EpochOf(q) = q[Len(q)].tid[1] /\ EpochOf(q) \in 1 .. MaxEpoch /\ Len(q) \in Nat \ {0}
<1>1. Len(q) \in Nat /\ Len(q) # 0 /\ q[Len(q)] \in LogRecs
  BY DEF Buffers
<1> QED
  BY <1>1 DEF EpochOf, Last, LogRecs, LogTids

\* The epochs that are compared are integers.
LEMMA EpochsAreInt ==
  ASSUME Typed, NEW l \in Loggers
  PROVE  /\ \A i \in 1 .. Len(logfile[l]) : logfile[l][i] \in LogSets /\ SetEpoch(logfile[l][i]) \in Int
         /\ \A i \in 1 .. Len(queue[l]) : queue[l][i] \in Buffers /\ queue[l][i] # <<>> /\ EpochOf(queue[l][i]) \in Int
         /\ buffer[l] # <<>> => EpochOf(buffer[l]) \in Int
         /\ ThLocalEpoch[l] \in Nat /\ GlobalEpoch \in Nat /\ StartEpoch \in Nat /\ Reached(l) \in Nat
         /\ Len(logfile[l]) \in Nat /\ Len(queue[l]) \in Nat
<1>1. /\ logfile[l] \in Seq(LogSets) /\ queue[l] \in Seq(Buffers \ {<<>>}) /\ buffer[l] \in Buffers
      /\ ThLocalEpoch[l] \in 0 .. MaxEpoch /\ GlobalEpoch \in 1 .. MaxEpoch /\ durable_epoch \in 0 .. MaxEpoch
  BY DEF Typed
<1>2. MaxEpoch \in Nat
  BY RecoveryAssumption
<1>3. ASSUME NEW i \in 1 .. Len(logfile[l])
      PROVE  logfile[l][i] \in LogSets /\ SetEpoch(logfile[l][i]) \in Int
  <2>1. logfile[l][i] \in LogSets
    BY <1>1, <1>3
  <2>2. SetEpoch(logfile[l][i]) \in 1 .. MaxEpoch
    BY <2>1, PlainOf
  <2> QED
    BY <1>2, <2>1, <2>2
<1>4. ASSUME NEW i \in 1 .. Len(queue[l])
      PROVE  queue[l][i] \in Buffers /\ queue[l][i] # <<>> /\ EpochOf(queue[l][i]) \in Int
  <2>1. queue[l][i] \in Buffers \ {<<>>}
    BY <1>1, <1>4
  <2>2. EpochOf(queue[l][i]) \in 1 .. MaxEpoch
    BY <2>1, BufferEpoch
  <2> QED
    BY <1>2, <2>1, <2>2
<1>5. buffer[l] # <<>> => EpochOf(buffer[l]) \in Int
  BY <1>1, <1>2, BufferEpoch
<1>6. ThLocalEpoch[l] \in Nat /\ GlobalEpoch \in Nat /\ StartEpoch \in Nat /\ Reached(l) \in Nat
  BY <1>1, <1>2 DEF StartEpoch, Reached
<1> QED
  BY <1>1, <1>3, <1>4, <1>5, <1>6

\* What a worker has written is of no later epoch than the one it goes to.
LEMMA LaterReached ==
  ASSUME Typed, NEW l \in Loggers, UpToNow(l), phase' = phase, Reached(l)' \in Int, Reached(l) <= Reached(l)',
         logfile'[l] = logfile[l], queue'[l] = queue[l], buffer'[l] = buffer[l]
  PROVE  UpToNow(l)'
<1>1. PICK a, b \in Int : a = Reached(l) /\ b = Reached(l)' /\ a <= b
  BY EpochsAreInt
<1>2. /\ \A i \in 1 .. Len(logfile[l]) : SetEpoch(logfile[l][i]) \in Int
      /\ \A i \in 1 .. Len(queue[l]) : EpochOf(queue[l][i]) \in Int
      /\ buffer[l] # <<>> => EpochOf(buffer[l]) \in Int
  BY EpochsAreInt
<1> QED
  BY <1>1, <1>2 DEF UpToNow

\* epochWork.
LEMMA EpochWorkDur ==
  ASSUME Inv, DurInv, NEW l \in Loggers, EpochWork(l)
  PROVE  DurInv'
<1>0. Typed /\ ClockInv /\ phase = "run" /\ phase' = "run" /\ GlobalEpoch \in Nat
  BY EpochsAreInt DEF Inv, DurInv, EpochWork
<1>1. HistoryTyped' /\ OrderInv' /\ InsertInv'
  BY SameHistory DEF DurInv, EpochWork, recoveryVars
<1>2. ClockInv'
  BY <1>0 DEF Typed, ClockInv, EpochWork, fileVars, recoveryVars, StartEpoch, Reading
<1>3. EpochsInv'
  BY DEF DurInv, EpochsInv, EpochWork, fileVars
<1>4. ASSUME NEW m \in Loggers, FilesOf(m) PROVE FilesOf(m)'
  <2>1. Reached(m) <= Reached(m)' /\ Reached(m)' \in Int
    BY <1>0, EpochsAreInt DEF ClockInv, EpochWork, Reached, StartEpoch, recoveryVars, Typed
  <2>2. UpToNow(m)'
    BY <1>0, <1>4, <2>1, LaterReached DEF FilesOf, EpochWork, fileVars
  <2> QED
    BY <1>4, <2>2, SameFiles DEF FilesOf, EpochWork, fileVars, historyVars
<1>5. CleanInv'
  BY <1>0, <1>4 DEF DurInv, CleanInv, EpochWork, historyVars
<1>6. PlacesInv' /\ ReplayInv'
  BY <1>0 DEF PlacesInv, ReplayInv, Reading
<1> QED
  BY <1>1, <1>2, <1>3, <1>5, <1>6 DEF DurInv

\* write_tail_log_hash: the tail hash is now that of the last set.
LEMMA WriteTailDur ==
  ASSUME Inv, DurInv, NEW l \in Loggers, WriteTail(l)
  PROVE  DurInv'
<1>0. Typed /\ FileInv /\ phase = "run" /\ phase' = "run"
  BY DEF Inv, WriteTail
<1>1. HistoryTyped' /\ OrderInv' /\ InsertInv'
  BY SameHistory DEF DurInv, WriteTail, recoveryVars, runVars
<1>2. ClockInv'
  BY <1>0 DEF DurInv, ClockInv, WriteTail, runVars, recoveryVars, StartEpoch, Reading
<1>3. EpochsInv'
  BY DEF DurInv, EpochsInv, WriteTail, runVars
<1>4. ASSUME NEW m \in Loggers, FilesOf(m) PROVE FilesOf(m)'
  <2>1. Reached(m)' = Reached(m)
    BY DEF WriteTail, Reached, StartEpoch, recoveryVars, runVars
  <2>2. (TailDue(m) \/ TailIsLast(m))'
    <3>1. CASE m = l
      <4>1. HashOf(l) /\ prevHash[l] # PASSPHRASE /\ tail'[l] = prevHash[l] /\ logfile' = logfile
        BY <1>0 DEF FileInv, WriteTail, TailDue, Typed
      <4>2. logfile[l] # <<>> /\ tail'[l] = Plain(logfile[l][Len(logfile[l])])
        BY <4>1 DEF HashOf
      <4> QED
        BY <3>1, <4>1, <4>2 DEF TailIsLast
    <3>2. CASE m # l
      BY <1>0, <1>4, <3>2, SameFiles DEF FilesOf, WriteTail, runVars, Typed
    <3> QED
      BY <3>1, <3>2
  <2> QED
    BY <1>4, <2>1, <2>2, SameFiles DEF FilesOf, WriteTail, runVars, historyVars
<1>5. CleanInv'
  BY <1>0, <1>4 DEF DurInv, CleanInv, WriteTail, historyVars
<1>6. PlacesInv' /\ ReplayInv'
  BY <1>0 DEF PlacesInv, ReplayInv, Reading
<1> QED
  BY <1>1, <1>2, <1>3, <1>5, <1>6 DEF DurInv

\* check_durable.
LEMMA WritePepochDur ==
  ASSUME Inv, DurInv, NEW d \in 1 .. MaxEpoch, WritePepoch(d)
  PROVE  DurInv'
<1>0. phase = "run" /\ phase' = "run"
  BY DEF WritePepoch
<1>1. HistoryTyped' /\ OrderInv' /\ InsertInv'
  BY SameHistory DEF DurInv, WritePepoch, recoveryVars
<1>2. ClockInv'
  BY <1>0 DEF DurInv, ClockInv, WritePepoch, recoveryVars, StartEpoch, Reading
<1>3. EpochsInv'
  BY DEF DurInv, EpochsInv, WritePepoch
<1>4. ASSUME NEW m \in Loggers, FilesOf(m) PROVE FilesOf(m)'
  <2>1. Reached(m)' = Reached(m)
    BY DEF WritePepoch, Reached, StartEpoch, recoveryVars
  <2> QED
    BY <1>4, <2>1, SameFiles DEF FilesOf, WritePepoch, historyVars
<1>5. CleanInv'
  BY <1>0, <1>4 DEF DurInv, CleanInv, WritePepoch, historyVars
<1>6. PlacesInv' /\ ReplayInv'
  BY <1>0 DEF PlacesInv, ReplayInv, Reading
<1> QED
  BY <1>1, <1>2, <1>3, <1>5, <1>6 DEF DurInv

\* LogBufferPool::publish: the buffer goes to the end of the queue.
LEMMA PublishDur ==
  ASSUME Inv, DurInv, NEW l \in Loggers, Publish(l)
  PROVE  DurInv'
<1>0. Typed /\ phase = "run" /\ phase' = "run" /\ EpochsInv
  BY DEF Inv, DurInv, Publish
<1>a. PICK q, b, p : q = queue[l] /\ b = buffer[l] /\ p = queue'[l]
  OBVIOUS
<1>b. /\ q \in Seq(Buffers \ {<<>>}) /\ b \in Buffers /\ b # <<>> /\ Len(q) \in Nat
      /\ p = Append(q, b) /\ buffer'[l] = <<>>
      /\ \A m \in Loggers : m # l => queue'[m] = queue[m] /\ buffer'[m] = buffer[m]
  BY <1>0, <1>a DEF Typed, Publish
<1>c. Len(p) = Len(q) + 1 /\ p[Len(q) + 1] = b /\ \A i \in 1 .. Len(q) : p[i] = q[i]
  BY <1>b
<1>1. HistoryTyped' /\ OrderInv' /\ InsertInv'
  BY SameHistory DEF DurInv, Publish, recoveryVars
<1>2. ClockInv'
  BY <1>0 DEF DurInv, ClockInv, Publish, fileVars, recoveryVars, StartEpoch, Reading
<1>3. ASSUME NEW m \in Loggers
      PROVE  /\ OneEpoch(buffer'[m])
             /\ \A i \in 1 .. Len(queue'[m]) : OneEpoch(queue'[m][i])
             /\ \A i \in 1 .. Len(logfile'[m]) : OneEpoch(Plain(logfile'[m][i]))
  <2>1. \A i \in 1 .. Len(logfile'[m]) : OneEpoch(Plain(logfile'[m][i]))
    BY <1>0 DEF EpochsInv, Publish, fileVars
  <2>2. CASE m # l
    BY <1>0, <1>b, <2>1, <2>2 DEF EpochsInv
  <2>3. CASE m = l
    <3>1. OneEpoch(b) /\ \A i \in 1 .. Len(q) : OneEpoch(q[i])
      BY <1>0, <1>a DEF EpochsInv
    <3>2. OneEpoch(buffer'[l])
      BY <1>b DEF OneEpoch
    <3>3. \A i \in 1 .. Len(p) : OneEpoch(p[i])
      BY <1>b, <1>c, <3>1
    <3> QED
      BY <1>a, <2>1, <2>3, <3>2, <3>3
  <2> QED
    BY <2>2, <2>3
<1>4. ASSUME NEW m \in Loggers, FilesOf(m) PROVE FilesOf(m)'
  <2>1. Reached(m)' = Reached(m)
    BY DEF Publish, Reached, StartEpoch, recoveryVars
  <2>2. (TailDue(m) \/ TailIsLast(m))'
    BY <1>4, SameFiles DEF FilesOf, Publish, fileVars
  <2>3. CASE m # l
    BY <1>0, <1>4, <1>b, <2>1, <2>2, <2>3, SameFiles DEF FilesOf, Publish, fileVars, historyVars
  <2>4. CASE m = l
    <3>0. logfile' = logfile /\ commits' = commits /\ InOrder(l) /\ UpToNow(l) /\ MadeOnly(l)
      BY <1>4, <2>4 DEF Publish, fileVars, historyVars, FilesOf
    <3>1. InOrder(l)'
      <4>1. \A i \in 1 .. Len(logfile[l]), j \in 1 .. Len(p) : SetEpoch(logfile[l][i]) <= EpochOf(p[j])
        <5>1. /\ \A i \in 1 .. Len(logfile[l]), j \in 1 .. Len(q) : SetEpoch(logfile[l][i]) <= EpochOf(q[j])
              /\ \A i \in 1 .. Len(logfile[l]) : SetEpoch(logfile[l][i]) <= EpochOf(b)
          BY <1>a, <1>b, <3>0 DEF InOrder
        <5>2. \A j \in 1 .. Len(p) : (j \in 1 .. Len(q) /\ p[j] = q[j]) \/ p[j] = b
          BY <1>b, <1>c
        <5> QED
          BY <5>1, <5>2
      <4>2. \A i, j \in 1 .. Len(p) : i <= j => EpochOf(p[i]) <= EpochOf(p[j])
        <5>1. EpochOf(b) \in Int
          BY <1>b, BufferEpoch
        <5> QED
          BY <1>a, <1>b, <1>c, <3>0, <5>1 DEF InOrder
      <4> QED
        BY <1>a, <1>b, <3>0, <4>1, <4>2 DEF InOrder
    <3>2. UpToNow(l)'
      <4>1. \A i \in 1 .. Len(p) : EpochOf(p[i]) <= Reached(l)
        BY <1>0, <1>a, <1>b, <1>c, <3>0 DEF UpToNow
      <4> QED
        BY <1>0, <1>a, <1>b, <2>1, <2>4, <3>0, <4>1 DEF UpToNow
    <3>3. MadeOnly(l)'
      <4>1. \A r : Made(r)' <=> Made(r)
        BY <3>0 DEF Made
      <4>2. \A i \in 1 .. Len(p) : \A j \in 1 .. Len(p[i]) : Made(p[i][j])
        <5>1. /\ \A i \in 1 .. Len(q) : \A j \in 1 .. Len(q[i]) : Made(q[i][j])
              /\ \A j \in 1 .. Len(b) : Made(b[j])
          BY <1>a, <3>0 DEF MadeOnly
        <5>2. \A i \in 1 .. Len(p) : (i \in 1 .. Len(q) /\ p[i] = q[i]) \/ p[i] = b
          BY <1>b, <1>c
        <5> QED
          BY <5>1, <5>2
      <4> QED
        BY <1>a, <1>b, <3>0, <4>1, <4>2 DEF MadeOnly
    <3> QED
      BY <2>2, <2>4, <3>1, <3>2, <3>3 DEF FilesOf
  <2> QED
    BY <2>3, <2>4
<1>5. CleanInv'
  BY <1>0, <1>4 DEF DurInv, CleanInv, Publish, historyVars
<1>6. PlacesInv' /\ ReplayInv'
  BY <1>0 DEF PlacesInv, ReplayInv, Reading
<1> QED
  BY <1>1, <1>2, <1>3, <1>5, <1>6 DEF DurInv, EpochsInv

\* What LogBuffer::write appends.
LEMMA WrittenSet ==
  ASSUME Inv, NEW l \in Loggers, WriteLog(l)
  PROVE  \E s \in LogSets : /\ s.prev = prevHash[l] /\ Plain(s) = Head(queue[l])
                            /\ logfile' = [logfile EXCEPT ![l] = Append(@, s)]
<1>1. queue[l] \in Seq(Buffers \ {<<>>}) /\ queue[l] # <<>> /\ prevHash[l] \in Buffers
  BY DEF Inv, Typed, WriteLog
<1>2. PICK q : q = Head(queue[l])
  OBVIOUS
<1>3. q \in Buffers /\ q # <<>>
  BY <1>1, <1>2
<1>4. PICK s : s = [prev |-> prevHash[l], recs |-> Chained(q)]
  OBVIOUS
<1>5. s \in LogSets /\ s.prev = prevHash[l] /\ Plain(s) = q
  BY <1>1, <1>3, <1>4, ChainedVerifies
<1> QED
  BY <1>2, <1>4, <1>5 DEF WriteLog

\* LogBuffer::write: the head of the queue goes to the end of the file.
LEMMA WriteLogDur ==
  ASSUME Inv, DurInv, NEW l \in Loggers, WriteLog(l)
  PROVE  DurInv'
<1>0. Typed /\ phase = "run" /\ phase' = "run" /\ EpochsInv
  BY DEF Inv, DurInv, WriteLog
<1>a. PICK q, f, p, g : q = queue[l] /\ f = logfile[l] /\ p = queue'[l] /\ g = logfile'[l]
  OBVIOUS
<1>s. PICK s \in LogSets : /\ s.prev = prevHash[l] /\ Plain(s) = Head(queue[l])
                           /\ logfile' = [logfile EXCEPT ![l] = Append(@, s)]
  BY WrittenSet
<1>b. /\ q \in Seq(Buffers \ {<<>>}) /\ q # <<>> /\ p = Tail(q) /\ Len(q) \in Nat \ {0}
      /\ f \in Seq(LogSets) /\ g = Append(f, s) /\ Len(f) \in Nat
      /\ \A m \in Loggers : m # l => queue'[m] = queue[m] /\ logfile'[m] = logfile[m] /\ prevHash'[m] = prevHash[m]
      /\ prevHash'[l] = Head(q) /\ tail' = tail /\ buffer' = buffer /\ commits' = commits
  BY <1>0, <1>a, <1>s DEF Typed, WriteLog, historyVars
<1>c. /\ Len(g) = Len(f) + 1 /\ g[Len(f) + 1] = s /\ \A i \in 1 .. Len(f) : g[i] = f[i]
      /\ Len(p) = Len(q) - 1 /\ \A i \in 1 .. Len(p) : p[i] = q[i + 1]
      /\ Head(q) = q[1]
  BY <1>b
<1>d. SetEpoch(s) = EpochOf(q[1]) /\ Plain(s) = q[1] /\ SetEpoch(s) \in Int
  BY <1>a, <1>s, <1>c, PlainOf DEF SetEpoch
<1>1. HistoryTyped' /\ OrderInv' /\ InsertInv'
  BY SameHistory DEF DurInv, WriteLog, recoveryVars
<1>2. ClockInv'
  BY <1>0 DEF DurInv, ClockInv, WriteLog, fileVars, recoveryVars, StartEpoch, Reading
<1>3. ASSUME NEW m \in Loggers
      PROVE  /\ OneEpoch(buffer'[m])
             /\ \A i \in 1 .. Len(queue'[m]) : OneEpoch(queue'[m][i])
             /\ \A i \in 1 .. Len(logfile'[m]) : OneEpoch(Plain(logfile'[m][i]))
  <2>1. CASE m # l
    BY <1>0, <1>b, <2>1 DEF EpochsInv
  <2>2. CASE m = l
    <3>1. OneEpoch(q[1]) /\ \A i \in 1 .. Len(p) : OneEpoch(p[i])
      BY <1>0, <1>a, <1>b, <1>c DEF EpochsInv
    <3>2. \A i \in 1 .. Len(g) : OneEpoch(Plain(g[i]))
      BY <1>0, <1>a, <1>b, <1>c, <1>d, <3>1 DEF EpochsInv
    <3> QED
      BY <1>0, <1>a, <1>b, <2>2, <3>1, <3>2 DEF EpochsInv
  <2> QED
    BY <2>1, <2>2
<1>4. ASSUME NEW m \in Loggers, FilesOf(m) PROVE FilesOf(m)'
  <2>1. Reached(m)' = Reached(m)
    BY DEF WriteLog, Reached, StartEpoch, recoveryVars
  <2>3. CASE m # l
    BY <1>0, <1>4, <1>b, <2>1, <2>3, SameFiles DEF FilesOf
  <2>4. CASE m = l
    <3>0. InOrder(l) /\ UpToNow(l) /\ MadeOnly(l)
      BY <1>4, <2>4 DEF FilesOf
    <3>1. InOrder(l)'
      <4>0. 1 \in 1 .. Len(q) /\ \A i \in 1 .. Len(p) : i + 1 \in 1 .. Len(q) /\ 1 <= i + 1
        BY <1>b, <1>c
      <4>1. \A i, j \in 1 .. Len(g) : i <= j => SetEpoch(g[i]) <= SetEpoch(g[j])
        <5>1. \A i \in 1 .. Len(f) : SetEpoch(f[i]) <= EpochOf(q[1])
          BY <1>a, <3>0, <4>0 DEF InOrder
        <5>2. \A i, j \in 1 .. Len(f) : i <= j => SetEpoch(f[i]) <= SetEpoch(f[j])
          BY <1>a, <3>0 DEF InOrder
        <5> QED
          BY <1>b, <1>c, <1>d, <5>1, <5>2
      <4>2. \A i \in 1 .. Len(g), j \in 1 .. Len(p) : SetEpoch(g[i]) <= EpochOf(p[j])
        <5>1. \A j \in 1 .. Len(p) : EpochOf(q[1]) <= EpochOf(p[j])
          BY <1>a, <1>c, <3>0, <4>0 DEF InOrder
        <5>2. \A i \in 1 .. Len(f), j \in 1 .. Len(p) : SetEpoch(f[i]) <= EpochOf(p[j])
          BY <1>a, <1>c, <3>0, <4>0 DEF InOrder
        <5> QED
          BY <1>b, <1>c, <1>d, <5>1, <5>2
      <4>3. \A i, j \in 1 .. Len(p) : i <= j => EpochOf(p[i]) <= EpochOf(p[j])
        <5>1. \A i, j \in 1 .. Len(q) : i <= j => EpochOf(q[i]) <= EpochOf(q[j])
          BY <1>a, <3>0 DEF InOrder
        <5> QED
          BY <1>b, <1>c, <4>0, <5>1
      <4>4. ASSUME buffer[l] # <<>>
            PROVE  /\ \A i \in 1 .. Len(g) : SetEpoch(g[i]) <= EpochOf(buffer[l])
                   /\ \A i \in 1 .. Len(p) : EpochOf(p[i]) <= EpochOf(buffer[l])
        <5>1. /\ \A i \in 1 .. Len(f) : SetEpoch(f[i]) <= EpochOf(buffer[l])
              /\ \A i \in 1 .. Len(q) : EpochOf(q[i]) <= EpochOf(buffer[l])
          BY <1>a, <3>0, <4>4 DEF InOrder
        <5> QED
          BY <1>b, <1>c, <1>d, <4>0, <5>1
      <4> QED
        BY <1>a, <1>b, <4>1, <4>2, <4>3, <4>4 DEF InOrder
    <3>2. UpToNow(l)'
      <4>1. /\ \A i \in 1 .. Len(f) : SetEpoch(f[i]) <= Reached(l)
            /\ \A i \in 1 .. Len(q) : EpochOf(q[i]) <= Reached(l)
            /\ buffer[l] # <<>> => EpochOf(buffer[l]) <= Reached(l)
        BY <1>0, <1>a, <3>0 DEF UpToNow
      <4>2. /\ \A i \in 1 .. Len(g) : SetEpoch(g[i]) <= Reached(l)
            /\ \A i \in 1 .. Len(p) : EpochOf(p[i]) <= Reached(l)
        BY <1>b, <1>c, <1>d, <4>1
      <4> QED
        BY <1>0, <1>a, <1>b, <2>1, <2>4, <4>1, <4>2 DEF UpToNow
    <3>3. MadeOnly(l)'
      <4>1. \A r : Made(r)' <=> Made(r)
        BY <1>b DEF Made
      <4>2. /\ \A i \in 1 .. Len(q) : \A j \in 1 .. Len(q[i]) : Made(q[i][j])
            /\ \A i \in 1 .. Len(f) : \A j \in 1 .. Len(f[i].recs) : Made(f[i].recs[j].rec)
            /\ \A i \in 1 .. Len(buffer[l]) : Made(buffer[l][i])
        BY <1>a, <3>0 DEF MadeOnly
      <4>3. \A i \in 1 .. Len(p) : \A j \in 1 .. Len(p[i]) : Made(p[i][j])
        BY <1>b, <1>c, <4>2
      <4>4. \A j \in 1 .. Len(s.recs) : Made(s.recs[j].rec)
        <5>1. Len(s.recs) = Len(q[1]) /\ \A j \in 1 .. Len(s.recs) : s.recs[j].rec = q[1][j]
          BY <1>d, PlainOf
        <5> QED
          BY <1>b, <4>2, <5>1
      <4>5. \A i \in 1 .. Len(g) : \A j \in 1 .. Len(g[i].recs) : Made(g[i].recs[j].rec)
        BY <1>b, <1>c, <4>2, <4>4
      <4> QED
        BY <1>a, <1>b, <4>1, <4>2, <4>3, <4>5 DEF MadeOnly
    <3>4. (TailDue(l) \/ TailIsLast(l))'
      <4>1. prevHash'[l] = Plain(g[Len(g)]) /\ prevHash'[l] # <<>> /\ g # <<>>
        BY <1>b, <1>c, <1>d, <1>s, PlainOf
      <4> QED
        BY <1>a, <1>b, <4>1 DEF TailDue, TailIsLast, PASSPHRASE
    <3> QED
      BY <2>4, <3>1, <3>2, <3>3, <3>4 DEF FilesOf
  <2> QED
    BY <2>3, <2>4
<1>5. CleanInv'
  BY <1>0, <1>4 DEF DurInv, CleanInv, WriteLog, historyVars
<1>6. PlacesInv' /\ ReplayInv'
  BY <1>0 DEF PlacesInv, ReplayInv, Reading
<1> QED
  BY <1>1, <1>2, <1>3, <1>5, <1>6 DEF DurInv, EpochsInv

-----------------------------------------------------------------------------
(* A transaction commits                                                   *)

\* TIDs are compared by epoch and number.
LEMMA LessChain ==
  ASSUME NEW a \in Int \X Nat, NEW b \in Int \X Nat, NEW c \in Int \X Nat
  PROVE  /\ ~Less(b, a) /\ Less(b, c) => Less(a, c)
         /\ ~Less(a, a)
         /\ Less(a, b) => ~Less(b, a) /\ a[1] <= b[1]
         /\ a[1] < b[1] => Less(a, b)
BY DEF Less

\* The TID that writePhase chooses is none less than the three.
LEMMA MaxTidIsMost ==
  ASSUME NEW a \in Int \X Nat, NEW b \in Int \X Nat, NEW c \in Int \X Nat
  PROVE  ~Less(MaxTid({a, b, c}), a)
<1>1. \E t \in {a, b, c} : \A s \in {a, b, c} : ~Less(t, s)
  BY DEF Less
<1> QED
  BY <1>1 DEF MaxTid

\* The record of a transaction: its TID exceeds that of the value it overwrites.
LEMMA CommitMakes ==
  ASSUME Inv, NEW l \in Loggers, NEW op \in Ops, NEW k \in Keys, NEW e \in 1 .. MaxEpoch,
         Commit(l, op, k, e)
  PROVE  \E r \in LogRecs :
           /\ r.op = op /\ r.key = k /\ r.val = made + 1 /\ r.tid[1] = e
           /\ tidword[k] # NoValue => Less(tidword[k], r.tid)
           /\ tidword' = [tidword EXCEPT ![k] = r.tid] /\ buffer' = [buffer EXCEPT ![l] = Append(@, r)]
           /\ commits' = commits \cup {[rec |-> r, log |-> l, session |-> crashes]}
<1>0. Typed /\ MaxEpoch \in Nat /\ MaxCommits \in Nat
  BY RecoveryAssumption DEF Inv
<1>1. PICK a : a = IF op = "INSERT" THEN <<0, 0>> ELSE tidword[k]
  OBVIOUS
<1>2. a \in Int \X Nat /\ mrctid[l] \in Int \X Nat
  BY <1>0, <1>1 DEF Typed, Tids
<1>3. PICK b : b = <<a[1], a[2] + 1>>
  OBVIOUS
<1>4. PICK c : c = <<mrctid[l][1], mrctid[l][2] + 1>>
  OBVIOUS
<1>5. PICK d : d = <<e, 0>>
  OBVIOUS
<1>6. b \in Int \X Nat /\ c \in Int \X Nat /\ d \in Int \X Nat
  BY <1>0, <1>2, <1>3, <1>4, <1>5
<1>7. PICK t : t = MaxTid({b, c, d})
  OBVIOUS
<1>8. t \in Int \X Nat /\ ~Less(t, b)
  BY <1>6, <1>7, MaxTidIsOne, MaxTidIsMost
<1>9. PICK r : r = [tid |-> t, op |-> op, key |-> k, val |-> made + 1]
  OBVIOUS
<1>10. /\ t[1] = e /\ made < MaxCommits /\ tidword' = [tidword EXCEPT ![k] = t]
       /\ buffer' = [buffer EXCEPT ![l] = Append(@, r)]
       /\ commits' = commits \cup {[rec |-> r, log |-> l, session |-> crashes]}
       /\ (op = "INSERT") = (tidword[k] = NoValue)
  BY <1>1, <1>3, <1>4, <1>5, <1>7, <1>9 DEF Commit, Possible
<1>11. r \in LogRecs
  <2>1. t \in LogTids
    BY <1>0, <1>8, <1>10 DEF LogTids
  <2>2. made + 1 \in Vals
    BY <1>0, <1>10 DEF Typed, Vals
  <2> QED
    BY <1>9, <2>1, <2>2 DEF LogRecs
<1>12. tidword[k] # NoValue => Less(tidword[k], t)
  <2>1. Less(a, b)
    BY <1>2, <1>3 DEF Less
  <2>2. Less(a, t)
    BY <1>2, <1>6, <1>8, <2>1 DEF Less
  <2> QED
    BY <1>1, <1>10, <2>2
<1>13. r.op = op /\ r.key = k /\ r.val = made + 1 /\ r.tid = t
  BY <1>9
<1> QED
  BY <1>10, <1>11, <1>12, <1>13

\* The history after a transaction.
LEMMA CommitHistory ==
  ASSUME Inv, DurInv, NEW l \in Loggers, NEW op \in Ops, NEW k \in Keys, NEW e \in 1 .. MaxEpoch,
         Commit(l, op, k, e)
  PROVE  HistoryTyped' /\ OrderInv' /\ InsertInv'
<1>0. /\ Typed /\ HistoryTyped /\ OrderInv /\ InsertInv /\ ClockInv /\ MaxEpoch \in Nat
      /\ phase = "run" /\ phase' = "run" /\ made' = made + 1 /\ made \in Nat /\ crashes' = crashes
      /\ crashes \in 0 .. MaxCrashes /\ clean' = clean /\ durable_epoch' = durable_epoch
      /\ e \in {ThLocalEpoch[l], GlobalEpoch} \ {0} /\ (op = "INSERT") = (tidword[k] = NoValue)
  BY RecoveryAssumption DEF Inv, DurInv, Commit, Typed, recoveryVars, Possible
<1>r. PICK r \in LogRecs :
         /\ r.op = op /\ r.key = k /\ r.val = made + 1 /\ r.tid[1] = e
         /\ tidword[k] # NoValue => Less(tidword[k], r.tid)
         /\ tidword' = [tidword EXCEPT ![k] = r.tid] /\ buffer' = [buffer EXCEPT ![l] = Append(@, r)]
         /\ commits' = commits \cup {[rec |-> r, log |-> l, session |-> crashes]}
  BY CommitMakes
<1>n. PICK n : n = [rec |-> r, log |-> l, session |-> crashes]
  OBVIOUS
<1>a. /\ commits' = commits \cup {n} /\ n.rec = r /\ n.log = l /\ n.session = crashes
      /\ n \in [rec : LogRecs, log : Loggers, session : 0 .. MaxCrashes]
      /\ r.tid \in Int \X Nat
  BY <1>0, <1>r, <1>n DEF LogRecs, LogTids
<1>b. ASSUME NEW c \in commits
      PROVE  /\ c.rec.tid \in Int \X Nat /\ c.rec.val \in Int /\ c.session \in Int /\ c.session <= crashes
             /\ c.rec.val <= made /\ 1 <= c.rec.val /\ c.rec.key \in Keys /\ EpochAt(c) \in Int
             /\ c.rec.val # r.val /\ c.rec.val < r.val
  BY <1>0, <1>r DEF HistoryTyped, LogRecs, LogTids, Vals, EpochAt
<1>c. StartEpoch <= e /\ StartEpoch' = StartEpoch /\ StartEpoch \in Int /\ EpochAt(n) = e
  BY <1>0, <1>r, <1>a, EpochsAreInt DEF ClockInv, StartEpoch, EpochAt
<1>1. HistoryTyped'
  <2>1. commits' \subseteq [rec : LogRecs, log : Loggers, session : 0 .. MaxCrashes]
    BY <1>0, <1>a DEF HistoryTyped
  <2>2. ASSUME NEW c \in commits'
        PROVE  1 <= c.rec.val /\ c.rec.val <= made' /\ c.session <= crashes'
    BY <1>0, <1>a, <1>b, <1>r
  <2>3. ASSUME NEW c \in commits', NEW d \in commits', c.rec.val = d.rec.val PROVE c = d
    BY <1>0, <1>a, <1>b, <1>r, <2>3 DEF HistoryTyped
  <2> QED
    BY <1>0, <2>1, <2>2, <2>3 DEF HistoryTyped
<1>2. OrderInv'
  <2>1. ASSUME NEW c \in commits', NEW d \in commits', c.session < d.session
        PROVE  EpochAt(c) <= EpochAt(d) /\ c.rec.val < d.rec.val
    <3>1. CASE c \in commits /\ d \in commits
      BY <1>0, <2>1, <3>1 DEF OrderInv
    <3>2. CASE c \in commits /\ d = n
      <4>1. c.session < crashes
        BY <1>a, <2>1, <3>2
      <4>2. EpochAt(c) <= StartEpoch
        BY <1>0, <3>2, <4>1 DEF OrderInv
      <4> QED
        BY <1>a, <1>b, <1>c, <3>2, <4>2
    <3>3. CASE c = n
      BY <1>0, <1>a, <1>b, <2>1, <3>3
    <3> QED
      BY <1>a, <3>1, <3>2, <3>3
  <2>2. ASSUME NEW c \in commits', NEW d \in commits', c.session = d.session, c.rec.key = d.rec.key,
               c.rec.val < d.rec.val
        PROVE  Less(c.rec.tid, d.rec.tid)
    <3>1. CASE c \in commits /\ d \in commits
      BY <1>0, <2>2, <3>1 DEF OrderInv
    <3>2. CASE c \in commits /\ d = n
      <4>1. c.session = crashes /\ c.rec.key = k
        BY <1>a, <1>r, <2>2, <3>2
      <4>2. tidword[k] # NoValue /\ ~Less(tidword[k], c.rec.tid)
        BY <1>0, <3>2, <4>1 DEF OrderInv
      <4>3. Less(tidword[k], r.tid) /\ tidword[k] \in Int \X Nat
        BY <1>0, <1>r, <4>2 DEF Typed, Tids
      <4> QED
        BY <1>a, <1>b, <3>2, <4>2, <4>3, LessChain
    <3>3. CASE c = n
      BY <1>0, <1>a, <1>b, <1>r, <2>2, <3>3
    <3> QED
      BY <1>a, <3>1, <3>2, <3>3
  <2>3. ASSUME NEW c \in commits'
        PROVE  /\ c.session < crashes => EpochAt(c) <= StartEpoch
               /\ c.session = crashes =>
                    /\ StartEpoch <= EpochAt(c)
                    /\ tidword'[c.rec.key] # NoValue /\ ~Less(tidword'[c.rec.key], c.rec.tid)
    <3>0. r.tid # NoValue /\ tidword'[k] = r.tid /\ \A m \in Keys : m # k => tidword'[m] = tidword[m]
      BY <1>0, <1>r DEF NoValue, Typed
    <3>1. CASE c = n
      BY <1>0, <1>a, <1>c, <1>r, <3>0, <3>1, LessChain
    <3>2. CASE c \in commits /\ c.rec.key # k
      BY <1>0, <1>b, <3>0, <3>2 DEF OrderInv
    <3>3. CASE c \in commits /\ c.rec.key = k
      <4>1. /\ c.session < crashes => EpochAt(c) <= StartEpoch
            /\ c.session = crashes =>
                 StartEpoch <= EpochAt(c) /\ tidword[k] # NoValue /\ ~Less(tidword[k], c.rec.tid)
        BY <1>0, <3>3 DEF OrderInv
      <4>2. tidword[k] \in Int \X Nat
        BY <1>0 DEF Typed, Tids
      <4>3. c.session = crashes => ~Less(r.tid, c.rec.tid)
        BY <1>a, <1>b, <1>r, <3>3, <4>1, <4>2 DEF Less
      <4> QED
        BY <3>0, <3>3, <4>1, <4>3
    <3> QED
      BY <1>a, <3>1, <3>2, <3>3
  <2> QED
    BY <1>0, <1>c, <2>1, <2>2, <2>3 DEF OrderInv, EpochAt
<1>3. InsertInv'
  <2>0. ASSUME NEW x, Comparable(x)' PROVE Comparable(x)
    BY <1>a, <2>0 DEF Comparable, EpochAt
  <2>1. \A m, v, w : DeletedFrom(m, v, w) => DeletedFrom(m, v, w)'
    BY <1>a DEF DeletedFrom
  <2>2. ASSUME clean, NEW c \in commits', NEW d \in commits', d.rec.op = "INSERT", c.rec.key = d.rec.key,
               c.rec.val < d.rec.val, Comparable(EpochAt(d))'
        PROVE  DeletedFrom(d.rec.key, c.rec.val, d.rec.val)'
    <3>1. CASE c \in commits /\ d \in commits
      <4>1. Comparable(EpochAt(d))
        BY <2>0, <2>2 DEF EpochAt
      <4> QED
        BY <1>0, <2>1, <2>2, <3>1, <4>1 DEF InsertInv
    <3>2. CASE c \in commits /\ d = n
      <4>1. op = "INSERT" /\ tidword[k] = NoValue /\ c.rec.key = k /\ d.rec.key = k /\ d.rec.val = made + 1
        BY <1>0, <1>a, <1>r, <2>2, <3>2
      <4>2. Comparable(e)
        BY <1>c, <2>0, <2>2, <3>2 DEF EpochAt
      <4>3. Comparable(StartEpoch)
        BY <1>0, <1>b, <1>c, <4>2 DEF Comparable
      <4>4. DeletedFrom(k, c.rec.val, made + 1)
        BY <1>0, <2>2, <3>2, <4>1, <4>3 DEF InsertInv
      <4> QED
        BY <2>1, <4>1, <4>4
    <3>3. CASE c = n
      BY <1>0, <1>a, <1>b, <1>r, <2>2, <3>3
    <3> QED
      BY <1>a, <3>1, <3>2, <3>3
  <2>3. ASSUME clean, Comparable(StartEpoch'), NEW c \in commits', tidword'[c.rec.key] = NoValue
        PROVE  DeletedFrom(c.rec.key, c.rec.val, made + 1)'
    <3>1. c \in commits /\ c.rec.key # k
      BY <1>0, <1>a, <1>r, <2>3 DEF NoValue, Typed
    <3>2. tidword[c.rec.key] = NoValue
      BY <1>0, <1>b, <1>r, <2>3, <3>1 DEF Typed
    <3>3. DeletedFrom(c.rec.key, c.rec.val, made + 1)
      BY <1>0, <1>c, <2>3, <3>1, <3>2 DEF InsertInv
    <3>4. PICK p \in commits : /\ p.rec.key = c.rec.key /\ p.rec.op = "DELETE" /\ c.rec.val <= p.rec.val
                              /\ p.rec.val < made + 1
      BY <3>3 DEF DeletedFrom
    <3>5. p \in commits' /\ p.rec.val < made' + 1
      BY <1>0, <1>a, <1>b, <3>4
    <3> QED
      BY <3>4, <3>5 DEF DeletedFrom
  <2>4. Comparable(StartEpoch)' => Comparable(StartEpoch')
    BY <1>a, <1>c DEF Comparable, EpochAt
  <2> QED
    BY <1>0, <2>2, <2>3, <2>4 DEF InsertInv, EpochAt
<1> QED
  BY <1>1, <1>2, <1>3

\* A transaction goes to the end of its worker's buffer, which is of its epoch.
LEMMA CommitDur ==
  ASSUME Inv, DurInv, NEW l \in Loggers, NEW op \in Ops, NEW k \in Keys, NEW e \in 1 .. MaxEpoch,
         Commit(l, op, k, e)
  PROVE  DurInv'
<1>0. /\ Typed /\ EpochsInv /\ ClockInv /\ MaxEpoch \in Nat /\ phase = "run" /\ phase' = "run"
      /\ e \in {ThLocalEpoch[l], GlobalEpoch} \ {0} /\ (buffer[l] # <<>> => EpochOf(buffer[l]) = e)
      /\ ThLocalEpoch' = [ThLocalEpoch EXCEPT ![l] = e] /\ clean' = clean
      /\ UNCHANGED <<GlobalEpoch, queue, prevHash, logfile, tail, pepoch, durable_epoch>>
  BY RecoveryAssumption DEF Inv, DurInv, Commit, fileVars, recoveryVars
<1>r. PICK r \in LogRecs :
         /\ r.op = op /\ r.key = k /\ r.val = made + 1 /\ r.tid[1] = e
         /\ tidword[k] # NoValue => Less(tidword[k], r.tid)
         /\ tidword' = [tidword EXCEPT ![k] = r.tid] /\ buffer' = [buffer EXCEPT ![l] = Append(@, r)]
         /\ commits' = commits \cup {[rec |-> r, log |-> l, session |-> crashes]}
  BY CommitMakes
<1>a. PICK b, c : b = buffer[l] /\ c = buffer'[l]
  OBVIOUS
<1>b. /\ b \in Buffers /\ Len(b) \in Nat /\ c = Append(b, r)
      /\ \A m \in Loggers : m # l => buffer'[m] = buffer[m] /\ ThLocalEpoch'[m] = ThLocalEpoch[m]
  <2>1. b \in Buffers /\ Len(b) \in Nat
    BY <1>0, <1>a DEF Typed, Buffers
  <2>2. c = Append(b, r)
    BY <1>0, <1>r, <1>a DEF Typed
  <2>3. \A m \in Loggers : m # l => buffer'[m] = buffer[m] /\ ThLocalEpoch'[m] = ThLocalEpoch[m]
    BY <1>0, <1>r DEF Typed
  <2> QED
    BY <2>1, <2>2, <2>3
<1>c. /\ c \in Buffers /\ c # <<>> /\ Len(c) = Len(b) + 1 /\ c[Len(b) + 1] = r
      /\ \A i \in 1 .. Len(b) : c[i] = b[i]
  BY <1>b DEF Buffers
<1>d. EpochOf(c) = e
  <2>1. EpochOf(c) = c[Len(c)].tid[1]
    BY <1>c, BufferEpoch
  <2> QED
    BY <1>b, <1>c, <1>r, <2>1
<1>e. ThLocalEpoch'[l] = e /\ Reached(l)' = e /\ Reached(l) <= e /\ Reached(l) \in Int /\ StartEpoch <= e /\ e <= GlobalEpoch
  BY <1>0, EpochsAreInt DEF ClockInv, Reached, StartEpoch, Typed
<1>1. HistoryTyped' /\ OrderInv' /\ InsertInv'
  BY CommitHistory
<1>2. ClockInv'
  <2>1. \A m \in Loggers : \/ ThLocalEpoch'[m] = 0
                           \/ StartEpoch <= ThLocalEpoch'[m] /\ ThLocalEpoch'[m] <= GlobalEpoch
    BY <1>0, <1>b, <1>e DEF ClockInv
  <2> QED
    BY <1>0, <2>1 DEF ClockInv, StartEpoch, Reading
<1>3. ASSUME NEW m \in Loggers
      PROVE  /\ OneEpoch(buffer'[m])
             /\ \A i \in 1 .. Len(queue'[m]) : OneEpoch(queue'[m][i])
             /\ \A i \in 1 .. Len(logfile'[m]) : OneEpoch(Plain(logfile'[m][i]))
  <2>1. OneEpoch(c)
    <3>1. \A i \in 1 .. Len(b) : b[i].tid[1] = e
      <4>1. CASE b = <<>>
        BY <4>1
      <4>2. CASE b # <<>>
        BY <1>0, <1>a, <4>2 DEF EpochsInv, OneEpoch
      <4> QED
        BY <4>1, <4>2
    <3> QED
      BY <1>b, <1>c, <1>d, <1>r, <3>1 DEF OneEpoch
  <2>2. CASE m = l
    BY <1>0, <1>a, <2>1, <2>2 DEF EpochsInv
  <2>3. CASE m # l
    BY <1>0, <1>b, <2>3 DEF EpochsInv
  <2> QED
    BY <2>2, <2>3
<1>4. ASSUME NEW m \in Loggers, FilesOf(m) PROVE FilesOf(m)'
  <2>1. (TailDue(m) \/ TailIsLast(m))'
    BY <1>0, <1>4, SameFiles DEF FilesOf
  <2>2. CASE m # l
    <3>1. Reached(m)' = Reached(m)
      BY <1>0, <1>b, <2>2 DEF Reached, StartEpoch
    <3> QED
      BY <1>0, <1>4, <1>b, <1>r, <2>1, <2>2, <3>1, SameFiles DEF FilesOf
  <2>3. CASE m = l
    <3>0. InOrder(l) /\ UpToNow(l) /\ MadeOnly(l)
      BY <1>4, <2>3 DEF FilesOf
    <3>a. /\ \A i \in 1 .. Len(logfile[l]) : SetEpoch(logfile[l][i]) <= e
          /\ \A i \in 1 .. Len(queue[l]) : EpochOf(queue[l][i]) <= e
      <4>1. /\ \A i \in 1 .. Len(logfile[l]) : SetEpoch(logfile[l][i]) <= Reached(l) /\ SetEpoch(logfile[l][i]) \in Int
            /\ \A i \in 1 .. Len(queue[l]) : EpochOf(queue[l][i]) <= Reached(l) /\ EpochOf(queue[l][i]) \in Int
        BY <1>0, <3>0, EpochsAreInt DEF UpToNow
      <4> QED
        BY <1>0, <1>e, <4>1
    <3>1. InOrder(l)'
      BY <1>0, <1>a, <1>d, <3>0, <3>a DEF InOrder
    <3>2. UpToNow(l)'
      BY <1>0, <1>a, <1>d, <1>e, <3>a DEF UpToNow
    <3>3. MadeOnly(l)'
      <4>1. (\A x : Made(x) => Made(x)') /\ Made(r)'
        <5>1. PICK n : n = [rec |-> r, log |-> l, session |-> crashes]
          OBVIOUS
        <5>2. n \in commits' /\ commits \subseteq commits' /\ n.rec = r
          BY <1>r, <5>1
        <5> QED
          BY <5>2 DEF Made
      <4>2. \A i \in 1 .. Len(c) : Made(c[i])'
        BY <1>a, <1>b, <1>c, <3>0, <4>1 DEF MadeOnly
      <4> QED
        BY <1>0, <1>a, <3>0, <4>1, <4>2 DEF MadeOnly
    <3> QED
      BY <2>1, <2>3, <3>1, <3>2, <3>3 DEF FilesOf
  <2> QED
    BY <2>2, <2>3
<1>5. CleanInv'
  BY <1>0, <1>4 DEF DurInv, CleanInv
<1>6. PlacesInv' /\ ReplayInv'
  BY <1>0 DEF PlacesInv, ReplayInv, Reading
<1> QED
  BY <1>1, <1>2, <1>3, <1>5, <1>6 DEF DurInv, EpochsInv

-----------------------------------------------------------------------------
(* Crash and restart                                                       *)

\* A transaction whose value is in the files is logged.
LEMMA ValueIsLogged ==
  ASSUME Inv, HistoryTyped, \A l \in Loggers : MadeOnly(l), NEW c \in commits, c.rec.val \in LoggedVals
  PROVE  Logged(c.rec)
<1>1. PICK l \in Loggers : \E s \in ToSet(logfile[l]) : \E x \in ToSet(s.recs) : x.rec.val = c.rec.val
  BY DEF LoggedVals
<1>2. PICK s \in ToSet(logfile[l]) : \E x \in ToSet(s.recs) : x.rec.val = c.rec.val
  BY <1>1
<1>3. PICK x \in ToSet(s.recs) : x.rec.val = c.rec.val
  BY <1>2
<1>4. PICK i \in 1 .. Len(logfile[l]) : s = logfile[l][i]
  BY <1>2 DEF ToSet, Inv, Typed
<1>5. PICK j \in 1 .. Len(s.recs) : x = s.recs[j]
  <2>1. s \in LogSets
    BY <1>4 DEF Inv, Typed
  <2>2. s.recs \in Seq([rec : LogRecs, prev : LogRecs])
    BY <2>1 DEF LogSets
  <2> QED
    BY <1>3, <2>2 DEF ToSet
<1>6. Made(x.rec)
  BY <1>4, <1>5 DEF MadeOnly
<1>7. x.rec = c.rec
  BY <1>3, <1>6 DEF Made, HistoryTyped
<1> QED
  BY <1>4, <1>5, <1>7 DEF Logged, IsIn

\* A Quiet crash leaves files from which everything durable can be recovered.
LEMMA CrashDur ==
  ASSUME Inv, DurInv, Crash
  PROVE  DurInv'
<1>0. /\ Typed /\ HistoryTyped /\ OrderInv /\ EpochsInv /\ CleanInv /\ InsertInv
      /\ crashes \in Nat /\ crashes' = crashes + 1
      /\ phase' = "open" /\ commits' = commits /\ made' = made /\ UNCHANGED <<logfile, tail, pepoch>>
      /\ (clean' => clean /\ (phase = "run" => Quiet))
      /\ \A l \in Loggers : buffer'[l] = <<>> /\ queue'[l] = <<>> /\ prevHash'[l] = PASSPHRASE /\ ThLocalEpoch'[l] = 0
      /\ records' = {} /\ \A k \in Keys : db'[k] = Absent
  <2>1. Typed /\ HistoryTyped /\ OrderInv /\ EpochsInv /\ CleanInv /\ InsertInv
    BY DEF Inv, DurInv
  <2>2. crashes \in Nat
    BY RecoveryAssumption, <2>1 DEF Typed
  <2>3. clean' => clean /\ (phase = "run" => Quiet)
    BY DEF Crash
  <2> QED
    BY <2>1, <2>2, <2>3 DEF Crash, fileVars
<1>1. HistoryTyped'
  BY <1>0 DEF HistoryTyped
<1>2. ClockInv'
  BY <1>0 DEF ClockInv, Reading
<1>3. OrderInv'
  BY <1>0 DEF OrderInv, EpochAt
<1>4. EpochsInv'
  BY <1>0 DEF EpochsInv, OneEpoch
<1>5. ASSUME clean' PROVE CleanInv'
  <2>1. ASSUME NEW l \in Loggers PROVE FilesOf(l)'
    <3>1. FilesOf(l) /\ ~TailDue(l)
      <4>1. phase # "run" => ~TailDue(l)
        BY DEF DurInv, ClockInv, TailDue
      <4> QED
        BY <1>0, <1>5, <4>1 DEF CleanInv, Quiet
    <3>2. TailIsLast(l)'
      BY <1>0, <3>1 DEF FilesOf, TailIsLast
    <3>3. InOrder(l)'
      BY <1>0, <3>1 DEF FilesOf, InOrder
    <3>4. MadeOnly(l)'
      BY <1>0, <3>1 DEF FilesOf, MadeOnly, Made
    <3>5. UpToNow(l)'
      BY <1>0 DEF UpToNow
    <3> QED
      BY <3>2, <3>3, <3>4, <3>5 DEF FilesOf
  <2>2. ASSUME NEW c \in commits, EpochAt(c) <= pepoch PROVE Logged(c.rec)'
    <3>1. Logged(c.rec)
      <4>1. CASE phase = "run"
        <5>1. \A l \in Loggers : MadeOnly(l)
          BY <1>0, <1>5 DEF CleanInv, FilesOf
        <5>2. c.rec.val \in LoggedVals
          BY <1>0, <1>5, <2>2, <4>1 DEF Quiet, EpochAt
        <5> QED
          BY <1>0, <5>1, <5>2, ValueIsLogged
      <4>2. CASE phase # "run"
        BY <1>0, <1>5, <2>2, <4>2 DEF CleanInv
      <4> QED
        BY <4>1, <4>2
    <3> QED
      BY <1>0, <3>1 DEF Logged
  <2> QED
    BY <1>0, <2>1, <2>2 DEF CleanInv, EpochAt
<1>6. InsertInv'
  <2>1. (\A x : Comparable(x)' <=> Comparable(x)) /\ \A m, v, w : DeletedFrom(m, v, w)' <=> DeletedFrom(m, v, w)
    BY <1>0 DEF Comparable, EpochAt, DeletedFrom
  <2> QED
    BY <1>0, <2>1 DEF InsertInv, EpochAt
<1>7. PlacesInv' /\ ReplayInv'
  BY <1>0 DEF PlacesInv, ReplayInv, Reading
<1> QED
  BY <1>1, <1>2, <1>3, <1>4, <1>5, <1>6, <1>7 DEF DurInv, CleanInv

\* The epochs of a key follow the order of its transactions.
LEMMA EpochsFollow ==
  ASSUME HistoryTyped, OrderInv, NEW p \in commits, NEW d \in commits,
         p.rec.key = d.rec.key, p.rec.val < d.rec.val
  PROVE  EpochAt(p) <= EpochAt(d)
<1>1. /\ p.rec.tid \in Int \X Nat /\ d.rec.tid \in Int \X Nat /\ p.session \in Int /\ d.session \in Int
      /\ p.rec.val \in Int /\ d.rec.val \in Int
  BY DEF HistoryTyped, LogRecs, LogTids, Vals
<1>2. CASE p.session < d.session
  BY <1>2 DEF OrderInv
<1>3. CASE p.session = d.session
  <2>1. Less(p.rec.tid, d.rec.tid)
    BY <1>3 DEF OrderInv
  <2> QED
    BY <1>1, <2>1, LessChain DEF EpochAt
<1>4. CASE d.session < p.session
  BY <1>1, <1>4 DEF OrderInv
<1> QED
  BY <1>1, <1>2, <1>3, <1>4

\* The records of a set are of its epoch.
LEMMA RecordEpoch ==
  ASSUME Typed, EpochsInv, NEW l \in Loggers, NEW i \in 1 .. Len(logfile[l]),
         NEW j \in 1 .. Len(logfile[l][i].recs)
  PROVE  logfile[l][i].recs[j].rec.tid[1] = SetEpoch(logfile[l][i])
<1>1. PICK s : s = logfile[l][i]
  OBVIOUS
<1>2. s \in LogSets /\ OneEpoch(Plain(s))
  BY <1>1 DEF Typed, EpochsInv
<1>3. j \in 1 .. Len(Plain(s)) /\ Plain(s)[j] = s.recs[j].rec
  BY <1>1, <1>2, PlainOf
<1> QED
  BY <1>1, <1>2, <1>3 DEF OneEpoch, SetEpoch

\* The server starts from the recovered state; a key that is not there was deleted.
LEMMA RestartDur ==
  ASSUME Inv, DurInv, Restart
  PROVE  DurInv'
<1>0. /\ Typed /\ HistoryTyped /\ OrderInv /\ ClockInv /\ EpochsInv /\ CleanInv /\ PlacesInv /\ InsertInv /\ ReplayInv
      /\ phase = "recovered" /\ phase' = "run" /\ commits' = {c \in commits : c.rec.tid[1] <= durable_epoch}
      /\ tidword' = [k \in Keys |-> IF db[k] = Absent THEN NoValue ELSE <<0, 0>>]
      /\ UNCHANGED <<GlobalEpoch, ThLocalEpoch, buffer, queue, prevHash, logfile, tail, pepoch, durable_epoch,
                     records, made, crashes, clean>>
  BY DEF Inv, DurInv, Restart, fileVars
<1>a. /\ GlobalEpoch = durable_epoch /\ durable_epoch \in Nat /\ current_epoch = durable_epoch + 1
      /\ StartEpoch' = durable_epoch
      /\ \A l \in Loggers : ThLocalEpoch[l] = 0 /\ buffer[l] = <<>> /\ queue[l] = <<>> /\ prevHash[l] = PASSPHRASE
  <2>1. GlobalEpoch \in 1 .. MaxEpoch /\ GlobalEpoch = durable_epoch /\ MaxEpoch \in Nat
    BY <1>0, RecoveryAssumption DEF ClockInv, Typed
  <2>2. StartEpoch' = durable_epoch
    BY <1>0, <2>1 DEF StartEpoch
  <2> QED
    BY <1>0, <2>1, <2>2 DEF ClockInv
<1>b. ASSUME NEW c \in commits'
      PROVE  c \in commits /\ EpochAt(c) <= durable_epoch /\ c.session < crashes /\ c.session \in Int
  BY <1>0 DEF EpochAt, HistoryTyped
<1>t. ASSUME NEW c \in commits
      PROVE  /\ EpochAt(c) \in Int /\ c.rec.val \in Int /\ 1 <= c.rec.val /\ c.rec.val <= made /\ c.rec.key \in Keys
             /\ c.rec.op \in Ops /\ made \in Int
  BY <1>0 DEF HistoryTyped, LogRecs, LogTids, Vals, EpochAt, Typed
<1>1. HistoryTyped'
  <2>1. \A c \in commits' : 1 <= c.rec.val /\ c.rec.val <= made /\ c.session <= crashes
    BY <1>0, <1>b, <1>t DEF HistoryTyped
  <2>2. \A c, d \in commits' : c.rec.val = d.rec.val => c = d
    BY <1>0 DEF HistoryTyped
  <2> QED
    BY <1>0, <2>1, <2>2 DEF HistoryTyped
<1>2. ClockInv'
  BY <1>0, <1>a DEF ClockInv, Reading
<1>3. OrderInv'
  <2>1. \A c \in commits' : /\ c.session < crashes => EpochAt(c) <= durable_epoch
                            /\ c.session # crashes
    BY <1>0, <1>b, RecoveryAssumption DEF Typed
  <2> QED
    BY <1>0, <1>a, <1>b, <2>1 DEF OrderInv, EpochAt
<1>4. EpochsInv'
  BY <1>0 DEF EpochsInv
<1>5. ASSUME clean PROVE CleanInv'
  <2>0. LogsEnd
    BY <1>0, <1>5 DEF PlacesInv
  <2>1. ASSUME NEW l \in Loggers PROVE FilesOf(l)'
    <3>1. FilesOf(l)
      BY <1>0, <1>5 DEF CleanInv
    <3>2. InOrder(l)' /\ (TailDue(l) \/ TailIsLast(l))'
      BY <1>0, <3>1, SameFiles DEF FilesOf
    <3>3. UpToNow(l)'
      <4>1. Reached(l)' = durable_epoch
        BY <1>0, <1>a DEF Reached
      <4>2. \A i \in 1 .. Len(logfile[l]) : SetEpoch(logfile[l][i]) <= durable_epoch
        BY <2>0 DEF LogsEnd
      <4> QED
        BY <1>0, <1>a, <4>1, <4>2 DEF UpToNow
    <3>4. MadeOnly(l)'
      <4>1. ASSUME NEW i \in 1 .. Len(logfile[l]), NEW j \in 1 .. Len(logfile[l][i].recs)
            PROVE  Made(logfile[l][i].recs[j].rec)'
        <5>1. PICK r : r = logfile[l][i].recs[j].rec
          OBVIOUS
        <5>2. r.tid[1] <= durable_epoch
          BY <1>0, <2>0, <4>1, <5>1, RecordEpoch DEF LogsEnd
        <5>3. PICK c \in commits : c.rec = r
          BY <3>1, <4>1, <5>1 DEF FilesOf, MadeOnly, Made
        <5>4. c \in commits'
          BY <1>0, <5>2, <5>3
        <5>5. Made(r)'
          BY <5>3, <5>4 DEF Made
        <5> QED
          BY <1>0, <5>1, <5>5
      <4> QED
        BY <1>0, <1>a, <4>1 DEF MadeOnly
    <3> QED
      BY <3>2, <3>3, <3>4 DEF FilesOf
  <2> QED
    BY <1>0, <2>1 DEF CleanInv
<1>6. ASSUME clean PROVE InsertInv'
  <2>1. ASSUME NEW x \in Int, x <= durable_epoch, Comparable(x)' PROVE Comparable(x)
    BY <1>0, <1>a, <1>t, <2>1 DEF Comparable, EpochAt
  <2>2. ASSUME NEW c \in commits', NEW d \in commits', d.rec.op = "INSERT", c.rec.key = d.rec.key,
               c.rec.val < d.rec.val, Comparable(EpochAt(d))'
        PROVE  DeletedFrom(d.rec.key, c.rec.val, d.rec.val)'
    <3>1. Comparable(EpochAt(d))
      BY <1>b, <1>t, <2>1, <2>2 DEF EpochAt
    <3>2. DeletedFrom(d.rec.key, c.rec.val, d.rec.val)
      BY <1>0, <1>6, <1>b, <2>2, <3>1 DEF InsertInv
    <3>3. PICK p \in commits : /\ p.rec.key = d.rec.key /\ p.rec.op = "DELETE" /\ c.rec.val <= p.rec.val
                               /\ p.rec.val < d.rec.val
      BY <3>2 DEF DeletedFrom
    <3>4. EpochAt(p) <= EpochAt(d)
      BY <1>0, <1>b, <3>3, EpochsFollow
    <3>5. p \in commits'
      BY <1>0, <1>a, <1>b, <1>t, <3>4 DEF EpochAt
    <3> QED
      BY <3>3, <3>5 DEF DeletedFrom
  <2>3. ASSUME Comparable(StartEpoch)', NEW c \in commits', tidword'[c.rec.key] = NoValue
        PROVE  DeletedFrom(c.rec.key, c.rec.val, made + 1)'
    <3>1. Comparable(durable_epoch)
      <4>1. Comparable(durable_epoch)'
        BY <1>0, <1>a, <2>3 DEF Comparable
      <4> QED
        BY <1>a, <1>0, <2>1, <4>1
    <3>2. ReplayedTo(c.rec.key)
      BY <1>0, <1>6, <1>b, <1>t, <3>1 DEF ReplayInv, PlacesInv, Reading
    <3>3. db[c.rec.key] = Absent
      BY <1>0, <1>b, <1>t, <2>3 DEF NoValue
    <3>4. Passed(c)
      BY <1>a, <1>b, <1>t DEF Passed
    <3>5. PICK p \in commits :
             /\ p.rec.key = c.rec.key /\ EpochAt(p) <= durable_epoch /\ db[c.rec.key] = Outcome(p)
             /\ \A x \in commits : x.rec.key = c.rec.key /\ Passed(x) => x.rec.val <= p.rec.val
      BY <1>b, <3>2, <3>4 DEF ReplayedTo
    <3>6. p.rec.op = "DELETE"
      BY <1>t, <3>3, <3>5 DEF Outcome, Absent
    <3>7. p \in commits' /\ c.rec.val <= p.rec.val /\ p.rec.val < made' + 1
      BY <1>0, <1>b, <1>t, <3>4, <3>5 DEF EpochAt
    <3> QED
      BY <3>5, <3>6, <3>7 DEF DeletedFrom
  <2> QED
    BY <1>0, <2>2, <2>3 DEF InsertInv, EpochAt
<1>7. PlacesInv' /\ ReplayInv'
  BY <1>0 DEF PlacesInv, ReplayInv, Reading
<1> QED
  BY <1>0, <1>1, <1>2, <1>3, <1>4, <1>5, <1>6, <1>7 DEF DurInv, CleanInv, InsertInv

-----------------------------------------------------------------------------
(* execute_recovery                                                        *)

\* Recovery changes neither the history nor the files.
LEMMA RecoveryHistory ==
  ASSUME Inv, DurInv, phase # "run", phase' # "run",
         UNCHANGED <<ThLocalEpoch, buffer, queue, prevHash, fileVars, historyVars>>
  PROVE  HistoryTyped' /\ OrderInv' /\ EpochsInv' /\ CleanInv' /\ InsertInv'
<1>0. /\ HistoryTyped /\ OrderInv /\ EpochsInv /\ CleanInv /\ InsertInv
      /\ UNCHANGED <<buffer, queue, prevHash, logfile, tail, pepoch, commits, made, crashes, clean>>
  BY DEF DurInv, fileVars, historyVars
<1>1. HistoryTyped'
  BY <1>0 DEF HistoryTyped
<1>2. OrderInv'
  BY <1>0 DEF OrderInv, EpochAt
<1>3. EpochsInv'
  BY <1>0 DEF EpochsInv
<1>4. CleanInv'
  <2>1. ASSUME NEW l \in Loggers, FilesOf(l) PROVE FilesOf(l)'
    <3>1. UpToNow(l)'
      BY DEF UpToNow
    <3> QED
      BY <1>0, <2>1, <3>1, SameFiles DEF FilesOf
  <2>2. \A r : Logged(r)' <=> Logged(r)
    BY <1>0 DEF Logged
  <2> QED
    BY <1>0, <2>1, <2>2 DEF CleanInv, EpochAt
<1>5. InsertInv'
  <2>1. (\A x : Comparable(x)' <=> Comparable(x)) /\ \A m, v, w : DeletedFrom(m, v, w)' <=> DeletedFrom(m, v, w)
    BY <1>0 DEF Comparable, EpochAt, DeletedFrom
  <2> QED
    BY <1>0, <2>1 DEF InsertInv, EpochAt
<1> QED
  BY <1>1, <1>2, <1>3, <1>4, <1>5

\* What the clock needs of a step of recovery.
LEMMA RecoveryClock ==
  ASSUME ClockInv, phase # "run", phase' # "run", UNCHANGED <<ThLocalEpoch, buffer, queue, prevHash, pepoch>>,
         phase' # "open", Reading' => durable_epoch' = pepoch,
         phase' = "recovered" => GlobalEpoch' = durable_epoch',
         phase' \in {"check", "recovered"} => current_epoch' = durable_epoch' + 1,
         phase' \in {"read", "check", "recovered"} => records' = {}
  PROVE  ClockInv'
BY DEF ClockInv, Reading

\* A recovery that has failed is not looked at.
LEMMA Failed ==
  ASSUME phase' \in {"refused", "died"}
  PROVE  PlacesInv' /\ ReplayInv' /\ ~Reading' /\ phase' # "run"
BY DEF PlacesInv, ReplayInv, Reading

\* The archives are opened.
LEMMA OpenFilesDur ==
  ASSUME Inv, DurInv, OpenFiles
  PROVE  DurInv'
<1>0. /\ Typed /\ HistoryTyped /\ ClockInv /\ phase = "open" /\ current_epoch' = 0 /\ durable_epoch' = pepoch
      /\ records' = {} /\ UNCHANGED <<db, commits, logfile, tail, clean>>
      /\ \A k \in Keys : db[k] = Absent
      /\ archive' = [l \in Loggers |-> [ClosedArchive EXCEPT !.matched = (tail[l] = NoHash),
                                                             !.allRead = (tail[l] = NoHash)]]
  BY DEF Inv, EpochLoop, DurInv, ClockInv, OpenFiles, fileVars, historyVars
<1>1. HistoryTyped' /\ OrderInv' /\ EpochsInv' /\ CleanInv' /\ InsertInv'
  BY RecoveryHistory DEF OpenFiles, runVars
<1>2. ClockInv'
  <2>1. phase' \in {"died", "read"}
    BY DEF OpenFiles
  <2> QED
    BY <1>0, <2>1, RecoveryClock DEF OpenFiles, runVars, fileVars
<1>3. CASE phase' = "died"
  BY <1>1, <1>2, <1>3, Failed DEF DurInv
<1>4. CASE phase' = "read"
  <2>1. ASSUME NEW l \in Loggers PROVE Ahead(l)' /\ Placed(l)' /\ Met(l)'
    <3>1. PICK a : a = archive'[l]
      OBVIOUS
    <3>2. a.offset = 0 /\ a.buffered = <<>> /\ a.matched = (tail[l] = NoHash) /\ a.allRead = (tail[l] = NoHash)
      BY <1>0, <3>1 DEF ClosedArchive
    <3>3. \A j \in 1 .. Len(logfile[l]) : 0 <= SetEpoch(logfile[l][j]) /\ ~(j <= 0)
      <4>1. Len(logfile[l]) \in Nat /\ \A j \in 1 .. Len(logfile[l]) : logfile[l][j] \in LogSets
        BY <1>0, EpochsAreInt
      <4>2. \A s \in LogSets : SetEpoch(s) \in 1 .. MaxEpoch
        BY PlainOf
      <4> QED
        BY <4>1, <4>2, RecoveryAssumption
    <3>4. Ahead(l)'
      BY <3>1, <3>2 DEF Ahead
    <3>5. Placed(l)'
      BY <1>0, <1>4, <3>1, <3>2, <3>3 DEF Placed
    <3>6. Met(l)'
      BY <1>0, <3>1, <3>2 DEF Met
    <3> QED
      BY <3>4, <3>5, <3>6
  <2>2. PlacesInv'
    BY <1>4, <2>1 DEF PlacesInv
  <2>3. ReplayInv'
    <3>1. ASSUME NEW c \in commits PROVE ~Passed(c)'
      <4>1. EpochAt(c) \in 1 .. MaxEpoch
        BY <1>0 DEF EpochAt, HistoryTyped, LogRecs, LogTids
      <4>2. ~(EpochAt(c) < 0) /\ ~Verified' /\ EpochAt(c)' = EpochAt(c)
        BY <1>4, <4>1 DEF Verified, EpochAt
      <4> QED
        BY <1>0, <4>2 DEF Passed, EpochAt
    <3>2. ~Verified'
      BY <1>4 DEF Verified
    <3> QED
      BY <1>0, <3>1, <3>2 DEF ReplayInv, ReplayedTo
  <2> QED
    BY <1>1, <1>2, <2>2, <2>3 DEF DurInv
<1> QED
  BY <1>3, <1>4 DEF OpenFiles

\* What the replay has reached does not change unless the phase, the epoch, the records
\* or the database do.
LEMMA SameReplay ==
  ASSUME ReplayInv, Reading, UNCHANGED <<current_epoch, durable_epoch, records, db, logfile, commits, clean>>,
         \A c \in commits : Passed(c)' => Passed(c), Verified' => Verified \/ records = {}
  PROVE  ReplayInv'
<1>1. LogsEnd' => LogsEnd
  BY DEF LogsEnd
<1>2. Comparable(durable_epoch)' => Comparable(durable_epoch)
  BY DEF Comparable, EpochAt
<1>3. ASSUME NEW k \in Keys, ReplayedTo(k) PROVE ReplayedTo(k)'
  BY <1>3 DEF ReplayedTo, EpochAt, Outcome
<1> QED
  BY <1>1, <1>2, <1>3 DEF ReplayInv

\* A log set is read.
LEMMA ReadLogSetDur ==
  ASSUME Inv, DurInv, NEW l \in Loggers, ReadLogSet(l)
  PROVE  DurInv'
<1>0. /\ Typed /\ ClockInv /\ PlacesInv /\ ReplayInv /\ phase = "read" /\ MoreToRead(l)
      /\ UNCHANGED <<current_epoch, durable_epoch, records, db, logfile, tail, commits, clean>>
      /\ records = {} /\ durable_epoch = pepoch
  BY DEF Inv, DurInv, ClockInv, Reading, ReadLogSet, fileVars, historyVars
<1>1. HistoryTyped' /\ OrderInv' /\ EpochsInv' /\ CleanInv' /\ InsertInv'
  BY RecoveryHistory DEF ReadLogSet, runVars
<1>2. ClockInv'
  <2>1. phase' \in {"refused", "read"}
    BY <1>0 DEF ReadLogSet
  <2> QED
    BY <1>0, <2>1, RecoveryClock DEF ReadLogSet, runVars, fileVars
<1>3. CASE phase' = "refused"
  BY <1>1, <1>2, <1>3, Failed DEF DurInv
<1>4. CASE phase' # "refused"
  <2>0. /\ phase' = "read"
        /\ archive' = [archive EXCEPT ![l].offset = @ + 1, ![l].buffered = Append(@, NextLogSet(l))]
    BY <1>0, <1>4 DEF ReadLogSet
  <2>a. PICK a, b, s : a = archive[l] /\ b = archive'[l] /\ s = logfile[l][a.offset + 1]
    OBVIOUS
  <2>b. /\ a \in Archives /\ a.offset + 1 \in 1 .. Len(logfile[l]) /\ a.offset \in Nat /\ s \in LogSets
        /\ b.offset = a.offset + 1 /\ b.buffered = Append(a.buffered, s) /\ b.matched = a.matched /\ b.allRead = a.allRead
        /\ \A m \in Loggers : m # l => archive'[m] = archive[m]
    <3>1. a \in Archives /\ logfile[l] \in Seq(LogSets)
      BY <1>0, <2>a DEF Typed
    <3>2. a.offset \in Nat /\ a.offset + 1 \in 1 .. Len(logfile[l])
      BY <1>0, <2>a, <3>1 DEF Archives, MoreToRead
    <3>3. s \in LogSets
      BY <2>a, <3>1, <3>2
    <3>4. b = [a EXCEPT !.offset = @ + 1, !.buffered = Append(@, s)]
      BY <1>0, <2>0, <2>a DEF Typed, NextLogSet
    <3>5. b.offset = a.offset + 1 /\ b.buffered = Append(a.buffered, s) /\ b.matched = a.matched /\ b.allRead = a.allRead
      BY <3>1, <3>4 DEF Archives
    <3>6. \A m \in Loggers : m # l => archive'[m] = archive[m]
      BY <1>0, <2>0 DEF Typed
    <3> QED
      BY <3>1, <3>2, <3>3, <3>5, <3>6
  <2>c. /\ a.buffered \in Seq(LogSets) /\ Len(a.buffered) \in Nat /\ Len(b.buffered) = Len(a.buffered) + 1
        /\ b.buffered[Len(a.buffered) + 1] = s
        /\ \A i \in 1 .. Len(a.buffered) : b.buffered[i] = a.buffered[i]
    BY <2>b DEF Archives
  <2>1. ASSUME clean, NEW m \in Loggers PROVE Ahead(m)' /\ Placed(m)' /\ Met(m)'
    <3>0. Ahead(m) /\ Placed(m) /\ Met(m)
      BY <1>0, <2>1 DEF PlacesInv, Reading
    <3>1. Met(m)'
      <4>1. archive'[m].matched = archive[m].matched /\ archive'[m].allRead = archive[m].allRead
        BY <2>a, <2>b
      <4> QED
        BY <1>0, <3>0, <4>1 DEF Met
    <3>2. CASE m # l
      <4>1. archive'[m] = archive[m]
        BY <2>b, <3>2
      <4>2. Ahead(m)'
        BY <1>0, <3>0, <4>1 DEF Ahead
      <4>3. Placed(m)'
        BY <1>0, <2>0, <3>0, <4>1 DEF Placed, Buffered
      <4> QED
        BY <3>1, <4>2, <4>3
    <3>3. CASE m = l
      <4>1. current_epoch <= SetEpoch(s)
        BY <2>a, <2>b, <3>0, <3>3 DEF Placed
      <4>2. Ahead(l)'
        <5>1. \A i \in 1 .. Len(a.buffered) : /\ current_epoch <= SetEpoch(a.buffered[i])
                                              /\ \E j \in 1 .. a.offset : a.buffered[i] = logfile[l][j]
          BY <2>a, <3>0, <3>3 DEF Ahead
        <5>2. \A i \in 1 .. Len(b.buffered) : /\ current_epoch <= SetEpoch(b.buffered[i])
                                              /\ \E j \in 1 .. b.offset : b.buffered[i] = logfile[l][j]
          <6>1. \A j \in 1 .. a.offset : j \in 1 .. b.offset
            BY <2>b
          <6>2. a.offset + 1 \in 1 .. b.offset
            BY <2>b
          <6>3. \A i \in 1 .. Len(b.buffered) : i \in 1 .. Len(a.buffered) \/ i = Len(a.buffered) + 1
            BY <2>c
          <6> QED
            BY <2>a, <2>b, <2>c, <4>1, <5>1, <6>1, <6>2, <6>3
        <5> QED
          BY <1>0, <2>a, <5>2 DEF Ahead
      <4>3. Placed(l)'
        <5>1. \A x : Buffered(l, x) => Buffered(l, x)'
          BY <2>a, <2>c DEF Buffered
        <5>2. Buffered(l, s)'
          BY <2>a, <2>c DEF Buffered
        <5>3. ASSUME NEW j \in 1 .. Len(logfile[l])
              PROVE  /\ current_epoch <= SetEpoch(logfile[l][j]) /\ j <= b.offset => Buffered(l, logfile[l][j])'
                     /\ b.offset < j => current_epoch <= SetEpoch(logfile[l][j])
          <6>0. logfile[l][j] \in LogSets
            BY <1>0 DEF Typed
          <6>1. SetEpoch(logfile[l][j]) \in Int /\ current_epoch \in Int
            BY <1>0, <6>0, PlainOf DEF Typed
          <6>2. /\ current_epoch <= SetEpoch(logfile[l][j]) /\ j <= a.offset => Buffered(l, logfile[l][j])
                /\ a.offset < j => current_epoch <= SetEpoch(logfile[l][j])
            BY <1>0, <2>a, <3>0, <3>3, <6>1 DEF Placed
          <6>3. CASE j = a.offset + 1
            <7>1. Buffered(l, logfile[l][j])'
              BY <1>0, <2>a, <2>b, <5>2, <6>3
            <7>2. ~(b.offset < j)
              BY <2>b, <6>3
            <7> QED
              BY <7>1, <7>2
          <6>4. CASE j # a.offset + 1
            <7>1. (j <= b.offset => j <= a.offset) /\ (b.offset < j => a.offset < j)
              BY <2>b, <6>4
            <7>2. Buffered(l, logfile[l][j]) => Buffered(l, logfile[l][j])'
              <8>1. PICK x : x = logfile[l][j]
                OBVIOUS
              <8>2. Buffered(l, x) => Buffered(l, x)'
                BY <5>1
              <8> QED
                BY <1>0, <8>1, <8>2
            <7> QED
              BY <6>2, <7>1, <7>2
          <6> QED
            BY <6>3, <6>4
        <5>4. \A j \in 1 .. Len(logfile[l]) : SetEpoch(logfile[l][j]) \in Int /\ current_epoch \in Int
          <6>1. \A j \in 1 .. Len(logfile[l]) : SetEpoch(logfile[l][j]) \in Int
            BY <1>0, EpochsAreInt
          <6>2. current_epoch \in Int
            BY <1>0 DEF Typed
          <6> QED
            BY <6>1, <6>2
        <5>5. \A j \in 1 .. Len(logfile[l]) :
                /\ current_epoch < SetEpoch(logfile[l][j]) => current_epoch <= SetEpoch(logfile[l][j])
                /\ current_epoch = SetEpoch(logfile[l][j]) => current_epoch <= SetEpoch(logfile[l][j])
          BY <5>4
        <5> QED
          BY <1>0, <2>0, <2>a, <5>3, <5>5 DEF Placed
      <4> QED
        BY <3>1, <3>3, <4>2, <4>3
    <3> QED
      BY <3>2, <3>3
  <2>2. PlacesInv'
    BY <1>0, <2>0, <2>1 DEF PlacesInv
  <2>3. ReplayInv'
    <3>1. ~Verified /\ ~Verified' /\ Reading
      BY <1>0, <2>0 DEF Verified, Reading
    <3>2. \A c \in commits : Passed(c)' => Passed(c)
      BY <1>0, <3>1 DEF Passed, EpochAt
    <3> QED
      BY <1>0, <3>1, <3>2, SameReplay
  <2> QED
    BY <1>1, <1>2, <2>2, <2>3 DEF DurInv
<1> QED
  BY <1>3, <1>4

\* A durable transaction is in a set of its epoch.
LEMMA DurableIsLogged ==
  ASSUME Typed, EpochsInv, CleanInv, clean, phase # "run", NEW c \in commits, EpochAt(c) <= pepoch
  PROVE  \E l \in Loggers : \E i \in 1 .. Len(logfile[l]) :
           SetEpoch(logfile[l][i]) = EpochAt(c) /\ \E j \in 1 .. Len(logfile[l][i].recs) : logfile[l][i].recs[j].rec = c.rec
<1>0. PICK l \in Loggers : \E i \in 1 .. Len(logfile[l]) : IsIn(c.rec, logfile[l][i])
  BY DEF CleanInv, Logged
<1>1. PICK i \in 1 .. Len(logfile[l]) : \E j \in 1 .. Len(logfile[l][i].recs) : logfile[l][i].recs[j].rec = c.rec
  BY <1>0 DEF IsIn
<1>2. PICK j \in 1 .. Len(logfile[l][i].recs) : logfile[l][i].recs[j].rec = c.rec
  BY <1>1
<1>3. SetEpoch(logfile[l][i]) = EpochAt(c)
  BY <1>2, RecordEpoch DEF EpochAt
<1> QED
  BY <1>2, <1>3

\* A set of the current epoch that is buffered has to be verified.
LEMMA BufferedIsDue ==
  ASSUME NEW l \in Loggers, NEW s, Buffered(l, s), SetEpoch(s) = current_epoch
  PROVE  DueSets(l) # {}
BY DEF Buffered, DueSets

\* The sets of the epoch have been read from all files.
LEMMA ReadDoneDur ==
  ASSUME Inv, DurInv, ReadDone
  PROVE  DurInv'
<1>0. /\ Typed /\ ClockInv /\ EpochsInv /\ CleanInv /\ PlacesInv /\ ReplayInv /\ EpochLoop
      /\ phase = "read" /\ phase' = "epoch"
      /\ UNCHANGED <<current_epoch, durable_epoch, archive, records, db, logfile, tail, commits, clean>>
      /\ records = {} /\ durable_epoch = pepoch /\ current_epoch <= durable_epoch
      /\ current_epoch \in Int /\ durable_epoch \in Int
  BY DEF Inv, EpochLoop, DurInv, ClockInv, Reading, ReadDone, fileVars, recoveryVars, historyVars, Typed
<1>1. HistoryTyped' /\ OrderInv' /\ EpochsInv' /\ CleanInv' /\ InsertInv'
  BY RecoveryHistory DEF ReadDone, runVars
<1>2. ClockInv'
  BY <1>0, RecoveryClock DEF ReadDone, runVars, fileVars
<1>a. ASSUME clean, NEW l \in Loggers, NEW j \in 1 .. Len(logfile[l])
      PROVE  /\ archive[l].offset < j => current_epoch < SetEpoch(logfile[l][j])
             /\ current_epoch = SetEpoch(logfile[l][j]) => Buffered(l, logfile[l][j])
  <2>0. Ahead(l) /\ Placed(l) /\ Met(l) /\ InOrder(l) /\ (TailDue(l) \/ TailIsLast(l))
    BY <1>0, <1>a DEF PlacesInv, Reading, CleanInv, FilesOf
  <2>1. SetEpoch(logfile[l][j]) \in Int /\ Len(logfile[l]) \in Nat
    BY <1>0, EpochsAreInt
  <2>2. PICK a : a = archive[l]
    OBVIOUS
  <2>3. a.offset \in Nat /\ a.buffered \in Seq(LogSets)
    BY <1>0, <2>2 DEF Typed, Archives
  <2>4. ASSUME a.offset < j PROVE current_epoch < SetEpoch(logfile[l][j])
    <3>1. ~a.allRead
      <4>1. ~TailDue(l)
        BY <1>0 DEF TailDue, ClockInv
      <4>2. tail[l] # NoHash
        <5>1. logfile[l][Len(logfile[l])] \in LogSets /\ logfile[l] # <<>>
          BY <1>0, <2>1, EpochsAreInt
        <5>2. Plain(logfile[l][Len(logfile[l])]) # <<>>
          BY <5>1, PlainOf
        <5> QED
          BY <2>0, <4>1, <5>1, <5>2 DEF TailIsLast, NoHash
      <4> QED
        BY <2>0, <2>2, <4>2 DEF Met
    <3>2. a.offset < Len(logfile[l])
      BY <2>1, <2>3, <2>4
    <3>3. a.buffered # <<>> /\ ~(Head(a.buffered).recs[1].rec.tid[1] <= current_epoch)
      BY <2>2, <3>1, <3>2 DEF ReadDone, MoreToRead
    <3>4. Head(a.buffered) = a.buffered[1] /\ 1 \in 1 .. Len(a.buffered)
      BY <2>3, <3>3
    <3>5. PICK h \in 1 .. a.offset : a.buffered[1] = logfile[l][h]
      BY <2>0, <2>2, <3>4 DEF Ahead
    <3>6. h \in 1 .. Len(logfile[l]) /\ h <= j
      BY <2>1, <2>3, <2>4, <3>2, <3>5
    <3>7. 1 \in 1 .. Len(logfile[l][h].recs)
      <4>1. logfile[l][h] \in LogSets
        BY <1>0, <3>6, EpochsAreInt
      <4> QED
        BY <4>1 DEF LogSets
    <3>8. ~(SetEpoch(logfile[l][h]) <= current_epoch)
      BY <1>0, <3>3, <3>4, <3>5, <3>6, <3>7, RecordEpoch
    <3>9. SetEpoch(logfile[l][h]) <= SetEpoch(logfile[l][j]) /\ SetEpoch(logfile[l][h]) \in Int
      BY <1>0, <2>0, <3>6, EpochsAreInt DEF InOrder
    <3> QED
      BY <1>0, <2>1, <3>8, <3>9
  <2>5. ASSUME current_epoch = SetEpoch(logfile[l][j]) PROVE Buffered(l, logfile[l][j])
    <3>1. j <= a.offset
      BY <1>0, <2>1, <2>3, <2>4, <2>5
    <3> QED
      BY <1>0, <2>0, <2>2, <2>5, <3>1 DEF Placed
  <2> QED
    BY <2>2, <2>4, <2>5
<1>3. PlacesInv'
  <2>1. ASSUME clean, NEW l \in Loggers PROVE Ahead(l)' /\ Placed(l)' /\ Met(l)'
    <3>0. Ahead(l) /\ Placed(l) /\ Met(l)
      BY <1>0, <2>1 DEF PlacesInv, Reading
    <3>1. Ahead(l)' /\ Met(l)'
      BY <1>0, <3>0 DEF Ahead, Met
    <3>2. Placed(l)'
      <4>1. \A x : Buffered(l, x)' <=> Buffered(l, x)
        BY <1>0 DEF Buffered
      <4> QED
        BY <1>0, <1>a, <2>1, <3>0, <4>1 DEF Placed
    <3> QED
      BY <3>1, <3>2
  <2> QED
    BY <1>0, <2>1 DEF PlacesInv
<1>4. ASSUME clean PROVE ReplayInv'
  <2>1. ASSUME NEW c \in commits, Passed(c)' PROVE Passed(c)
    <3>1. CASE EpochAt(c) < current_epoch
      BY <3>1 DEF Passed
    <3>2. CASE EpochAt(c) = current_epoch /\ Verified'
      <4>0. PICK l \in Loggers : \E i \in 1 .. Len(logfile[l]) : SetEpoch(logfile[l][i]) = EpochAt(c)
        BY <1>0, <1>4, <3>2, DurableIsLogged
      <4>1. PICK i \in 1 .. Len(logfile[l]) : SetEpoch(logfile[l][i]) = EpochAt(c)
        BY <4>0
      <4>2. Buffered(l, logfile[l][i])
        BY <1>4, <1>a, <3>2, <4>1
      <4>3. DueSets(l) # {}
        BY <3>2, <4>1, <4>2, BufferedIsDue
      <4>4. DueSets(l)' = DueSets(l)
        BY <1>0 DEF DueSets
      <4> QED
        BY <3>2, <4>3, <4>4 DEF Verified
    <3> QED
      BY <1>0, <2>1, <3>1, <3>2 DEF Passed, EpochAt
  <2> QED
    BY <1>0, <2>1, SameReplay DEF Reading
<1> QED
  BY <1>0, <1>1, <1>2, <1>3, <1>4 DEF DurInv, ReplayInv

\* The loop over the epochs goes on: what was due is verified and replayed.
LEMMA NextEpochDur ==
  ASSUME Inv, DurInv, NextEpoch
  PROVE  DurInv'
<1>0. /\ Typed /\ HistoryTyped /\ ClockInv /\ PlacesInv /\ ReplayInv /\ EpochLoop /\ phase = "epoch" /\ Verified
      /\ phase' \in {"read", "check"} /\ (phase' = "check" => ~MoreEpochs)
      /\ current_epoch' = current_epoch + 1 /\ records = {}
      /\ UNCHANGED <<durable_epoch, archive, records, db, logfile, tail, commits, clean>>
      /\ durable_epoch = pepoch /\ current_epoch <= durable_epoch
      /\ current_epoch \in Int /\ durable_epoch \in Int
  BY DEF Inv, EpochLoop, DurInv, ClockInv, Reading, NextEpoch, Verified, fileVars, historyVars, Typed
<1>1. HistoryTyped' /\ OrderInv' /\ EpochsInv' /\ CleanInv' /\ InsertInv'
  BY <1>0, RecoveryHistory DEF NextEpoch, runVars
<1>2. ClockInv'
  <2>1. phase' = "check" => current_epoch' = durable_epoch' + 1
    BY <1>0 DEF MoreEpochs
  <2> QED
    BY <1>0, <2>1, RecoveryClock DEF NextEpoch, runVars, fileVars
<1>3. PlacesInv'
  <2>1. ASSUME clean, NEW l \in Loggers PROVE Ahead(l)' /\ Placed(l)' /\ Met(l)'
    <3>0. Ahead(l) /\ Placed(l) /\ Met(l) /\ archive[l].buffered \in Seq(LogSets)
      BY <1>0, <2>1 DEF PlacesInv, Reading, Typed, Archives
    <3>1. Ahead(l)'
      <4>1. ASSUME NEW i \in 1 .. Len(archive[l].buffered)
            PROVE  current_epoch + 1 <= SetEpoch(archive[l].buffered[i])
        <5>1. SetEpoch(archive[l].buffered[i]) \in Int
          <6>1. archive[l].buffered[i] \in LogSets
            BY <3>0
          <6> QED
            BY <6>1, PlainOf
        <5>2. SetEpoch(archive[l].buffered[i]) # current_epoch
          BY <1>0 DEF Verified, DueSets
        <5>3. current_epoch <= SetEpoch(archive[l].buffered[i])
          BY <3>0 DEF Ahead
        <5> QED
          BY <1>0, <5>1, <5>2, <5>3
      <4> QED
        BY <1>0, <3>0, <4>1 DEF Ahead
    <3>2. Placed(l)'
      <4>1. \A x : Buffered(l, x)' <=> Buffered(l, x)
        BY <1>0 DEF Buffered
      <4>2. ASSUME NEW j \in 1 .. Len(logfile[l])
            PROVE  /\ current_epoch + 1 <= SetEpoch(logfile[l][j]) /\ j <= archive[l].offset => Buffered(l, logfile[l][j])
                   /\ archive[l].offset < j => current_epoch + 1 <= SetEpoch(logfile[l][j])
                   /\ current_epoch + 1 < SetEpoch(logfile[l][j]) => current_epoch + 1 <= SetEpoch(logfile[l][j])
                   /\ current_epoch + 1 = SetEpoch(logfile[l][j]) => current_epoch + 1 <= SetEpoch(logfile[l][j])
        <5>1. SetEpoch(logfile[l][j]) \in Int
          BY <1>0, EpochsAreInt
        <5>2. /\ current_epoch < SetEpoch(logfile[l][j]) /\ j <= archive[l].offset => Buffered(l, logfile[l][j])
              /\ archive[l].offset < j => current_epoch < SetEpoch(logfile[l][j])
          BY <1>0, <3>0 DEF Placed
        <5> QED
          BY <1>0, <5>1, <5>2
      <4> QED
        BY <1>0, <4>1, <4>2 DEF Placed
    <3>3. Met(l)'
      BY <1>0, <3>0 DEF Met
    <3> QED
      BY <3>1, <3>2, <3>3
  <2> QED
    BY <1>0, <2>1 DEF PlacesInv
<1>4. ReplayInv'
  <2>0. ASSUME NEW c \in commits PROVE Passed(c)' => Passed(c)
    <3>1. EpochAt(c) \in Int
      BY <1>0 DEF EpochAt, HistoryTyped, LogRecs, LogTids
    <3>2. ~Verified'
      BY <1>0 DEF Verified
    <3>3. Passed(c)' => EpochAt(c) < current_epoch + 1
      BY <1>0, <3>2 DEF Passed, EpochAt
    <3> QED
      BY <1>0, <3>1, <3>3 DEF Passed
  <2>1. ~Verified'
    BY <1>0 DEF Verified
  <2>2. (LogsEnd' => LogsEnd) /\ (Comparable(durable_epoch)' => Comparable(durable_epoch))
    BY <1>0 DEF LogsEnd, Comparable, EpochAt
  <2>3. ASSUME NEW k \in Keys, ReplayedTo(k) PROVE ReplayedTo(k)'
    BY <1>0, <2>0, <2>3 DEF ReplayedTo, EpochAt, Outcome
  <2> QED
    BY <1>0, <2>1, <2>2, <2>3 DEF ReplayInv, Reading
<1> QED
  BY <1>1, <1>2, <1>3, <1>4 DEF DurInv

\* Every tail hash was met, so no set is of a later epoch.
LEMMA CheckTailsDur ==
  ASSUME Inv, DurInv, CheckTails
  PROVE  DurInv'
<1>0. /\ Typed /\ ClockInv /\ CleanInv /\ PlacesInv /\ ReplayInv /\ phase = "check"
      /\ phase' \in {"recovered", "refused"} /\ (phase' = "recovered" => TailsMatched /\ GlobalEpoch' = durable_epoch)
      /\ UNCHANGED <<current_epoch, durable_epoch, archive, records, db, logfile, tail, commits, clean>>
      /\ durable_epoch = pepoch /\ current_epoch = durable_epoch + 1 /\ records = {}
      /\ durable_epoch \in Int
  BY DEF Inv, DurInv, ClockInv, Reading, CheckTails, fileVars, recoveryVars, historyVars, Typed
<1>1. HistoryTyped' /\ OrderInv' /\ EpochsInv' /\ CleanInv' /\ InsertInv'
  BY <1>0, RecoveryHistory DEF CheckTails
<1>2. ClockInv'
  BY <1>0, RecoveryClock DEF CheckTails, fileVars
<1>3. CASE phase' = "refused"
  BY <1>1, <1>2, <1>3, Failed DEF DurInv
<1>4. CASE phase' = "recovered"
  <2>1. ASSUME clean, NEW l \in Loggers PROVE Met(l) /\ Met(l)'
    <3>1. Met(l)
      BY <1>0, <2>1 DEF PlacesInv, Reading
    <3> QED
      BY <1>0, <3>1 DEF Met
  <2>2. ASSUME clean, NEW l \in Loggers, NEW i \in 1 .. Len(logfile[l])
        PROVE  SetEpoch(logfile[l][i]) <= durable_epoch
    <3>1. InOrder(l) /\ TailIsLast(l) /\ logfile[l] # <<>>
      BY <1>0, <2>2, EpochsAreInt DEF CleanInv, FilesOf, TailDue, ClockInv
    <3>2. PICK n : n = Len(logfile[l])
      OBVIOUS
    <3>3. n \in 1 .. Len(logfile[l]) /\ i <= n
      BY <1>0, <3>2, EpochsAreInt
    <3>4. tail[l] = Plain(logfile[l][n]) /\ logfile[l][n] \in LogSets
      BY <1>0, <3>1, <3>2, <3>3, EpochsAreInt DEF TailIsLast
    <3>5. tail[l] # NoHash
      BY <3>4, PlainOf DEF NoHash
    <3>6. SetEpoch(logfile[l][n]) <= durable_epoch
      BY <1>0, <1>4, <2>1, <2>2, <3>4, <3>5 DEF Met, TailsMatched, SetEpoch
    <3>7. SetEpoch(logfile[l][i]) <= SetEpoch(logfile[l][n])
      BY <3>1, <3>3 DEF InOrder
    <3>8. SetEpoch(logfile[l][i]) \in Int /\ SetEpoch(logfile[l][n]) \in Int
      BY <1>0, <3>3, EpochsAreInt
    <3> QED
      BY <1>0, <3>6, <3>7, <3>8
  <2>3. PlacesInv'
    BY <1>0, <1>4, <2>1, <2>2 DEF PlacesInv, LogsEnd
  <2>4. ReplayInv'
    <3>1. ~Verified /\ ~Verified'
      BY <1>0, <1>4 DEF Verified
    <3>2. \A c \in commits : Passed(c)' => Passed(c)
      BY <1>0, <3>1 DEF Passed, EpochAt
    <3> QED
      BY <1>0, <3>1, <3>2, SameReplay DEF Reading
  <2> QED
    BY <1>1, <1>2, <2>3, <2>4 DEF DurInv
<1> QED
  BY <1>0, <1>3, <1>4

\* The sets that are not erased stay in the buffer.
LEMMA RemoveAtKeeps ==
  ASSUME NEW S, NEW q \in Seq(S), NEW n \in 1 .. Len(q), NEW j \in 1 .. Len(q), j # n
  PROVE  \E i \in 1 .. Len(RemoveAt(q, n)) : RemoveAt(q, n)[i] = q[j]
<1>1. Len(q) \in Nat /\ n \in Nat /\ j \in Nat
  OBVIOUS
<1>2. /\ SubSeq(q, 1, n - 1) \in Seq(S) /\ Len(SubSeq(q, 1, n - 1)) = n - 1
      /\ \A i \in 1 .. n - 1 : SubSeq(q, 1, n - 1)[i] = q[i]
  BY <1>1
<1>3. /\ SubSeq(q, n + 1, Len(q)) \in Seq(S) /\ Len(SubSeq(q, n + 1, Len(q))) = Len(q) - n
      /\ \A i \in 1 .. Len(q) - n : SubSeq(q, n + 1, Len(q))[i] = q[n + i]
  BY <1>1
<1>4. PICK a \in Seq(S), b \in Seq(S) : a = SubSeq(q, 1, n - 1) /\ b = SubSeq(q, n + 1, Len(q))
  BY <1>2, <1>3
<1>5. PICK c : c = a \o b
  OBVIOUS
<1>6. c \in Seq(S) /\ Len(c) = Len(a) + Len(b)
  BY <1>5
<1>7. \A i \in 1 .. Len(c) : c[i] = IF i <= Len(a) THEN a[i] ELSE b[i - Len(a)]
  BY <1>5, <1>6
<1>8. Len(a) = n - 1 /\ Len(b) = Len(q) - n
  BY <1>2, <1>3, <1>4
<1>9. CASE j < n
  <2>1. j \in 1 .. n - 1 /\ j \in 1 .. Len(c) /\ j <= Len(a)
    BY <1>1, <1>6, <1>8, <1>9
  <2>2. c[j] = q[j]
    BY <1>2, <1>4, <1>7, <2>1
  <2> QED
    BY <1>4, <1>5, <2>1, <2>2 DEF RemoveAt
<1>10. CASE n < j
  <2>1. j - 1 \in 1 .. Len(c) /\ ~(j - 1 <= Len(a)) /\ (j - 1) - Len(a) = j - n /\ j - n \in 1 .. Len(q) - n
    BY <1>1, <1>6, <1>8, <1>10
  <2>2. c[j - 1] = b[j - n]
    BY <1>7, <2>1
  <2>3. b[j - n] = q[n + (j - n)] /\ n + (j - n) = j
    BY <1>1, <1>3, <1>4, <2>1
  <2> QED
    BY <1>4, <1>5, <2>1, <2>2, <2>3 DEF RemoveAt
<1> QED
  BY <1>1, <1>9, <1>10

\* A verified set is handed over with everything that is buffered, and erased.
LEMMA VerifyLogSetDur ==
  ASSUME Inv, DurInv, NEW l \in Loggers, VerifyLogSet(l)
  PROVE  DurInv'
<1>0. /\ Typed /\ HistoryTyped /\ ClockInv /\ EpochsInv /\ CleanInv /\ PlacesInv /\ ReplayInv /\ EpochLoop
      /\ phase = "epoch" /\ phase' \in {"refused", "epoch"} /\ DueSets(l) # {}
      /\ UNCHANGED <<current_epoch, durable_epoch, db, logfile, tail, commits, clean>>
      /\ durable_epoch = pepoch /\ current_epoch <= durable_epoch /\ current_epoch \in Int /\ durable_epoch \in Int
      /\ ~Verified
  <2>1. /\ Typed /\ HistoryTyped /\ ClockInv /\ EpochsInv /\ CleanInv /\ PlacesInv /\ ReplayInv /\ EpochLoop
        /\ phase = "epoch" /\ DueSets(l) # {}
    BY DEF Inv, DurInv, VerifyLogSet
  <2>2. phase' \in {"refused", "epoch"}
    BY <2>1 DEF VerifyLogSet
  <2>3. UNCHANGED <<current_epoch, durable_epoch, db, logfile, tail, commits, clean>>
    BY DEF VerifyLogSet, fileVars, historyVars
  <2>4. durable_epoch = pepoch /\ current_epoch <= durable_epoch /\ current_epoch \in Int /\ durable_epoch \in Int
    BY <2>1 DEF ClockInv, EpochLoop, Reading, Typed
  <2> QED
    BY <2>1, <2>2, <2>3, <2>4 DEF Verified
<1>1. HistoryTyped' /\ OrderInv' /\ EpochsInv' /\ CleanInv' /\ InsertInv'
  BY <1>0, RecoveryHistory DEF VerifyLogSet, runVars
<1>2. ClockInv'
  BY <1>0, RecoveryClock DEF VerifyLogSet, runVars, fileVars
<1>3. CASE phase' = "refused"
  BY <1>1, <1>2, <1>3, Failed DEF DurInv
<1>4. CASE phase' = "epoch"
  <2>a. PICK a, b : a = archive[l] /\ b = archive'[l]
    OBVIOUS
  <2>i. PICK i : i = CHOOSE j \in DueSets(l) : \A h \in DueSets(l) : j <= h
    OBVIOUS
  <2>b. a \in Archives /\ a.buffered \in Seq(LogSets) /\ Len(a.buffered) \in Nat
    BY <1>0, <2>a DEF Typed, Archives
  <2>c. i \in 1 .. Len(a.buffered) /\ SetEpoch(a.buffered[i]) = current_epoch
    <3>1. DueSets(l) \in SUBSET Nat
      BY <2>a, <2>b DEF DueSets
    <3>2. i \in DueSets(l)
      BY <1>0, <2>i, <3>1, LeastExists
    <3> QED
      BY <2>a, <3>2 DEF DueSets
  <2>d. PICK s : s = a.buffered[i]
    OBVIOUS
  <2>e. /\ archive' = [archive EXCEPT ![l].prev = Plain(s), ![l].matched = @ \/ Plain(s) = tail[l],
                                      ![l].buffered = RemoveAt(@, i)]
        /\ records' = records \cup HandedOver(l)
    BY <1>4, <2>a, <2>i, <2>d DEF VerifyLogSet
  <2>f. /\ b.offset = a.offset /\ b.buffered = RemoveAt(a.buffered, i) /\ b.allRead = a.allRead
        /\ (b.matched => a.matched \/ Plain(s) = tail[l])
        /\ \A m \in Loggers : m # l => archive'[m] = archive[m]
    <3>1. b = [a EXCEPT !.prev = Plain(s), !.matched = @ \/ Plain(s) = tail[l], !.buffered = RemoveAt(@, i)]
      BY <1>0, <2>a, <2>e DEF Typed
    <3>2. \A m \in Loggers : m # l => archive'[m] = archive[m]
      BY <1>0, <2>e DEF Typed
    <3> QED
      BY <2>b, <3>1, <3>2 DEF Archives
  <2>g. \A x \in 1 .. Len(b.buffered) : \E y \in 1 .. Len(a.buffered) : b.buffered[x] = a.buffered[y]
    BY <2>b, <2>c, <2>f, RemoveAtElements
  <2>h. ASSUME NEW y \in 1 .. Len(a.buffered), y # i
        PROVE  \E x \in 1 .. Len(b.buffered) : b.buffered[x] = a.buffered[y]
    BY <2>b, <2>c, <2>f, <2>h, RemoveAtKeeps
  <2>j. ASSUME NEW m \in Loggers, NEW x, Buffered(m, x), ~(m = l /\ x = s) PROVE Buffered(m, x)'
    <3>1. CASE m # l
      BY <2>f, <2>j, <3>1 DEF Buffered
    <3>2. CASE m = l
      <4>1. PICK y \in 1 .. Len(a.buffered) : a.buffered[y] = x
        BY <2>a, <2>j, <3>2 DEF Buffered
      <4>2. y # i
        BY <2>d, <2>j, <3>2, <4>1
      <4> QED
        BY <2>a, <2>h, <3>2, <4>1, <4>2 DEF Buffered
    <3> QED
      BY <3>1, <3>2
  <2>k. ASSUME NEW x, Taken(x) PROVE Taken(x)'
    BY <2>e, <2>k DEF Taken
  <2>l. Taken(s)'
    <3>1. s \in LogSets /\ s \in ToSet(a.buffered)
      BY <2>b, <2>c, <2>d DEF ToSet
    <3>2. ASSUME NEW j \in 1 .. Len(s.recs) PROVE s.recs[j].rec \in ToSet(Plain(s))
      <4>1. Plain(s) \in Buffers /\ j \in 1 .. Len(Plain(s)) /\ Plain(s)[j] = s.recs[j].rec
        BY <3>1, PlainOf
      <4> QED
        BY <4>1 DEF ToSet, Buffers
    <3> QED
      BY <2>a, <2>e, <3>1, <3>2 DEF Taken, HandedOver
  <2>m. ASSUME clean, NEW m \in Loggers, NEW j \in 1 .. Len(logfile[m]), SetEpoch(logfile[m][j]) = current_epoch
        PROVE  Buffered(m, logfile[m][j])' \/ Taken(logfile[m][j])'
    <3>0. PICK x : x = logfile[m][j]
      OBVIOUS
    <3>1. Placed(m)
      BY <1>0, <2>m DEF PlacesInv
    <3>2. Buffered(m, x) \/ Taken(x)
      BY <1>0, <2>m, <3>0, <3>1 DEF Placed
    <3>3. Buffered(m, x)' \/ Taken(x)'
      BY <2>j, <2>k, <2>l, <3>2
    <3> QED
      BY <1>0, <3>0, <3>3
  <2>1. ASSUME clean, NEW m \in Loggers PROVE Ahead(m)' /\ Placed(m)' /\ Met(m)'
    <3>0. Ahead(m) /\ Placed(m) /\ Met(m)
      BY <1>0, <2>1 DEF PlacesInv, Reading
    <3>1. Ahead(m)'
      <4>1. CASE m = l
        <5>1. \A y \in 1 .. Len(a.buffered) : /\ current_epoch <= SetEpoch(a.buffered[y])
                                              /\ \E j \in 1 .. a.offset : a.buffered[y] = logfile[l][j]
          BY <2>a, <3>0, <4>1 DEF Ahead
        <5>2. \A y \in 1 .. Len(b.buffered) : /\ current_epoch <= SetEpoch(b.buffered[y])
                                              /\ \E j \in 1 .. b.offset : b.buffered[y] = logfile[l][j]
          <6>1. b.offset = a.offset
            BY <2>f
          <6>2. SUFFICES ASSUME NEW y \in 1 .. Len(b.buffered)
                         PROVE  /\ current_epoch <= SetEpoch(b.buffered[y])
                                /\ \E j \in 1 .. a.offset : b.buffered[y] = logfile[l][j]
            BY <6>1
          <6>3. PICK x \in 1 .. Len(a.buffered) : b.buffered[y] = a.buffered[x]
            BY <2>g
          <6>4. current_epoch <= SetEpoch(a.buffered[x]) /\ \E j \in 1 .. a.offset : a.buffered[x] = logfile[l][j]
            BY <5>1
          <6> QED
            BY <6>3, <6>4
        <5> QED
          BY <1>0, <2>a, <4>1, <5>2 DEF Ahead
      <4>2. CASE m # l
        BY <1>0, <2>f, <3>0, <4>2 DEF Ahead
      <4> QED
        BY <4>1, <4>2
    <3>2. Placed(m)'
      <4>1. archive'[m].offset = archive[m].offset
        BY <2>a, <2>f
      <4>2. ASSUME NEW j \in 1 .. Len(logfile[m]), current_epoch < SetEpoch(logfile[m][j]), j <= archive[m].offset
            PROVE  Buffered(m, logfile[m][j])'
        <5>1. PICK x : x = logfile[m][j]
          OBVIOUS
        <5>2. Buffered(m, x) /\ x # s
          BY <1>0, <2>c, <2>d, <3>0, <4>2, <5>1 DEF Placed
        <5>3. Buffered(m, x)'
          BY <2>j, <5>2
        <5> QED
          BY <1>0, <5>1, <5>3
      <4>3. \A j \in 1 .. Len(logfile[m]) : archive[m].offset < j =>
              current_epoch <= SetEpoch(logfile[m][j]) /\ current_epoch < SetEpoch(logfile[m][j])
        BY <1>0, <3>0 DEF Placed
      <4> QED
        BY <1>0, <1>4, <2>1, <2>m, <4>1, <4>2, <4>3 DEF Placed
    <3>3. Met(m)'
      <4>1. CASE m # l
        BY <1>0, <2>f, <3>0, <4>1 DEF Met
      <4>2. CASE m = l
        <5>1. Plain(s) = tail[l] => EpochOf(tail[l]) <= durable_epoch
          BY <1>0, <2>c, <2>d DEF SetEpoch
        <5> QED
          BY <1>0, <2>a, <2>f, <3>0, <4>2, <5>1 DEF Met
      <4> QED
        BY <4>1, <4>2
    <3> QED
      BY <3>1, <3>2, <3>3
  <2>2. ASSUME clean, NEW r \in records' PROVE current_epoch <= r.tid[1]
    <3>1. CASE r \in records
      BY <1>0, <2>2, <3>1 DEF PlacesInv
    <3>2. CASE r \in HandedOver(l)
      <4>1. PICK x \in ToSet(a.buffered) : r \in ToSet(Plain(x))
        BY <2>a, <3>2 DEF HandedOver
      <4>2. PICK y \in 1 .. Len(a.buffered) : x = a.buffered[y]
        BY <2>b, <4>1 DEF ToSet
      <4>3. x \in LogSets
        BY <2>b, <4>2
      <4>4. Plain(x) \in Buffers /\ Len(Plain(x)) = Len(x.recs)
        BY <4>3, PlainOf
      <4>5. PICK j \in 1 .. Len(Plain(x)) : r = Plain(x)[j]
        BY <4>1, <4>4 DEF ToSet, Buffers
      <4>6. r = x.recs[j].rec /\ j \in 1 .. Len(x.recs)
        BY <4>3, <4>4, <4>5, PlainOf
      <4>7. Ahead(l)
        BY <1>0, <2>2 DEF PlacesInv
      <4>8. PICK h \in 1 .. a.offset : x = logfile[l][h]
        BY <2>a, <4>2, <4>7 DEF Ahead
      <4>9. h \in 1 .. Len(logfile[l])
        <5>1. ReadOf(l) /\ a.offset \in Nat /\ Len(logfile[l]) \in Nat
          BY <1>0, <2>a, <2>b, EpochsAreInt DEF Inv, ReadInv, Archives
        <5> QED
          BY <2>a, <4>8, <5>1 DEF ReadOf
      <4>10. r.tid[1] = SetEpoch(x)
        BY <1>0, <4>6, <4>8, <4>9, RecordEpoch
      <4> QED
        BY <2>a, <4>2, <4>7, <4>10 DEF Ahead
    <3> QED
      BY <2>e, <3>1, <3>2
  <2>3. PlacesInv'
    BY <1>0, <1>4, <2>1, <2>2 DEF PlacesInv
  <2>4. ASSUME clean, NEW c \in commits, Passed(c)' PROVE Passed(c) /\ EpochAt(c) < current_epoch
    <3>1. CASE EpochAt(c) < current_epoch
      BY <3>1 DEF Passed
    <3>2. CASE EpochAt(c) = current_epoch /\ Verified' /\ c.rec \notin records'
      <4>1. PICK m \in Loggers : \E j \in 1 .. Len(logfile[m]) :
              /\ SetEpoch(logfile[m][j]) = EpochAt(c)
              /\ \E h \in 1 .. Len(logfile[m][j].recs) : logfile[m][j].recs[h].rec = c.rec
        BY <1>0, <2>4, <3>2, DurableIsLogged
      <4>2. PICK j \in 1 .. Len(logfile[m]) :
              /\ SetEpoch(logfile[m][j]) = EpochAt(c)
              /\ \E h \in 1 .. Len(logfile[m][j].recs) : logfile[m][j].recs[h].rec = c.rec
        BY <4>1
      <4>3. PICK x : x = logfile[m][j]
        OBVIOUS
      <4>4. ~Taken(x)'
        BY <3>2, <4>2, <4>3 DEF Taken
      <4>5. Buffered(m, x)'
        BY <1>0, <2>4, <2>m, <3>2, <4>2, <4>3, <4>4
      <4>6. DueSets(m)' # {}
        BY <1>0, <3>2, <4>2, <4>3, <4>5 DEF Buffered, DueSets
      <4> QED
        BY <3>2, <4>6 DEF Verified
    <3> QED
      BY <1>0, <2>4, <3>1, <3>2 DEF Passed, EpochAt
  <2>5. ASSUME clean PROVE ReplayInv'
    <3>1. (LogsEnd' => LogsEnd) /\ (Comparable(durable_epoch)' => Comparable(durable_epoch))
      BY <1>0 DEF LogsEnd, Comparable, EpochAt
    <3>2. ASSUME NEW k \in Keys, ReplayedTo(k) PROVE ReplayedTo(k)'
      BY <1>0, <2>4, <2>5, <3>2 DEF ReplayedTo, EpochAt, Outcome
    <3>3. ASSUME NEW p \in commits, NEW r \in records', Passed(p)' PROVE ~Less(r.tid, p.rec.tid)
      <4>1. p.rec.tid[1] < current_epoch /\ current_epoch <= r.tid[1]
        BY <2>2, <2>4, <2>5, <3>3 DEF EpochAt
      <4>2. p.rec.tid[1] \in Int
        BY <1>0 DEF HistoryTyped, LogRecs, LogTids
      <4>3. r.tid[1] \in Int
        <5>1. Inv'
          BY VerifyLogSetStep
        <5>2. records' \subseteq LogRecs
          BY <5>1 DEF Inv, Typed
        <5> QED
          BY <5>2 DEF LogRecs, LogTids
      <4> QED
        BY <1>0, <4>1, <4>2, <4>3 DEF Less
    <3> QED
      BY <1>0, <3>1, <3>2, <3>3 DEF ReplayInv, Reading
  <2> QED
    BY <1>0, <1>1, <1>2, <2>3, <2>5 DEF DurInv, ReplayInv
<1> QED
  BY <1>0, <1>3, <1>4

\* The TIDs of a key follow the order of its transactions.
LEMMA TidsFollow ==
  ASSUME HistoryTyped, OrderInv, NEW e \in Int, Comparable(e), NEW c \in commits, NEW d \in commits,
         c.rec.key = d.rec.key, c.rec.val < d.rec.val, EpochAt(d) <= e
  PROVE  Less(c.rec.tid, d.rec.tid)
<1>1. /\ c.rec.tid \in Int \X Nat /\ d.rec.tid \in Int \X Nat /\ c.session \in Int /\ d.session \in Int
      /\ c.rec.val \in Int /\ d.rec.val \in Int
  BY DEF HistoryTyped, LogRecs, LogTids, Vals
<1>2. CASE c.session < d.session
  <2>1. EpochAt(c) <= EpochAt(d)
    BY <1>2 DEF OrderInv
  <2>2. EpochAt(c) # EpochAt(d)
    BY <1>1, <1>2 DEF Comparable
  <2> QED
    BY <1>1, <2>1, <2>2 DEF EpochAt, Less
<1>3. CASE c.session = d.session
  BY <1>3 DEF OrderInv
<1>4. CASE d.session < c.session
  BY <1>1, <1>4 DEF OrderInv
<1> QED
  BY <1>1, <1>2, <1>3, <1>4

\* A record is replayed: early, again, or in its turn.
LEMMA ReplayRecordDur ==
  ASSUME Inv, DurInv, NEW r \in records, ReplayRecord(r)
  PROVE  DurInv'
<1>0. /\ Typed /\ HistoryTyped /\ OrderInv /\ ClockInv /\ EpochsInv /\ CleanInv /\ PlacesInv /\ InsertInv /\ ReplayInv
      /\ EpochLoop /\ Replayed /\ Verified /\ phase = "epoch" /\ NextByTid(r) /\ records' = records \ {r}
      /\ UNCHANGED <<current_epoch, durable_epoch, archive, logfile, tail, commits, clean>>
  BY DEF Inv, ReadInv, DurInv, ReplayRecord, Verified, fileVars, historyVars
<1>a. /\ durable_epoch = pepoch /\ current_epoch <= durable_epoch /\ current_epoch \in Int /\ durable_epoch \in Int
      /\ r \in LogRecs /\ r.key \in Keys /\ r.tid \in Int \X Nat
  BY <1>0 DEF ClockInv, EpochLoop, Reading, Typed, LogRecs, LogTids
<1>b. phase' \in {"died", "epoch"}
  BY <1>0 DEF ReplayRecord
<1>1. HistoryTyped' /\ OrderInv' /\ EpochsInv' /\ CleanInv' /\ InsertInv'
  BY <1>0, <1>b, RecoveryHistory DEF ReplayRecord, runVars
<1>2. ClockInv'
  BY <1>0, <1>a, <1>b, RecoveryClock DEF ReplayRecord, runVars, fileVars
<1>3. CASE phase' = "died"
  BY <1>1, <1>2, <1>3, Failed DEF DurInv
<1>4. CASE phase' = "epoch"
  <2>0. Verified'
    BY <1>0, <1>4 DEF Verified, DueSets
  <2>1. PlacesInv'
    <3>1. ASSUME clean, NEW l \in Loggers PROVE Ahead(l)' /\ Placed(l)' /\ Met(l)'
      <4>0. Ahead(l) /\ Placed(l) /\ Met(l)
        BY <1>0, <3>1 DEF PlacesInv, Reading
      <4>1. Ahead(l)' /\ Met(l)'
        BY <1>0, <4>0 DEF Ahead, Met
      <4>2. Placed(l)'
        BY <1>0, <1>4, <2>0, <4>0 DEF Placed, Buffered
      <4> QED
        BY <4>1, <4>2
    <3>2. clean => \A x \in records' : current_epoch <= x.tid[1]
      BY <1>0 DEF PlacesInv
    <3> QED
      BY <1>0, <1>4, <3>1, <3>2 DEF PlacesInv
  <2>2. ASSUME clean, LogsEnd, Comparable(durable_epoch)
        PROVE  /\ \A k \in Keys : ReplayedTo(k)'
               /\ \A p \in commits, x \in records' : Passed(p)' => ~Less(x.tid, p.rec.tid)
    <3>0. /\ \A k \in Keys : ReplayedTo(k)
          /\ \A p \in commits, x \in records : Passed(p) => ~Less(x.tid, p.rec.tid)
      BY <1>0, <2>2 DEF ReplayInv, Reading
    <3>1. PICK d \in commits : d.rec = r /\ EpochAt(d) <= durable_epoch
      <4>1. PICK l \in Loggers : \E i \in 1 .. Len(logfile[l]) : IsIn(r, logfile[l][i])
        BY <1>0 DEF Replayed, Logged
      <4>2. PICK i \in 1 .. Len(logfile[l]) : \E j \in 1 .. Len(logfile[l][i].recs) : logfile[l][i].recs[j].rec = r
        BY <4>1 DEF IsIn
      <4>3. PICK j \in 1 .. Len(logfile[l][i].recs) : logfile[l][i].recs[j].rec = r
        BY <4>2
      <4>4. Made(r)
        BY <1>0, <2>2, <4>3 DEF CleanInv, FilesOf, MadeOnly
      <4>5. r.tid[1] <= durable_epoch
        BY <1>0, <2>2, <4>3, RecordEpoch DEF LogsEnd
      <4> QED
        BY <4>4, <4>5 DEF Made, EpochAt
    <3>t. ASSUME NEW c \in commits
          PROVE  /\ EpochAt(c) \in Int /\ c.rec.val \in Int /\ c.rec.val # Absent /\ c.rec.tid \in Int \X Nat
                 /\ c.rec.op \in Ops /\ c.rec.key \in Keys
                 /\ \A p \in commits : p.rec.val = c.rec.val => p = c
      BY <1>0 DEF HistoryTyped, LogRecs, LogTids, Vals, EpochAt, Absent
    <3>2. ASSUME NEW p \in commits, Passed(p)' PROVE Passed(p) \/ p = d
      BY <1>0, <3>1, <3>2, <3>t DEF Passed, EpochAt
    <3>3. ASSUME NEW p \in commits, p.rec.key = r.key, Passed(p)' PROVE p.rec.val <= d.rec.val
      <4>1. CASE p = d
        BY <3>t, <4>1
      <4>2. CASE Passed(p)
        <5>1. ~Less(d.rec.tid, p.rec.tid)
          BY <3>0, <3>1, <4>2
        <5>2. EpochAt(p) <= durable_epoch
          BY <1>a, <3>t, <4>2 DEF Passed
        <5>3. ~(d.rec.val < p.rec.val)
          BY <1>0, <1>a, <2>2, <3>1, <3>3, <5>1, <5>2, TidsFollow
        <5> QED
          BY <3>t, <5>3
      <4> QED
        BY <3>2, <3>3, <4>1, <4>2
    <3>4. ASSUME db'[r.key] = Outcome(d) PROVE ReplayedTo(r.key)'
      <4>1. d \in commits' /\ d.rec.key = r.key /\ EpochAt(d)' = EpochAt(d) /\ Outcome(d)' = Outcome(d)
        BY <1>0, <3>1 DEF EpochAt, Outcome
      <4>2. EpochAt(d)' <= durable_epoch'
        BY <1>0, <3>1, <4>1
      <4>3. \A p \in commits' : p.rec.key = r.key /\ Passed(p)' => p.rec.val <= d.rec.val
        BY <1>0, <3>3
      <4>4. db'[r.key] = Outcome(d)'
        BY <3>4, <4>1
      <4> QED
        BY <1>0, <4>1, <4>2, <4>3, <4>4 DEF ReplayedTo
    <3>5. ASSUME NEW k \in Keys, db'[k] = db[k], k # r.key PROVE ReplayedTo(k)'
      <4>1. \A p \in commits : p.rec.key = k /\ Passed(p)' => Passed(p)
        BY <3>1, <3>2, <3>5
      <4>2. ReplayedTo(k)
        BY <3>0
      <4> QED
        BY <1>0, <3>5, <4>1, <4>2 DEF ReplayedTo, EpochAt, Outcome
    <3>6. ASSUME r.op = "INSERT", db[r.key] # Absent, db' = db PROVE ReplayedTo(r.key)'
      <4>1. PICK c \in commits : /\ c.rec.key = r.key /\ EpochAt(c) <= durable_epoch /\ db[r.key] = Outcome(c)
                                 /\ \A p \in commits : p.rec.key = r.key /\ Passed(p) => p.rec.val <= c.rec.val
        BY <1>a, <3>0, <3>6 DEF ReplayedTo
      <4>2. c.rec.op # "DELETE"
        BY <3>6, <4>1 DEF Outcome
      <4>3. ASSUME Passed(d)' PROVE d.rec.val <= c.rec.val
        <5>1. CASE Passed(d)
          BY <3>1, <4>1, <5>1
        <5>2. CASE ~Passed(d)
          <6>1. EpochAt(d) = current_epoch
            BY <1>0, <4>3, <5>2 DEF Passed, EpochAt
          <6>2. SUFFICES ASSUME c.rec.val < d.rec.val PROVE FALSE
            BY <3>t
          <6>3. Comparable(EpochAt(d))
            BY <2>2, <1>a, <3>1, <3>t, <6>1 DEF Comparable
          <6>4. DeletedFrom(d.rec.key, c.rec.val, d.rec.val)
            BY <1>0, <2>2, <3>1, <3>6, <4>1, <6>2, <6>3 DEF InsertInv
          <6>5. PICK p \in commits : /\ p.rec.key = r.key /\ p.rec.op = "DELETE" /\ c.rec.val <= p.rec.val
                                     /\ p.rec.val < d.rec.val
            BY <3>1, <6>4 DEF DeletedFrom
          <6>6. c.rec.val < p.rec.val
            BY <3>t, <4>2, <6>5
          <6>7. ~Passed(p)
            BY <3>t, <4>1, <6>5, <6>6
          <6>8. Less(p.rec.tid, d.rec.tid)
            BY <1>0, <1>a, <2>2, <3>1, <6>5, TidsFollow
          <6>9. EpochAt(p) <= EpochAt(d)
            BY <3>t, <6>8, LessChain DEF EpochAt
          <6>10. EpochAt(p) = current_epoch /\ p.rec \in records
            BY <1>0, <1>a, <3>t, <6>1, <6>7, <6>9 DEF Passed
          <6>11. ~Less(p.rec.tid, r.tid)
            BY <1>0, <6>10 DEF NextByTid
          <6> QED
            BY <3>1, <6>8, <6>11
        <5> QED
          BY <5>1, <5>2
      <4>4. \A p \in commits : p.rec.key = r.key /\ Passed(p)' => p.rec.val <= c.rec.val
        BY <3>2, <4>1, <4>3
      <4> QED
        BY <1>0, <3>6, <4>1, <4>4 DEF ReplayedTo, EpochAt, Outcome
    <3>7. \A k \in Keys : ReplayedTo(k)'
      <4>0. r.op \in Ops /\ Outcome(d) = IF r.op = "DELETE" THEN Absent ELSE r.val
        BY <1>a, <3>1 DEF LogRecs, Outcome
      <4>1. CASE r.op = "INSERT" /\ db[r.key] # Absent
        <5>1. db' = db
          BY <1>a, <4>1 DEF ReplayRecord
        <5> QED
          BY <3>5, <3>6, <4>1, <5>1
      <4>2. CASE ~(r.op = "INSERT" /\ db[r.key] # Absent)
        <5>1. db' = [db EXCEPT ![r.key] = Outcome(d)]
          <6>1. CASE r.op = "INSERT"
            BY <4>0, <4>2, <6>1 DEF ReplayRecord
          <6>2. CASE r.op = "WRITE"
            <7>1. db[r.key] # Absent
              BY <1>4, <6>2 DEF ReplayRecord
            <7> QED
              BY <4>0, <6>2, <7>1 DEF ReplayRecord
          <6>3. CASE r.op = "DELETE"
            BY <4>0, <6>3 DEF ReplayRecord
          <6> QED
            BY <4>0, <6>1, <6>2, <6>3 DEF Ops
        <5>2. db'[r.key] = Outcome(d) /\ \A k \in Keys : k # r.key => db'[k] = db[k]
          BY <1>0, <1>a, <5>1 DEF Typed
        <5> QED
          BY <3>4, <3>5, <5>2
      <4> QED
        BY <4>1, <4>2
    <3>8. ASSUME NEW p \in commits, NEW x \in records', Passed(p)' PROVE ~Less(x.tid, p.rec.tid)
      BY <1>0, <3>0, <3>1, <3>2, <3>8 DEF NextByTid
    <3> QED
      BY <3>7, <3>8
  <2>3. (LogsEnd' => LogsEnd) /\ (Comparable(durable_epoch)' => Comparable(durable_epoch))
    BY <1>0 DEF LogsEnd, Comparable, EpochAt
  <2>4. ReplayInv'
    BY <1>0, <2>2, <2>3 DEF ReplayInv
  <2> QED
    BY <1>1, <1>2, <2>1, <2>4 DEF DurInv
<1> QED
  BY <1>b, <1>3, <1>4

-----------------------------------------------------------------------------
(* Recovery rebuilds the durable state: the theorem                        *)

\* A new directory.
LEMMA InitDur ==
  ASSUME Init
  PROVE  DurInv
<1>1. HistoryTyped /\ OrderInv /\ ClockInv
  BY RecoveryAssumption DEF Init, HistoryTyped, OrderInv, ClockInv, StartEpoch, Reading
<1>2. EpochsInv
  BY DEF Init, EpochsInv, OneEpoch
<1>3. CleanInv
  BY DEF Init, CleanInv, FilesOf, InOrder, UpToNow, MadeOnly, TailIsLast
<1>4. PlacesInv /\ InsertInv /\ ReplayInv
  BY DEF Init, PlacesInv, InsertInv, ReplayInv, Reading
<1> QED
  BY <1>1, <1>2, <1>3, <1>4 DEF DurInv

\* A state that does not change.
LEMMA StutterDur ==
  ASSUME DurInv, UNCHANGED vars
  PROVE  DurInv'
<1>0. UNCHANGED <<phase, GlobalEpoch, ThLocalEpoch, DurableEpoch, tidword, mrctid, buffer, queue, prevHash,
                  logfile, tail, pepoch, current_epoch, durable_epoch, archive, records, db,
                  commits, made, crashes, clean>>
  BY DEF vars, runVars, fileVars, recoveryVars, historyVars
<1>1. HistoryTyped' /\ OrderInv' /\ InsertInv'
  BY <1>0, SameHistory DEF DurInv, historyVars
<1>2. ClockInv'
  BY <1>0 DEF DurInv, ClockInv, StartEpoch, Reading
<1>3. EpochsInv'
  BY <1>0 DEF DurInv, EpochsInv
<1>4. CleanInv'
  <2>1. ASSUME NEW l \in Loggers, FilesOf(l) PROVE FilesOf(l)'
    <3>1. Reached(l)' = Reached(l)
      BY <1>0 DEF Reached, StartEpoch
    <3> QED
      BY <1>0, <2>1, <3>1, SameFiles DEF FilesOf
  <2>2. \A r : Logged(r)' <=> Logged(r)
    BY <1>0 DEF Logged
  <2> QED
    BY <1>0, <2>1, <2>2 DEF DurInv, CleanInv, EpochAt
<1>5. Verified' <=> Verified
  BY <1>0 DEF Verified, DueSets
<1>6. PlacesInv'
  <2>1. ASSUME NEW l \in Loggers
        PROVE  /\ (Ahead(l) => Ahead(l)') /\ (Met(l) => Met(l)')
               /\ Placed(l) => Placed(l)'
    <3>1. (Ahead(l) => Ahead(l)') /\ (Met(l) => Met(l)')
      BY <1>0 DEF Ahead, Met
    <3>2. \A s : (Buffered(l, s)' <=> Buffered(l, s)) /\ (Taken(s)' <=> Taken(s))
      BY <1>0 DEF Buffered, Taken
    <3> QED
      BY <1>0, <1>5, <3>1, <3>2 DEF Placed
  <2> QED
    BY <1>0, <2>1 DEF DurInv, PlacesInv, Reading, LogsEnd
<1>7. ReplayInv'
  <2>1. CASE Reading
    <3>1. \A c \in commits : Passed(c)' => Passed(c)
      BY <1>0, <1>5 DEF Passed, EpochAt
    <3> QED
      BY <1>0, <1>5, <2>1, <3>1, SameReplay DEF DurInv
  <2>2. CASE ~Reading
    BY <1>0, <2>2 DEF ReplayInv, Reading
  <2> QED
    BY <2>1, <2>2
<1> QED
  BY <1>1, <1>2, <1>3, <1>4, <1>6, <1>7 DEF DurInv

\* The history, the files and the replay stay in step, in every session and through
\* every crash.
THEOREM DurableInvariance == Spec => [](Inv /\ DurInv)
<1>1. Init => Inv /\ DurInv
  BY InitInv, InitDur
<1>2. ASSUME Inv, DurInv, [Next]_vars PROVE DurInv'
  <2>1. CASE EpochAdvance
    BY <1>2, <2>1, EpochAdvanceDur
  <2>2. CASE \E l \in Loggers : EpochWork(l)
    BY <1>2, <2>2, EpochWorkDur
  <2>3. CASE \E l \in Loggers, op \in Ops, k \in Keys, e \in 1 .. MaxEpoch : Commit(l, op, k, e)
    BY <1>2, <2>3, CommitDur
  <2>4. CASE \E l \in Loggers : Publish(l)
    BY <1>2, <2>4, PublishDur
  <2>5. CASE \E l \in Loggers : WriteLog(l)
    BY <1>2, <2>5, WriteLogDur
  <2>6. CASE \E l \in Loggers : WriteTail(l)
    BY <1>2, <2>6, WriteTailDur
  <2>7. CASE \E d \in 1 .. MaxEpoch : WritePepoch(d)
    BY <1>2, <2>7, WritePepochDur
  <2>8. CASE Crash
    BY <1>2, <2>8, CrashDur
  <2>9. CASE RecoveryStep
    <3>1. CASE OpenFiles
      BY <1>2, <3>1, OpenFilesDur
    <3>2. CASE \E l \in Loggers : ReadLogSet(l)
      BY <1>2, <3>2, ReadLogSetDur
    <3>3. CASE ReadDone
      BY <1>2, <3>3, ReadDoneDur
    <3>4. CASE \E l \in Loggers : VerifyLogSet(l)
      BY <1>2, <3>4, VerifyLogSetDur
    <3>5. CASE \E r \in records : ReplayRecord(r)
      BY <1>2, <3>5, ReplayRecordDur
    <3>6. CASE NextEpoch
      BY <1>2, <3>6, NextEpochDur
    <3>7. CASE CheckTails
      BY <1>2, <3>7, CheckTailsDur
    <3> QED
      BY <2>9, <3>1, <3>2, <3>3, <3>4, <3>5, <3>6, <3>7 DEF RecoveryStep
  <2>10. CASE Restart
    BY <1>2, <2>10, RestartDur
  <2>11. CASE Stopped \/ UNCHANGED vars
    BY <1>2, <2>11, StutterDur DEF Stopped
  <2> QED
    BY <1>2, <2>1, <2>2, <2>3, <2>4, <2>5, <2>6, <2>7, <2>8, <2>9, <2>10, <2>11 DEF Next
<1>3. Spec => []Inv
  BY Invariance
<1> QED
  BY <1>1, <1>2, <1>3, PTL DEF Spec

\* The last transaction of each key up to the durable epoch decides.
LEMMA DurableState ==
  ASSUME Inv, DurInv
  PROVE  RecoveredIsDurableState
<1>1. SUFFICES ASSUME phase = "recovered", clean, TidsComparable
               PROVE  db = Effect({c \in commits : c.rec.tid[1] <= durable_epoch})
  BY DEF RecoveredIsDurableState
<1>2. Typed /\ HistoryTyped /\ durable_epoch \in Int /\ current_epoch = durable_epoch + 1
  BY <1>1 DEF Inv, DurInv, ClockInv, Typed
<1>3. \A k \in Keys : ReplayedTo(k)
  <2>1. Comparable(durable_epoch)
    BY <1>1 DEF TidsComparable, Comparable, EpochAt
  <2>2. LogsEnd
    BY <1>1 DEF DurInv, PlacesInv
  <2> QED
    BY <1>1, <2>1, <2>2 DEF DurInv, ReplayInv, Reading
<1>4. PICK D : D = {c \in commits : c.rec.tid[1] <= durable_epoch}
  OBVIOUS
<1>5. ASSUME NEW c \in commits PROVE c \in D => Passed(c)
  BY <1>2, <1>4 DEF Passed, EpochAt, HistoryTyped, LogRecs, LogTids
<1>6. ASSUME NEW k \in Keys
      PROVE  db[k] = LET own == {c \in D : c.rec.key = k} IN IF own = {} THEN Absent ELSE Outcome(LastOf(own))
  <2>1. PICK own : own = {c \in D : c.rec.key = k}
    OBVIOUS
  <2>2. CASE own = {}
    BY <1>3, <1>4, <2>1, <2>2 DEF ReplayedTo, EpochAt
  <2>3. CASE own # {}
    <3>1. PICK c \in commits : /\ c.rec.key = k /\ EpochAt(c) <= durable_epoch /\ db[k] = Outcome(c)
                               /\ \A p \in commits : p.rec.key = k /\ Passed(p) => p.rec.val <= c.rec.val
      BY <1>3, <1>4, <1>5, <2>1, <2>3 DEF ReplayedTo
    <3>2. c \in own /\ \A p \in own : p.rec.val <= c.rec.val
      BY <1>4, <1>5, <2>1, <3>1 DEF EpochAt
    <3>3. ASSUME NEW x \in own, \A p \in own : p.rec.val <= x.rec.val PROVE x = c
      <4>1. x \in commits /\ x.rec.val \in Int /\ c.rec.val \in Int
        BY <1>2, <1>4, <2>1 DEF HistoryTyped, LogRecs, Vals
      <4>2. x.rec.val = c.rec.val
        BY <3>2, <3>3, <4>1
      <4> QED
        BY <1>2, <4>1, <4>2 DEF HistoryTyped
    <3>4. LastOf(own) = c
      BY <3>2, <3>3 DEF LastOf
    <3> QED
      BY <2>1, <2>3, <3>1, <3>4
  <2> QED
    BY <2>2, <2>3
<1>7. db \in [Keys -> Vals]
  BY <1>2 DEF Typed
<1> QED
  BY <1>4, <1>6, <1>7 DEF Effect

\* Recovery that reports success has rebuilt exactly the transactions up to the durable
\* epoch, for any number of loggers, keys, epochs, transactions and crashes, if every
\* crash was Quiet and the TIDs of a key can be compared, although sets are handed over
\* early, records are replayed more than once and the logs are merged by TID
\* (verify_epoch_level_integrity, execute_recovery).
THEOREM RecoveryRebuilds == Spec => []RecoveredIsDurableState
BY DurableInvariance, DurableState, PTL

-----------------------------------------------------------------------------
(* Logs that a quiet session left are accepted: the inductive invariant    *)

\* Everything in q is of an earlier transaction than everything in p.
Before(q, p) == \A i \in 1 .. Len(q), j \in 1 .. Len(p) : q[i].val < p[j].val

\* What goes to a log file is of its worker's transactions, in their order.
Written(l, r) == \E c \in commits : c.rec = r /\ c.log = l
Pending(l, r) == \E c \in commits : c.rec = r /\ c.log = l /\ c.session = crashes
FromWorker(l) ==
  /\ \A i \in 1 .. Len(buffer[l]) : Pending(l, buffer[l][i])
  /\ \A i \in 1 .. Len(queue[l]) : \A j \in 1 .. Len(queue[l][i]) : Pending(l, queue[l][i][j])
  /\ \A i \in 1 .. Len(logfile[l]) :
       \A j \in 1 .. Len(logfile[l][i].recs) : Written(l, logfile[l][i].recs[j].rec)
Rising(l) ==
  /\ \A i, j \in 1 .. Len(logfile[l]) : i < j => Before(Plain(logfile[l][i]), Plain(logfile[l][j]))
  /\ \A i \in 1 .. Len(logfile[l]), j \in 1 .. Len(queue[l]) : Before(Plain(logfile[l][i]), queue[l][j])
  /\ \A i, j \in 1 .. Len(queue[l]) : i < j => Before(queue[l][i], queue[l][j])
  /\ \A i \in 1 .. Len(logfile[l]) : Before(Plain(logfile[l][i]), buffer[l])
  /\ \A i \in 1 .. Len(queue[l]) : Before(queue[l][i], buffer[l])

\* A set that does not follow the one before it is of a later session.
NewSession(l, i) ==
  \E c, d \in commits :
    /\ c.log = l /\ d.log = l /\ c.session < d.session
    /\ IsIn(c.rec, logfile[l][i - 1]) /\ IsIn(d.rec, logfile[l][i])
Linked(l) ==
  \A i \in 2 .. Len(logfile[l]) :
    logfile[l][i].prev = Plain(logfile[l][i - 1]) \/ NewSession(l, i)
OldSets(l) ==
  phase = "run" /\ prevHash[l] = PASSPHRASE =>
    \A i \in 1 .. Len(logfile[l]), c \in commits :
      IsIn(c.rec, logfile[l][i]) => c.session < crashes

WorkerInv == clean => \A l \in Loggers : FromWorker(l) /\ Rising(l) /\ Linked(l) /\ OldSets(l)

\* A key was inserted before anything else was done with it.
Inserted(k, w) == \E p \in commits : p.rec.key = k /\ p.rec.op = "INSERT" /\ p.rec.val < w
FirstInv ==
  clean =>
    /\ \A d \in commits : d.rec.op # "INSERT" => Inserted(d.rec.key, d.rec.val)
    /\ phase = "run" => \A k \in Keys : tidword[k] # NoValue => Inserted(k, made + 1)

\* The logs that have to be accepted.
Acceptable ==
  /\ clean /\ crashes > 0 /\ pepoch > 0
  /\ \A c \in commits : c.rec.tid[1] <= pepoch /\ c.rec.op # "DELETE"
  /\ KeyInOneLog /\ LogOfOneSession

\* An archive has in its buffer what it has read and not verified, in order, and has met
\* the tail hash with the last set.
VerifiedTo(l) == archive[l].offset - Len(archive[l].buffered)
InStep(l) ==
  /\ VerifiedTo(l) \in 0 .. Len(logfile[l])
  /\ \A i \in 1 .. Len(archive[l].buffered) : archive[l].buffered[i] = logfile[l][VerifiedTo(l) + i]
  /\ archive[l].prev = IF VerifiedTo(l) = 0 THEN PASSPHRASE ELSE Plain(logfile[l][VerifiedTo(l)])
  /\ archive[l].matched <=> VerifiedTo(l) = Len(logfile[l])

\* Nothing is replayed without what its worker did with the key before.
WithEarlier ==
  \A c, d \in commits :
    /\ d.rec \in records /\ c.rec.key = d.rec.key /\ c.rec.val < d.rec.val
    => c.rec \in records \/ db[c.rec.key] # Absent

AcceptInv ==
  Acceptable /\ phase # "run" =>
    /\ phase \notin {"refused", "died"}
    /\ phase \in {"read", "epoch"} => \A l \in Loggers : InStep(l)
    /\ phase = "check" => \A l \in Loggers : archive[l].matched
    /\ phase = "epoch" => WithEarlier

AcceptedInv == WorkerInv /\ FirstInv /\ AcceptInv

-----------------------------------------------------------------------------
(* The workers and their log files                                         *)

\* The steps that touch neither the history nor what goes to the files.
LEMMA SameWorker ==
  ASSUME WorkerInv, FirstInv, phase' = "run" => phase = "run" /\ tidword' = tidword,
         UNCHANGED <<buffer, queue, logfile, prevHash, historyVars>>
  PROVE  WorkerInv' /\ FirstInv'
<1>0. UNCHANGED <<commits, made, crashes, clean>>
  BY DEF historyVars
<1>1. ASSUME NEW l \in Loggers
      PROVE  /\ (FromWorker(l) => FromWorker(l)') /\ (Rising(l) => Rising(l)')
             /\ (Linked(l) => Linked(l)') /\ (OldSets(l) => OldSets(l)')
  <2>1. FromWorker(l) => FromWorker(l)'
    BY <1>0 DEF FromWorker, Pending, Written
  <2>2. Rising(l) => Rising(l)'
    BY DEF Rising
  <2>3. Linked(l) => Linked(l)'
    BY <1>0 DEF Linked, NewSession
  <2>4. OldSets(l) => OldSets(l)'
    BY <1>0 DEF OldSets
  <2> QED
    BY <2>1, <2>2, <2>3, <2>4
<1>2. WorkerInv'
  BY <1>0, <1>1 DEF WorkerInv
<1>3. \A k, w : Inserted(k, w)' <=> Inserted(k, w)
  BY <1>0 DEF Inserted
<1>4. FirstInv'
  BY <1>0, <1>3 DEF FirstInv
<1> QED
  BY <1>2, <1>4

\* A server that runs accepts nothing.
LEMMA RunAccepts ==
  ASSUME phase' = "run"
  PROVE  AcceptInv'
BY DEF AcceptInv

\* The records of two buffers, one after the other.
LEMMA PublishAcc ==
  ASSUME Inv, DurInv, AcceptedInv, NEW l \in Loggers, Publish(l)
  PROVE  AcceptedInv'
<1>0. /\ Typed /\ WorkerInv /\ FirstInv /\ phase = "run" /\ phase' = "run"
      /\ UNCHANGED <<tidword, prevHash, logfile, commits, made, crashes, clean>>
  BY DEF Inv, AcceptedInv, Publish, fileVars, historyVars
<1>a. PICK q, b, p : q = queue[l] /\ b = buffer[l] /\ p = queue'[l]
  OBVIOUS
<1>b. /\ q \in Seq(Buffers \ {<<>>}) /\ b \in Buffers /\ b # <<>> /\ Len(q) \in Nat
      /\ p = Append(q, b) /\ buffer'[l] = <<>>
      /\ \A m \in Loggers : m # l => queue'[m] = queue[m] /\ buffer'[m] = buffer[m]
  BY <1>0, <1>a DEF Typed, Publish
<1>c. Len(p) = Len(q) + 1 /\ p[Len(q) + 1] = b /\ \A i \in 1 .. Len(q) : p[i] = q[i]
  BY <1>b
<1>1. ASSUME clean, NEW m \in Loggers
      PROVE  FromWorker(m)' /\ Rising(m)' /\ Linked(m)' /\ OldSets(m)'
  <2>0. FromWorker(m) /\ Rising(m) /\ Linked(m) /\ OldSets(m)
    BY <1>0, <1>1 DEF WorkerInv
  <2>1. Linked(m)' /\ OldSets(m)'
    BY <1>0, <2>0 DEF Linked, NewSession, OldSets
  <2>2. \A r : (Pending(m, r)' <=> Pending(m, r)) /\ (Written(m, r)' <=> Written(m, r))
    BY <1>0 DEF Pending, Written
  <2>3. CASE m # l
    <3>1. queue'[m] = queue[m] /\ buffer'[m] = buffer[m]
      BY <1>b, <2>3
    <3>2. FromWorker(m)'
      BY <1>0, <2>0, <2>2, <3>1 DEF FromWorker
    <3>3. Rising(m)'
      BY <1>0, <2>0, <3>1 DEF Rising
    <3> QED
      BY <2>1, <3>2, <3>3
  <2>4. CASE m = l
    <3>1. FromWorker(l)'
      <4>1. \A i \in 1 .. Len(p) : \A j \in 1 .. Len(p[i]) : Pending(l, p[i][j])
        BY <1>a, <1>b, <1>c, <2>0, <2>4 DEF FromWorker
      <4> QED
        BY <1>0, <1>a, <1>b, <2>0, <2>2, <2>4, <4>1 DEF FromWorker
    <3>2. Rising(l)'
      <4>0. /\ \A i \in 1 .. Len(logfile[l]), j \in 1 .. Len(q) : Before(Plain(logfile[l][i]), q[j])
            /\ \A i, j \in 1 .. Len(q) : i < j => Before(q[i], q[j])
            /\ \A i \in 1 .. Len(logfile[l]) : Before(Plain(logfile[l][i]), b)
            /\ \A i \in 1 .. Len(q) : Before(q[i], b)
        BY <1>a, <2>0, <2>4 DEF Rising
      <4>1. \A i \in 1 .. Len(logfile[l]), j \in 1 .. Len(p) : Before(Plain(logfile[l][i]), p[j])
        BY <1>b, <1>c, <4>0
      <4>2. \A i, j \in 1 .. Len(p) : i < j => Before(p[i], p[j])
        BY <1>b, <1>c, <4>0
      <4>3. \A x : Before(x, <<>>)
        BY DEF Before
      <4> QED
        BY <1>0, <1>a, <1>b, <2>0, <2>4, <4>1, <4>2, <4>3 DEF Rising
    <3> QED
      BY <2>1, <2>4, <3>1, <3>2
  <2> QED
    BY <2>3, <2>4
<1>2. WorkerInv'
  BY <1>0, <1>1 DEF WorkerInv
<1>3. FirstInv'
  <2>1. \A k, w : Inserted(k, w)' <=> Inserted(k, w)
    BY <1>0 DEF Inserted
  <2> QED
    BY <1>0, <2>1 DEF FirstInv
<1> QED
  BY <1>0, <1>2, <1>3, RunAccepts DEF AcceptedInv

\* A set that is written follows the last one, or is the first of its session.
LEMMA WriteLogAcc ==
  ASSUME Inv, DurInv, AcceptedInv, NEW l \in Loggers, WriteLog(l)
  PROVE  AcceptedInv'
<1>0. /\ Typed /\ FileInv /\ WorkerInv /\ FirstInv /\ HistoryTyped /\ phase = "run" /\ phase' = "run"
      /\ UNCHANGED <<tidword, buffer, commits, made, crashes, clean>>
  BY DEF Inv, DurInv, AcceptedInv, WriteLog, historyVars
<1>a. PICK q, f, p, g : q = queue[l] /\ f = logfile[l] /\ p = queue'[l] /\ g = logfile'[l]
  OBVIOUS
<1>s. PICK s \in LogSets : /\ s.prev = prevHash[l] /\ Plain(s) = Head(queue[l])
                           /\ logfile' = [logfile EXCEPT ![l] = Append(@, s)]
  BY WrittenSet
<1>b. /\ q \in Seq(Buffers \ {<<>>}) /\ q # <<>> /\ p = Tail(q) /\ Len(q) \in Nat \ {0}
      /\ f \in Seq(LogSets) /\ g = Append(f, s) /\ Len(f) \in Nat
      /\ \A m \in Loggers : m # l => queue'[m] = queue[m] /\ logfile'[m] = logfile[m] /\ prevHash'[m] = prevHash[m]
      /\ prevHash'[l] = Head(q)
  BY <1>0, <1>a, <1>s DEF Typed, WriteLog
<1>c. /\ Len(g) = Len(f) + 1 /\ g[Len(f) + 1] = s /\ \A i \in 1 .. Len(f) : g[i] = f[i]
      /\ Len(p) = Len(q) - 1 /\ \A i \in 1 .. Len(p) : p[i] = q[i + 1]
      /\ Head(q) = q[1] /\ 1 \in 1 .. Len(q) /\ \A i \in 1 .. Len(p) : i + 1 \in 1 .. Len(q) /\ 1 < i + 1
  BY <1>b
<1>d. Plain(s) = q[1] /\ q[1] # <<>> /\ Len(s.recs) = Len(q[1]) /\ \A j \in 1 .. Len(s.recs) : s.recs[j].rec = q[1][j]
  BY <1>a, <1>s, <1>c, PlainOf
<1>1. ASSUME clean, NEW m \in Loggers
      PROVE  FromWorker(m)' /\ Rising(m)' /\ Linked(m)' /\ OldSets(m)'
  <2>0. FromWorker(m) /\ Rising(m) /\ Linked(m) /\ OldSets(m)
    BY <1>0, <1>1 DEF WorkerInv
  <2>2. \A r : (Pending(m, r)' <=> Pending(m, r)) /\ (Written(m, r)' <=> Written(m, r))
    BY <1>0 DEF Pending, Written
  <2>3. CASE m # l
    <3>0. queue'[m] = queue[m] /\ logfile'[m] = logfile[m] /\ prevHash'[m] = prevHash[m]
      BY <1>b, <2>3
    <3>1. Linked(m)' /\ OldSets(m)'
      BY <1>0, <2>0, <3>0 DEF Linked, NewSession, OldSets
    <3>2. FromWorker(m)'
      BY <1>0, <2>0, <2>2, <3>0 DEF FromWorker
    <3>3. Rising(m)'
      BY <1>0, <2>0, <3>0 DEF Rising
    <3> QED
      BY <3>1, <3>2, <3>3
  <2>4. CASE m = l
    <3>0. /\ \A i \in 1 .. Len(q) : \A j \in 1 .. Len(q[i]) : Pending(l, q[i][j])
          /\ \A i \in 1 .. Len(f) : \A j \in 1 .. Len(f[i].recs) : Written(l, f[i].recs[j].rec)
      BY <1>a, <2>0, <2>4 DEF FromWorker
    <3>1. FromWorker(l)'
      <4>1. \A i \in 1 .. Len(p) : \A j \in 1 .. Len(p[i]) : Pending(l, p[i][j])
        BY <1>c, <3>0
      <4>2. \A j \in 1 .. Len(s.recs) : Written(l, s.recs[j].rec)
        <5>1. \A r : Pending(l, r) => Written(l, r)
          BY DEF Pending, Written
        <5>2. \A j \in 1 .. Len(q[1]) : Pending(l, q[1][j])
          BY <1>c, <3>0
        <5> QED
          BY <1>d, <5>1, <5>2
      <4>3. \A i \in 1 .. Len(g) : \A j \in 1 .. Len(g[i].recs) : Written(l, g[i].recs[j].rec)
        BY <1>b, <1>c, <3>0, <4>2
      <4> QED
        BY <1>0, <1>a, <2>0, <2>2, <2>4, <4>1, <4>3 DEF FromWorker
    <3>2. Rising(l)'
      <4>0. /\ \A i, j \in 1 .. Len(f) : i < j => Before(Plain(f[i]), Plain(f[j]))
            /\ \A i \in 1 .. Len(f), j \in 1 .. Len(q) : Before(Plain(f[i]), q[j])
            /\ \A i, j \in 1 .. Len(q) : i < j => Before(q[i], q[j])
            /\ \A i \in 1 .. Len(f) : Before(Plain(f[i]), buffer[l])
            /\ \A i \in 1 .. Len(q) : Before(q[i], buffer[l])
        BY <1>a, <2>0, <2>4 DEF Rising
      <4>1. \A i, j \in 1 .. Len(g) : i < j => Before(Plain(g[i]), Plain(g[j]))
        BY <1>b, <1>c, <1>d, <4>0
      <4>2. \A i \in 1 .. Len(g), j \in 1 .. Len(p) : Before(Plain(g[i]), p[j])
        BY <1>b, <1>c, <1>d, <4>0
      <4>3. \A i, j \in 1 .. Len(p) : i < j => Before(p[i], p[j])
        <5>1. \A i, j \in 1 .. Len(p) : i < j => i + 1 < j + 1
          BY <1>b, <1>c
        <5> QED
          BY <1>c, <4>0, <5>1
      <4>4. \A i \in 1 .. Len(g) : Before(Plain(g[i]), buffer[l])
        BY <1>b, <1>c, <1>d, <4>0
      <4>5. \A i \in 1 .. Len(p) : Before(p[i], buffer[l])
        BY <1>c, <4>0
      <4> QED
        BY <1>0, <1>a, <4>1, <4>2, <4>3, <4>4, <4>5 DEF Rising
    <3>3. Linked(l)'
      <4>1. ASSUME NEW i \in 2 .. Len(g), i <= Len(f) PROVE g[i].prev = Plain(g[i - 1]) \/ NewSession(l, i)'
        <5>1. i \in 2 .. Len(f) /\ g[i] = f[i] /\ g[i - 1] = f[i - 1]
          BY <1>b, <1>c, <4>1
        <5>2. f[i].prev = Plain(f[i - 1]) \/ NewSession(l, i)
          BY <1>a, <2>0, <2>4, <5>1 DEF Linked
        <5> QED
          BY <1>0, <1>a, <5>1, <5>2 DEF NewSession
      <4>2. ASSUME NEW i \in 2 .. Len(g), i = Len(f) + 1 PROVE g[i].prev = Plain(g[i - 1]) \/ NewSession(l, i)'
        <5>0. i - 1 = Len(f) /\ Len(f) \in 1 .. Len(f) /\ g[i] = s /\ g[i - 1] = f[Len(f)]
          BY <1>b, <1>c, <4>2
        <5>1. CASE prevHash[l] # PASSPHRASE
          <6>1. HashOf(l)
            BY <1>0 DEF FileInv
          <6> QED
            BY <1>a, <1>s, <5>0, <5>1, <6>1 DEF HashOf
        <5>2. CASE prevHash[l] = PASSPHRASE
          <6>1. f[Len(f)] \in LogSets
            BY <1>b, <5>0
          <6>2. 1 \in 1 .. Len(f[Len(f)].recs)
            BY <6>1 DEF LogSets
          <6>3. PICK c \in commits : c.rec = f[Len(f)].recs[1].rec /\ c.log = l
            BY <3>0, <5>0, <6>2 DEF Written
          <6>4. IsIn(c.rec, f[Len(f)])
            BY <6>2, <6>3 DEF IsIn
          <6>5. c.session < crashes
            BY <1>0, <1>a, <2>0, <2>4, <5>0, <5>2, <6>4 DEF OldSets
          <6>6. 1 \in 1 .. Len(s.recs) /\ s.recs[1].rec = q[1][1] /\ 1 \in 1 .. Len(q[1])
            <7>1. 1 \in 1 .. Len(s.recs)
              BY <1>s DEF LogSets
            <7> QED
              BY <1>d, <7>1
          <6>7. PICK d \in commits : d.rec = s.recs[1].rec /\ d.log = l /\ d.session = crashes
            BY <1>c, <3>0, <6>6 DEF Pending
          <6>8. IsIn(d.rec, s)
            BY <6>6, <6>7 DEF IsIn
          <6>9. NewSession(l, i)'
            BY <1>0, <1>a, <5>0, <6>3, <6>4, <6>5, <6>7, <6>8 DEF NewSession
          <6> QED
            BY <6>9
        <5> QED
          BY <5>1, <5>2
      <4>3. \A i \in 2 .. Len(g) : i <= Len(f) \/ i = Len(f) + 1
        BY <1>b, <1>c
      <4> QED
        BY <1>a, <4>1, <4>2, <4>3 DEF Linked
    <3>4. OldSets(l)'
      BY <1>b, <1>c, <1>d DEF OldSets, PASSPHRASE
    <3> QED
      BY <2>4, <3>1, <3>2, <3>3, <3>4
  <2> QED
    BY <2>3, <2>4
<1>2. WorkerInv'
  BY <1>0, <1>1 DEF WorkerInv
<1>3. FirstInv'
  <2>1. \A k, w : Inserted(k, w)' <=> Inserted(k, w)
    BY <1>0 DEF Inserted
  <2> QED
    BY <1>0, <2>1 DEF FirstInv
<1> QED
  BY <1>0, <1>2, <1>3, RunAccepts DEF AcceptedInv

\* A transaction is the latest of its worker; a key that is there was inserted.
LEMMA CommitAcc ==
  ASSUME Inv, DurInv, AcceptedInv, NEW l \in Loggers, NEW op \in Ops, NEW k \in Keys, NEW e \in 1 .. MaxEpoch,
         Commit(l, op, k, e)
  PROVE  AcceptedInv'
<1>0. /\ Typed /\ WorkerInv /\ FirstInv /\ HistoryTyped /\ phase = "run" /\ phase' = "run"
      /\ made' = made + 1 /\ made \in Nat /\ (op = "INSERT") = (tidword[k] = NoValue)
      /\ UNCHANGED <<queue, prevHash, logfile, crashes, clean>>
  BY RecoveryAssumption DEF Inv, DurInv, AcceptedInv, Commit, fileVars, Possible, Typed
<1>r. PICK r \in LogRecs :
         /\ r.op = op /\ r.key = k /\ r.val = made + 1 /\ r.tid[1] = e
         /\ tidword[k] # NoValue => Less(tidword[k], r.tid)
         /\ tidword' = [tidword EXCEPT ![k] = r.tid] /\ buffer' = [buffer EXCEPT ![l] = Append(@, r)]
         /\ commits' = commits \cup {[rec |-> r, log |-> l, session |-> crashes]}
  BY CommitMakes
<1>n. PICK n : n = [rec |-> r, log |-> l, session |-> crashes]
  OBVIOUS
<1>a. commits' = commits \cup {n} /\ n.rec = r /\ n.log = l /\ n.session = crashes
  BY <1>r, <1>n
<1>t. ASSUME NEW c \in commits PROVE c.rec.val \in Int /\ c.rec.val <= made /\ c.rec # r /\ c.rec.val < r.val
  BY <1>0, <1>r DEF HistoryTyped, LogRecs, Vals
<1>1. ASSUME clean, NEW m \in Loggers
      PROVE  FromWorker(m)' /\ Rising(m)' /\ Linked(m)' /\ OldSets(m)'
  <2>0. FromWorker(m) /\ Rising(m) /\ Linked(m) /\ OldSets(m)
    BY <1>0, <1>1 DEF WorkerInv
  <2>1. Linked(m)'
    <3>1. \A i : NewSession(m, i) => NewSession(m, i)'
      BY <1>0, <1>a DEF NewSession
    <3> QED
      BY <1>0, <2>0, <3>1 DEF Linked
  <2>2. \A x : (Pending(m, x) => Pending(m, x)') /\ (Written(m, x) => Written(m, x)')
    BY <1>0, <1>a DEF Pending, Written
  <2>3. OldSets(m)'
    <3>1. ASSUME NEW i \in 1 .. Len(logfile[m]) PROVE ~IsIn(r, logfile[m][i])
      BY <1>t, <2>0 DEF IsIn, FromWorker, Written
    <3> QED
      BY <1>0, <1>a, <2>0, <3>1 DEF OldSets
  <2>4. CASE m # l
    <3>1. buffer'[m] = buffer[m]
      BY <1>0, <1>r, <2>4 DEF Typed
    <3>2. FromWorker(m)'
      BY <1>0, <2>0, <2>2, <3>1 DEF FromWorker
    <3>3. Rising(m)'
      BY <1>0, <2>0, <3>1 DEF Rising
    <3> QED
      BY <2>1, <2>3, <3>2, <3>3
  <2>5. CASE m = l
    <3>a. PICK b, c : b = buffer[l] /\ c = buffer'[l]
      OBVIOUS
    <3>b. b \in Seq(LogRecs) /\ Len(b) \in Nat /\ c = Append(b, r)
      <4>1. b \in Seq(LogRecs)
        BY <1>0, <3>a DEF Typed, Buffers
      <4>2. c = Append(b, r)
        BY <1>0, <1>r, <3>a DEF Typed
      <4> QED
        BY <4>1, <4>2
    <3>c. Len(c) = Len(b) + 1 /\ c[Len(b) + 1] = r /\ \A i \in 1 .. Len(b) : c[i] = b[i]
      BY <3>b
    <3>1. FromWorker(l)'
      <4>1. Pending(l, r)'
        BY <1>0, <1>a DEF Pending
      <4>2. \A i \in 1 .. Len(c) : Pending(l, c[i])'
        BY <2>0, <2>2, <2>5, <3>a, <3>b, <3>c, <4>1 DEF FromWorker
      <4> QED
        BY <1>0, <2>0, <2>2, <2>5, <3>a, <4>2 DEF FromWorker
    <3>2. Rising(l)'
      <4>1. ASSUME NEW q, Before(q, b), \A j \in 1 .. Len(q) : \E x \in commits : x.rec = q[j] PROVE Before(q, c)
        <5>1. \A j \in 1 .. Len(q) : q[j].val < r.val
          BY <1>t, <4>1
        <5> QED
          BY <3>b, <3>c, <4>1, <5>1 DEF Before
      <4>2. ASSUME NEW i \in 1 .. Len(queue[l]) PROVE Before(queue[l][i], c)
        <5>1. \A j \in 1 .. Len(queue[l][i]) : \E x \in commits : x.rec = queue[l][i][j]
          BY <2>0, <2>5 DEF FromWorker, Pending
        <5> QED
          BY <2>0, <2>5, <3>a, <4>1, <5>1 DEF Rising
      <4>3. ASSUME NEW i \in 1 .. Len(logfile[l]) PROVE Before(Plain(logfile[l][i]), c)
        <5>1. PICK s : s = logfile[l][i]
          OBVIOUS
        <5>2. s \in LogSets
          BY <1>0, <5>1, EpochsAreInt
        <5>3. Len(Plain(s)) = Len(s.recs) /\ \A j \in 1 .. Len(s.recs) : Plain(s)[j] = s.recs[j].rec
          BY <5>2, PlainOf
        <5>4. \A j \in 1 .. Len(Plain(s)) : \E x \in commits : x.rec = Plain(s)[j]
          BY <2>0, <2>5, <5>1, <5>3 DEF FromWorker, Written
        <5>5. Before(Plain(s), b)
          BY <2>0, <2>5, <3>a, <5>1 DEF Rising
        <5> QED
          BY <4>1, <5>1, <5>4, <5>5
      <4> QED
        BY <1>0, <2>0, <2>5, <3>a, <4>2, <4>3 DEF Rising
    <3> QED
      BY <2>1, <2>3, <2>5, <3>1, <3>2
  <2> QED
    BY <2>4, <2>5
<1>2. WorkerInv'
  BY <1>0, <1>1 DEF WorkerInv
<1>3. ASSUME clean PROVE FirstInv'
  <2>0. \A m, w : Inserted(m, w) => Inserted(m, w)'
    BY <1>a DEF Inserted
  <2>1. ASSUME NEW d \in commits', d.rec.op # "INSERT" PROVE Inserted(d.rec.key, d.rec.val)'
    <3>1. CASE d \in commits
      BY <1>0, <1>3, <2>0, <2>1, <3>1 DEF FirstInv
    <3>2. CASE d = n
      <4>1. d.rec.key = k /\ d.rec.val = made + 1 /\ tidword[k] # NoValue
        BY <1>0, <1>a, <1>r, <2>1, <3>2
      <4>2. Inserted(k, made + 1)
        BY <1>0, <1>3, <4>1 DEF FirstInv
      <4> QED
        BY <2>0, <4>1, <4>2
    <3> QED
      BY <1>a, <3>1, <3>2
  <2>2. ASSUME NEW m \in Keys, tidword'[m] # NoValue PROVE Inserted(m, made + 1)'
    <3>1. CASE tidword[m] # NoValue
      <4>1. PICK p \in commits : p.rec.key = m /\ p.rec.op = "INSERT" /\ p.rec.val < made + 1
        BY <1>0, <1>3, <3>1 DEF FirstInv, Inserted
      <4>2. p \in commits' /\ p.rec.val < made' + 1
        BY <1>0, <1>a, <1>t, <4>1
      <4> QED
        BY <4>1, <4>2 DEF Inserted
    <3>2. CASE tidword[m] = NoValue
      <4>1. m = k
        BY <1>0, <1>r, <2>2, <3>2 DEF Typed
      <4>2. n \in commits' /\ n.rec.key = m /\ n.rec.op = "INSERT" /\ n.rec.val < made' + 1
        BY <1>0, <1>a, <1>r, <3>2, <4>1
      <4> QED
        BY <4>2 DEF Inserted
    <3> QED
      BY <3>1, <3>2
  <2> QED
    BY <1>0, <2>1, <2>2 DEF FirstInv
<1> QED
  BY <1>0, <1>2, <1>3, RunAccepts DEF AcceptedInv, FirstInv

\* Only the files are left.
LEMMA CrashAcc ==
  ASSUME Inv, DurInv, AcceptedInv, Crash
  PROVE  AcceptedInv'
<1>0. /\ WorkerInv /\ FirstInv /\ phase' = "open" /\ UNCHANGED <<logfile, commits, made>> /\ (clean' => clean)
      /\ \A l \in Loggers : buffer'[l] = <<>> /\ queue'[l] = <<>>
  BY DEF AcceptedInv, Crash, fileVars
<1>1. ASSUME clean, NEW l \in Loggers
      PROVE  FromWorker(l)' /\ Rising(l)' /\ Linked(l)' /\ OldSets(l)'
  <2>0. FromWorker(l) /\ Rising(l) /\ Linked(l)
    BY <1>0, <1>1 DEF WorkerInv
  <2>1. FromWorker(l)'
    <3>1. \A r : Written(l, r)' <=> Written(l, r)
      BY <1>0 DEF Written
    <3> QED
      BY <1>0, <2>0, <3>1 DEF FromWorker
  <2>2. Rising(l)'
    BY <1>0, <2>0 DEF Rising, Before
  <2>3. Linked(l)'
    BY <1>0, <2>0 DEF Linked, NewSession
  <2>4. OldSets(l)'
    BY <1>0 DEF OldSets
  <2> QED
    BY <2>1, <2>2, <2>3, <2>4
<1>2. WorkerInv'
  BY <1>0, <1>1 DEF WorkerInv
<1>3. FirstInv'
  <2>1. \A k, w : Inserted(k, w)' <=> Inserted(k, w)
    BY <1>0 DEF Inserted
  <2> QED
    BY <1>0, <2>1 DEF FirstInv
<1>4. AcceptInv'
  BY <1>0 DEF AcceptInv
<1> QED
  BY <1>2, <1>3, <1>4 DEF AcceptedInv

\* What is logged is durable and stays in the history; a key that was recovered was
\* inserted.
LEMMA RestartAcc ==
  ASSUME Inv, DurInv, AcceptedInv, Restart
  PROVE  AcceptedInv'
<1>0. /\ Typed /\ ReadInv /\ HistoryTyped /\ OrderInv /\ ClockInv /\ EpochsInv /\ CleanInv /\ PlacesInv
      /\ WorkerInv /\ FirstInv
      /\ phase = "recovered" /\ phase' = "run" /\ commits' = {c \in commits : c.rec.tid[1] <= durable_epoch}
      /\ tidword' = [k \in Keys |-> IF db[k] = Absent THEN NoValue ELSE <<0, 0>>]
      /\ UNCHANGED <<buffer, queue, logfile, durable_epoch, made, crashes, clean>>
  BY DEF Inv, DurInv, AcceptedInv, Restart, fileVars
<1>a. durable_epoch \in Int /\ \A l \in Loggers : buffer[l] = <<>> /\ queue[l] = <<>>
  BY <1>0 DEF ClockInv, Typed
<1>b. ASSUME clean, NEW c \in commits, Logged(c.rec) PROVE c \in commits'
  <2>1. PICK l \in Loggers : \E i \in 1 .. Len(logfile[l]) : IsIn(c.rec, logfile[l][i])
    BY <1>b DEF Logged
  <2>2. PICK i \in 1 .. Len(logfile[l]) : \E j \in 1 .. Len(logfile[l][i].recs) : logfile[l][i].recs[j].rec = c.rec
    BY <2>1 DEF IsIn
  <2>3. c.rec.tid[1] = SetEpoch(logfile[l][i])
    BY <1>0, <2>2, RecordEpoch
  <2>4. LogsEnd
    BY <1>0, <1>b DEF PlacesInv
  <2> QED
    BY <1>0, <2>3, <2>4 DEF LogsEnd
<1>1. ASSUME clean, NEW l \in Loggers
      PROVE  FromWorker(l)' /\ Rising(l)' /\ Linked(l)' /\ OldSets(l)'
  <2>0. FromWorker(l) /\ Rising(l) /\ Linked(l)
    BY <1>0, <1>1 DEF WorkerInv
  <2>1. FromWorker(l)'
    <3>1. ASSUME NEW i \in 1 .. Len(logfile[l]), NEW j \in 1 .. Len(logfile[l][i].recs)
          PROVE  Written(l, logfile[l][i].recs[j].rec)'
      <4>1. PICK c \in commits : c.rec = logfile[l][i].recs[j].rec /\ c.log = l
        BY <2>0 DEF FromWorker, Written
      <4>2. Logged(c.rec)
        BY <4>1 DEF Logged, IsIn
      <4>3. c \in commits'
        BY <1>1, <1>b, <4>2
      <4> QED
        BY <1>0, <4>1, <4>3 DEF Written
    <3> QED
      BY <1>0, <1>a, <3>1 DEF FromWorker
  <2>2. Rising(l)'
    BY <1>0, <2>0 DEF Rising
  <2>3. Linked(l)'
    <3>1. ASSUME NEW i \in 2 .. Len(logfile[l]), NewSession(l, i) PROVE NewSession(l, i)'
      <4>1. PICK c \in commits, d \in commits :
              /\ c.log = l /\ d.log = l /\ c.session < d.session
              /\ IsIn(c.rec, logfile[l][i - 1]) /\ IsIn(d.rec, logfile[l][i])
        BY <3>1 DEF NewSession
      <4>2. i \in 1 .. Len(logfile[l]) /\ i - 1 \in 1 .. Len(logfile[l])
        BY <1>0, EpochsAreInt
      <4>3. c \in commits' /\ d \in commits'
        BY <1>1, <1>b, <4>1, <4>2 DEF Logged
      <4> QED
        BY <1>0, <4>1, <4>3 DEF NewSession
    <3> QED
      BY <1>0, <2>0, <3>1 DEF Linked
  <2>4. OldSets(l)'
    BY <1>0 DEF OldSets, HistoryTyped
  <2> QED
    BY <2>1, <2>2, <2>3, <2>4
<1>2. WorkerInv'
  BY <1>0, <1>1 DEF WorkerInv
<1>3. ASSUME clean PROVE FirstInv'
  <2>1. ASSUME NEW d \in commits', d.rec.op # "INSERT" PROVE Inserted(d.rec.key, d.rec.val)'
    <3>0. d \in commits /\ EpochAt(d) <= durable_epoch
      BY <1>0 DEF EpochAt
    <3>1. PICK p \in commits : p.rec.key = d.rec.key /\ p.rec.op = "INSERT" /\ p.rec.val < d.rec.val
      BY <1>0, <1>3, <2>1, <3>0 DEF FirstInv, Inserted
    <3>2. EpochAt(p) <= EpochAt(d)
      BY <1>0, <3>0, <3>1, EpochsFollow
    <3>3. EpochAt(p) \in Int /\ EpochAt(d) \in Int
      BY <1>0, <3>0 DEF EpochAt, HistoryTyped, LogRecs, LogTids
    <3>4. p \in commits'
      BY <1>0, <1>a, <3>0, <3>2, <3>3 DEF EpochAt
    <3> QED
      BY <3>1, <3>4 DEF Inserted
  <2>2. ASSUME NEW k \in Keys, tidword'[k] # NoValue PROVE Inserted(k, made + 1)'
    <3>1. db[k] # Absent
      BY <1>0, <2>2
    <3>2. LoggedValue(k, db[k])
      BY <1>0, <3>1 DEF ReadInv, Replayed
    <3>3. PICK l \in Loggers : \E i \in 1 .. Len(logfile[l]) : \E j \in 1 .. Len(logfile[l][i].recs) :
                                 logfile[l][i].recs[j].rec.key = k
      BY <3>2 DEF LoggedValue
    <3>4. PICK i \in 1 .. Len(logfile[l]) : \E j \in 1 .. Len(logfile[l][i].recs) : logfile[l][i].recs[j].rec.key = k
      BY <3>3
    <3>5. PICK j \in 1 .. Len(logfile[l][i].recs) : logfile[l][i].recs[j].rec.key = k
      BY <3>4
    <3>6. PICK c \in commits : c.rec = logfile[l][i].recs[j].rec
      BY <1>0, <1>3, <3>5 DEF CleanInv, FilesOf, MadeOnly, Made
    <3>7. c \in commits'
      BY <1>3, <1>b, <3>5, <3>6 DEF Logged, IsIn
    <3>8. c.rec.val <= made /\ c.rec.val \in Int /\ made \in Int /\ c.rec.key = k
      <4>1. made \in Int /\ c.rec.val <= made
        BY <1>0 DEF Typed, HistoryTyped
      <4>2. c.rec.val \in Int
        BY <1>0 DEF HistoryTyped, LogRecs, Vals
      <4> QED
        BY <3>5, <3>6, <4>1, <4>2
    <3>9. CASE c.rec.op = "INSERT"
      BY <1>0, <3>7, <3>8, <3>9 DEF Inserted
    <3>10. CASE c.rec.op # "INSERT"
      <4>1. PICK p \in commits' : p.rec.key = k /\ p.rec.op = "INSERT" /\ p.rec.val < c.rec.val
        BY <2>1, <3>7, <3>8, <3>10 DEF Inserted
      <4>2. p.rec.val < made' + 1
        BY <1>0, <3>8, <4>1 DEF HistoryTyped, LogRecs, Vals
      <4> QED
        BY <4>1, <4>2 DEF Inserted
    <3> QED
      BY <3>9, <3>10
  <2> QED
    BY <1>0, <2>1, <2>2 DEF FirstInv
<1> QED
  BY <1>0, <1>2, <1>3, RunAccepts DEF AcceptedInv, FirstInv

-----------------------------------------------------------------------------
(* The recovery of acceptable logs                                         *)

\* The chain of an acceptable log has no break, its sets differ, and it ends with the
\* tail hash at the durable epoch.
LEMMA AcceptableLog ==
  ASSUME Inv, DurInv, WorkerInv, Acceptable, phase # "run", NEW l \in Loggers
  PROVE  /\ Len(logfile[l]) \in Nat
         /\ \A i \in 1 .. Len(logfile[l]) :
              /\ logfile[l][i] \in LogSets /\ SetEpoch(logfile[l][i]) <= pepoch /\ SetEpoch(logfile[l][i]) \in Int
              /\ logfile[l][i].prev = IF i = 1 THEN PASSPHRASE ELSE Plain(logfile[l][i - 1])
         /\ \A i, j \in 1 .. Len(logfile[l]) : Plain(logfile[l][i]) = Plain(logfile[l][j]) => i = j
         /\ TailIsLast(l)
<1>0. /\ Typed /\ FileInv /\ EpochsInv /\ ClockInv /\ CleanInv /\ clean
      /\ FromWorker(l) /\ Rising(l) /\ Linked(l)
  BY DEF Inv, DurInv, WorkerInv, Acceptable
<1>1. Len(logfile[l]) \in Nat /\ \A i \in 1 .. Len(logfile[l]) : logfile[l][i] \in LogSets /\ SetEpoch(logfile[l][i]) \in Int
  BY <1>0, EpochsAreInt
<1>a. ASSUME NEW i \in 1 .. Len(logfile[l])
      PROVE  /\ 1 \in 1 .. Len(logfile[l][i].recs) /\ Len(Plain(logfile[l][i])) = Len(logfile[l][i].recs)
             /\ Plain(logfile[l][i])[1] = logfile[l][i].recs[1].rec /\ Plain(logfile[l][i])[1].val \in Int
  <2>1. PICK s : s = logfile[l][i]
    OBVIOUS
  <2>2. s \in LogSets
    BY <1>1, <2>1
  <2>3. 1 \in 1 .. Len(s.recs)
    BY <2>2 DEF LogSets
  <2>4. Len(Plain(s)) = Len(s.recs) /\ Plain(s)[1] = s.recs[1].rec /\ s.recs[1].rec \in LogRecs
    BY <2>2, <2>3, PlainOf
  <2> QED
    BY <2>1, <2>3, <2>4 DEF LogRecs, Vals
<1>2. ASSUME NEW i \in 1 .. Len(logfile[l]) PROVE SetEpoch(logfile[l][i]) <= pepoch
  <2>1. PICK c \in commits : c.rec = logfile[l][i].recs[1].rec
    BY <1>0, <1>a DEF FromWorker, Written
  <2>2. c.rec.tid[1] = SetEpoch(logfile[l][i])
    BY <1>0, <1>a, <2>1, RecordEpoch
  <2> QED
    BY <2>1, <2>2 DEF Acceptable
<1>3. ASSUME NEW i \in 1 .. Len(logfile[l])
      PROVE  logfile[l][i].prev = IF i = 1 THEN PASSPHRASE ELSE Plain(logfile[l][i - 1])
  <2>1. CASE i = 1
    <3>1. ChainOf(l) /\ ~(i - 1 \in 1 .. Len(logfile[l]))
      BY <1>0, <1>1, <2>1 DEF FileInv
    <3> QED
      BY <2>1, <3>1 DEF ChainOf
  <2>2. CASE i # 1
    <3>1. i \in 2 .. Len(logfile[l])
      BY <1>1, <2>2
    <3>2. ~NewSession(l, i)
      <4>1. SUFFICES ASSUME NEW c \in commits, NEW d \in commits, c.log = l, d.log = l, c.session < d.session
                     PROVE  FALSE
        BY DEF NewSession
      <4>2. c.session = d.session /\ c.session \in Int
        BY <4>1 DEF Acceptable, LogOfOneSession, DurInv, HistoryTyped
      <4> QED
        BY <4>1, <4>2
    <3> QED
      BY <1>0, <2>2, <3>1, <3>2 DEF Linked
  <2> QED
    BY <2>1, <2>2
<1>4. ASSUME NEW i \in 1 .. Len(logfile[l]), NEW j \in 1 .. Len(logfile[l]), i < j
      PROVE  Plain(logfile[l][i]) # Plain(logfile[l][j])
  <2>1. Before(Plain(logfile[l][i]), Plain(logfile[l][j]))
    BY <1>0, <1>4 DEF Rising
  <2>2. Plain(logfile[l][i])[1].val < Plain(logfile[l][j])[1].val
    BY <1>a, <2>1 DEF Before
  <2> QED
    BY <1>a, <2>2
<1>5. TailIsLast(l)
  BY <1>0 DEF CleanInv, FilesOf, TailDue, ClockInv
<1>6. \A i, j \in 1 .. Len(logfile[l]) : i < j \/ j < i \/ i = j
  BY <1>1
<1> QED
  BY <1>1, <1>2, <1>3, <1>4, <1>5, <1>6

\* The logs stay acceptable during recovery.
LEMMA StaysAcceptable ==
  ASSUME Acceptable', UNCHANGED <<clean, crashes, pepoch, commits>>
  PROVE  Acceptable
BY DEF Acceptable, KeyInOneLog, LogOfOneSession

\* What an archive has in its buffer.
LEMMA InStepMeans ==
  ASSUME Typed, NEW l \in Loggers
  PROVE  /\ archive[l] \in Archives /\ archive[l].offset \in Nat /\ archive[l].buffered \in Seq(LogSets)
         /\ Len(archive[l].buffered) \in Nat /\ VerifiedTo(l) \in Int
         /\ archive[l].offset = VerifiedTo(l) + Len(archive[l].buffered)
<1>1. archive[l] \in Archives
  BY DEF Typed
<1>2. archive[l].offset \in Nat /\ archive[l].buffered \in Seq(LogSets)
  BY <1>1 DEF Archives
<1>3. Len(archive[l].buffered) \in Nat
  BY <1>2
<1> QED
  BY <1>1, <1>2, <1>3 DEF VerifiedTo

\* An archive that did not change.
LEMMA SameStep ==
  ASSUME NEW l \in Loggers, InStep(l), archive'[l] = archive[l], logfile' = logfile
  PROVE  InStep(l)'
BY DEF InStep, VerifiedTo

\* pepoch.seal is not empty.
LEMMA OpenFilesAcc ==
  ASSUME Inv, DurInv, AcceptedInv, OpenFiles
  PROVE  AcceptedInv'
<1>0. /\ WorkerInv /\ FirstInv /\ phase = "open" /\ UNCHANGED <<logfile, tail, clean, crashes, pepoch, commits>>
      /\ phase' = (IF EmptyEpochFile THEN "died" ELSE "read")
      /\ archive' = [l \in Loggers |-> [ClosedArchive EXCEPT !.matched = (tail[l] = NoHash),
                                                             !.allRead = (tail[l] = NoHash)]]
  BY DEF AcceptedInv, OpenFiles, fileVars, historyVars
<1>1. WorkerInv' /\ FirstInv'
  BY <1>0, SameWorker DEF OpenFiles, runVars
<1>2. ASSUME Acceptable PROVE phase' = "read" /\ \A l \in Loggers : InStep(l)'
  <2>1. phase' = "read"
    <3>1. pepoch # 0
      BY <1>2 DEF Acceptable
    <3> QED
      BY <1>0, <3>1 DEF EmptyEpochFile
  <2>2. ASSUME NEW l \in Loggers PROVE InStep(l)'
    <3>1. PICK a : a = archive'[l]
      OBVIOUS
    <3>2. a.offset = 0 /\ a.buffered = <<>> /\ a.matched = (tail[l] = NoHash) /\ a.prev = PASSPHRASE
      BY <1>0, <3>1 DEF ClosedArchive
    <3>3. VerifiedTo(l)' = 0
      <4>1. archive'[l].offset = 0 /\ Len(archive'[l].buffered) = 0
        BY <3>1, <3>2
      <4> QED
        BY <4>1 DEF VerifiedTo
    <3>4. (tail[l] = NoHash) <=> Len(logfile[l]) = 0
      <4>1. TailIsLast(l) /\ Len(logfile[l]) \in Nat /\ \A i \in 1 .. Len(logfile[l]) : logfile[l][i] \in LogSets
        BY <1>0, <1>2, AcceptableLog
      <4>2. CASE logfile[l] = <<>>
        BY <4>1, <4>2 DEF TailIsLast
      <4>3. CASE logfile[l] # <<>>
        <5>1. Len(logfile[l]) # 0
          BY <4>3 DEF Inv, Typed
        <5>2. Len(logfile[l]) \in 1 .. Len(logfile[l])
          BY <4>1, <5>1
        <5>3. Plain(logfile[l][Len(logfile[l])]) # <<>>
          BY <4>1, <5>2, PlainOf
        <5> QED
          BY <4>1, <4>3, <5>1, <5>3 DEF TailIsLast, NoHash
      <4> QED
        BY <4>2, <4>3
    <3>5. Len(logfile[l]) \in Nat
      BY <1>0, <1>2, AcceptableLog
    <3>6. a.matched <=> 0 = Len(logfile[l])
      BY <3>2, <3>4
    <3>7. Len(a.buffered) = 0
      BY <3>2
    <3>8. /\ archive'[l].prev = PASSPHRASE /\ Len(archive'[l].buffered) = 0 /\ logfile' = logfile
          /\ (archive'[l].matched <=> 0 = Len(logfile[l]))
      BY <1>0, <3>1, <3>2, <3>6, <3>7
    <3> QED
      BY <3>3, <3>5, <3>8 DEF InStep
  <2> QED
    BY <2>1, <2>2
<1>3. AcceptInv'
  BY <1>0, <1>2, StaysAcceptable DEF AcceptInv
<1> QED
  BY <1>1, <1>3 DEF AcceptedInv

\* The tail hash is met with the last set only, so nothing follows it.
LEMMA ReadLogSetAcc ==
  ASSUME Inv, DurInv, AcceptedInv, NEW l \in Loggers, ReadLogSet(l)
  PROVE  AcceptedInv'
<1>0. /\ Typed /\ WorkerInv /\ FirstInv /\ AcceptInv /\ phase = "read" /\ MoreToRead(l)
      /\ UNCHANGED <<logfile, clean, crashes, pepoch, commits>>
  BY DEF Inv, AcceptedInv, ReadLogSet, fileVars, historyVars
<1>1. WorkerInv' /\ FirstInv'
  <2>1. phase' \in {"refused", "read"}
    BY <1>0 DEF ReadLogSet
  <2> QED
    BY <1>0, <2>1, SameWorker DEF ReadLogSet, runVars
<1>2. ASSUME Acceptable PROVE phase' = "read" /\ \A m \in Loggers : InStep(m)'
  <2>a. PICK a, b, s : a = archive[l] /\ b = archive'[l] /\ s = logfile[l][a.offset + 1]
    OBVIOUS
  <2>b. /\ \A m \in Loggers : InStep(m)
        /\ a.offset < Len(logfile[l]) /\ Len(logfile[l]) \in Nat
    BY <1>0, <1>2, <2>a, AcceptableLog DEF AcceptInv, MoreToRead
  <2>c. /\ a \in Archives /\ a.offset \in Nat /\ a.buffered \in Seq(LogSets) /\ Len(a.buffered) \in Nat
        /\ VerifiedTo(l) \in Int /\ a.offset = VerifiedTo(l) + Len(a.buffered)
    BY <1>0, <2>a, InStepMeans
  <2>1. ~a.matched
    BY <2>a, <2>b, <2>c DEF InStep
  <2>2. /\ phase' = "read"
        /\ archive' = [archive EXCEPT ![l].offset = @ + 1, ![l].buffered = Append(@, NextLogSet(l))]
    BY <1>0, <2>1, <2>a DEF ReadLogSet
  <2>3. /\ b.offset = a.offset + 1 /\ b.buffered = Append(a.buffered, s) /\ b.matched = a.matched /\ b.prev = a.prev
        /\ \A m \in Loggers : m # l => archive'[m] = archive[m]
    <3>1. b = [a EXCEPT !.offset = @ + 1, !.buffered = Append(@, s)]
      BY <1>0, <2>2, <2>a DEF Typed, NextLogSet
    <3>2. \A m \in Loggers : m # l => archive'[m] = archive[m]
      BY <1>0, <2>2 DEF Typed
    <3> QED
      BY <2>c, <3>1, <3>2 DEF Archives
  <2>4. /\ Len(b.buffered) = Len(a.buffered) + 1 /\ b.buffered[Len(a.buffered) + 1] = s
        /\ \A i \in 1 .. Len(a.buffered) : b.buffered[i] = a.buffered[i]
    BY <2>c, <2>3
  <2>5. VerifiedTo(l)' = VerifiedTo(l)
    BY <2>a, <2>c, <2>3, <2>4 DEF VerifiedTo
  <2>6. InStep(l)'
    <3>1. \A i \in 1 .. Len(b.buffered) : b.buffered[i] = logfile[l][VerifiedTo(l) + i]
      <4>1. VerifiedTo(l) + (Len(a.buffered) + 1) = a.offset + 1
        BY <2>c
      <4>2. \A i \in 1 .. Len(a.buffered) : a.buffered[i] = logfile[l][VerifiedTo(l) + i]
        BY <2>a, <2>b DEF InStep
      <4>3. \A i \in 1 .. Len(b.buffered) : i \in 1 .. Len(a.buffered) \/ i = Len(a.buffered) + 1
        BY <2>c, <2>4
      <4> QED
        BY <2>a, <2>4, <4>1, <4>2, <4>3
    <3> QED
      BY <1>0, <2>a, <2>b, <2>3, <2>5, <3>1 DEF InStep
  <2>7. \A m \in Loggers : m # l => InStep(m)'
    BY <1>0, <2>b, <2>3, SameStep
  <2> QED
    BY <2>2, <2>6, <2>7
<1>3. AcceptInv'
  BY <1>0, <1>2, StaysAcceptable DEF AcceptInv
<1> QED
  BY <1>1, <1>3 DEF AcceptedInv

\* Nothing has been handed over yet.
LEMMA ReadDoneAcc ==
  ASSUME Inv, DurInv, AcceptedInv, ReadDone
  PROVE  AcceptedInv'
<1>0. /\ WorkerInv /\ FirstInv /\ AcceptInv /\ phase = "read" /\ phase' = "epoch"
      /\ UNCHANGED <<archive, records, logfile, clean, crashes, pepoch, commits>> /\ records = {}
  BY DEF DurInv, ClockInv, Reading, AcceptedInv, ReadDone, fileVars, recoveryVars, historyVars
<1>1. WorkerInv' /\ FirstInv'
  BY <1>0, SameWorker DEF ReadDone, runVars
<1>2. ASSUME Acceptable PROVE \A l \in Loggers : InStep(l)'
  BY <1>0, <1>2, SameStep DEF AcceptInv
<1>3. WithEarlier'
  BY <1>0 DEF WithEarlier
<1>4. AcceptInv'
  BY <1>0, <1>2, <1>3, StaysAcceptable DEF AcceptInv
<1> QED
  BY <1>1, <1>4 DEF AcceptedInv

\* After the last epoch everything has been read and verified.
LEMMA NextEpochAcc ==
  ASSUME Inv, DurInv, AcceptedInv, NextEpoch
  PROVE  AcceptedInv'
<1>0. /\ Typed /\ WorkerInv /\ FirstInv /\ AcceptInv /\ ClockInv /\ PlacesInv /\ EpochLoop
      /\ phase = "epoch" /\ phase' \in {"read", "check"} /\ (phase' = "check" => ~MoreEpochs) /\ Verified
      /\ UNCHANGED <<archive, logfile, clean, crashes, pepoch, commits>>
      /\ durable_epoch = pepoch /\ current_epoch <= durable_epoch
      /\ current_epoch \in Int /\ durable_epoch \in Int
  BY DEF Inv, EpochLoop, DurInv, ClockInv, Reading, AcceptedInv, NextEpoch, Verified, fileVars, historyVars, Typed
<1>1. WorkerInv' /\ FirstInv'
  BY <1>0, SameWorker DEF NextEpoch, runVars
<1>2. ASSUME Acceptable PROVE \A l \in Loggers : InStep(l) /\ InStep(l)'
  BY <1>0, <1>2, SameStep DEF AcceptInv
<1>3. ASSUME Acceptable, phase' = "check", NEW l \in Loggers PROVE archive[l].matched
  <2>0. clean /\ Ahead(l) /\ Placed(l) /\ InStep(l)
    BY <1>0, <1>2, <1>3 DEF Acceptable, PlacesInv
  <2>1. /\ archive[l].offset \in Nat /\ Len(archive[l].buffered) \in Nat /\ Len(logfile[l]) \in Nat
        /\ VerifiedTo(l) \in Int /\ archive[l].offset = VerifiedTo(l) + Len(archive[l].buffered)
        /\ current_epoch = pepoch /\ archive[l].offset <= Len(logfile[l])
    BY <1>0, <1>3, InStepMeans, AcceptableLog DEF MoreEpochs, Inv, ReadInv, ReadOf
  <2>2. \A j \in 1 .. Len(logfile[l]) : SetEpoch(logfile[l][j]) <= current_epoch /\ SetEpoch(logfile[l][j]) \in Int
    BY <1>0, <1>3, <2>1, AcceptableLog
  <2>3. archive[l].offset = Len(logfile[l])
    <3>1. ~(archive[l].offset < Len(logfile[l]))
      <4>1. SUFFICES ASSUME archive[l].offset < Len(logfile[l]) PROVE FALSE
        OBVIOUS
      <4>2. Len(logfile[l]) \in 1 .. Len(logfile[l])
        BY <2>1, <4>1
      <4>3. current_epoch < SetEpoch(logfile[l][Len(logfile[l])])
        BY <1>0, <2>0, <4>1, <4>2 DEF Placed
      <4> QED
        BY <1>0, <2>2, <4>2, <4>3
    <3> QED
      BY <2>1, <3>1
  <2>4. Len(archive[l].buffered) = 0
    <3>1. SUFFICES ASSUME Len(archive[l].buffered) # 0 PROVE FALSE
      OBVIOUS
    <3>2. 1 \in 1 .. Len(archive[l].buffered)
      BY <2>1, <3>1
    <3>3. PICK j \in 1 .. archive[l].offset : archive[l].buffered[1] = logfile[l][j]
      BY <2>0, <3>2 DEF Ahead
    <3>4. SetEpoch(archive[l].buffered[1]) = current_epoch
      BY <1>0, <2>0, <2>2, <2>3, <3>2, <3>3 DEF Ahead
    <3> QED
      BY <1>0, <3>2, <3>4 DEF Verified, DueSets
  <2> QED
    BY <2>0, <2>1, <2>3, <2>4 DEF InStep
<1>4. AcceptInv'
  BY <1>0, <1>2, <1>3, StaysAcceptable DEF AcceptInv
<1> QED
  BY <1>1, <1>4 DEF AcceptedInv

\* Every tail hash has been met.
LEMMA CheckTailsAcc ==
  ASSUME Inv, DurInv, AcceptedInv, CheckTails
  PROVE  AcceptedInv'
<1>0. /\ WorkerInv /\ FirstInv /\ AcceptInv /\ phase = "check"
      /\ phase' = (IF TailsMatched THEN "recovered" ELSE "refused")
      /\ UNCHANGED <<clean, crashes, pepoch, commits>>
  BY DEF AcceptedInv, CheckTails, fileVars, historyVars
<1>1. WorkerInv' /\ FirstInv'
  BY <1>0, SameWorker DEF CheckTails, fileVars
<1>2. Acceptable => phase' = "recovered"
  BY <1>0 DEF AcceptInv, TailsMatched
<1>3. AcceptInv'
  BY <1>0, <1>2, StaysAcceptable DEF AcceptInv
<1> QED
  BY <1>1, <1>3 DEF AcceptedInv

\* A transaction that has to be recovered is in the log of its worker.
LEMMA OwnLog ==
  ASSUME Inv, DurInv, WorkerInv, Acceptable, phase # "run", NEW c \in commits
  PROVE  \E i \in 1 .. Len(logfile[c.log]) : IsIn(c.rec, logfile[c.log][i])
<1>0. HistoryTyped /\ CleanInv /\ clean
  BY DEF DurInv, Acceptable
<1>1. Logged(c.rec)
  BY <1>0 DEF CleanInv, Acceptable, EpochAt
<1>2. PICK l \in Loggers : \E i \in 1 .. Len(logfile[l]) : IsIn(c.rec, logfile[l][i])
  BY <1>1 DEF Logged
<1>3. PICK i \in 1 .. Len(logfile[l]) : IsIn(c.rec, logfile[l][i])
  BY <1>2
<1>4. PICK j \in 1 .. Len(logfile[l][i].recs) : logfile[l][i].recs[j].rec = c.rec
  BY <1>3 DEF IsIn
<1>5. PICK d \in commits : d.rec = c.rec /\ d.log = l
  <2>1. FromWorker(l)
    BY <1>0 DEF WorkerInv
  <2>2. Written(l, c.rec)
    BY <1>4, <2>1 DEF FromWorker
  <2> QED
    BY <2>2 DEF Written
<1>6. d = c
  BY <1>0, <1>5 DEF HistoryTyped
<1> QED
  BY <1>3, <1>5, <1>6

\* Without a DELETE, a key that the replay has passed is in the database.
LEMMA PassedIsThere ==
  ASSUME Inv, DurInv, WorkerInv, Acceptable, phase = "epoch", NEW c \in commits, Passed(c)
  PROVE  db[c.rec.key] # Absent
<1>0. HistoryTyped /\ ClockInv /\ ReplayInv /\ clean /\ Reading /\ durable_epoch = pepoch
  BY DEF DurInv, Acceptable, ClockInv, Reading
<1>1. LogsEnd
  BY <1>0, AcceptableLog DEF LogsEnd
<1>2. Comparable(durable_epoch)
  BY DEF Comparable, Acceptable, KeyInOneLog, LogOfOneSession
<1>3. c.rec.key \in Keys
  BY <1>0 DEF HistoryTyped, LogRecs
<1>4. ReplayedTo(c.rec.key)
  BY <1>0, <1>1, <1>2, <1>3 DEF ReplayInv
<1>5. PICK d \in commits : db[c.rec.key] = Outcome(d)
  BY <1>4 DEF ReplayedTo
<1>6. d.rec.op # "DELETE" /\ d.rec.val # 0
  BY <1>0 DEF Acceptable, HistoryTyped
<1> QED
  BY <1>5, <1>6 DEF Outcome, Absent

\* What is handed over is what is in the buffer of the archive.
LEMMA HandsOver ==
  ASSUME Typed, NEW l \in Loggers, NEW r
  PROVE  r \in HandedOver(l) <=> \E x \in 1 .. Len(archive[l].buffered) : IsIn(r, archive[l].buffered[x])
<1>0. PICK q : q = archive[l].buffered
  OBVIOUS
<1>1. q \in Seq(LogSets)
  BY <1>0, InStepMeans
<1>2. ASSUME NEW s \in LogSets PROVE r \in ToSet(Plain(s)) <=> IsIn(r, s)
  <2>1. /\ Plain(s) \in Buffers /\ Len(Plain(s)) = Len(s.recs)
        /\ \A i \in 1 .. Len(s.recs) : Plain(s)[i] = s.recs[i].rec
    BY PlainOf
  <2> QED
    BY <2>1 DEF ToSet, IsIn, Buffers
<1>3. \A s \in ToSet(q) : s \in LogSets /\ \E x \in 1 .. Len(q) : s = q[x]
  BY <1>1 DEF ToSet
<1>4. \A x \in 1 .. Len(q) : q[x] \in ToSet(q) /\ q[x] \in LogSets
  BY <1>1 DEF ToSet
<1>5. ASSUME r \in HandedOver(l) PROVE \E x \in 1 .. Len(q) : IsIn(r, q[x])
  <2>1. PICK s \in ToSet(q) : r \in ToSet(Plain(s))
    BY <1>0, <1>5 DEF HandedOver
  <2> QED
    BY <1>2, <1>3, <2>1
<1>6. ASSUME NEW x \in 1 .. Len(q), IsIn(r, q[x]) PROVE r \in HandedOver(l)
  <2>1. q[x] \in ToSet(q) /\ r \in ToSet(Plain(q[x]))
    BY <1>2, <1>4, <1>6
  <2> QED
    BY <1>0, <2>1 DEF HandedOver
<1> QED
  BY <1>0, <1>5, <1>6

\* The erasure of the first set.
LEMMA RemoveFirstSet ==
  ASSUME NEW S, NEW q \in Seq(S), 1 \in 1 .. Len(q)
  PROVE  Len(RemoveAt(q, 1)) = Len(q) - 1 /\ \A i \in 1 .. Len(q) - 1 : RemoveAt(q, 1)[i] = q[i + 1]
<1>1. Len(q) \in Nat
  OBVIOUS
<1>2. PICK a, b : a = SubSeq(q, 1, 0) /\ b = SubSeq(q, 2, Len(q))
  OBVIOUS
<1>3. a = <<>>
  BY <1>1, <1>2
<1>4. b \in Seq(S) /\ Len(b) = Len(q) - 1 /\ \A i \in 1 .. Len(q) - 1 : b[i] = q[i + 1]
  BY <1>1, <1>2
<1>5. RemoveAt(q, 1) = a \o b
  BY <1>2 DEF RemoveAt
<1>6. a \o b = b
  BY <1>3, <1>4
<1> QED
  BY <1>4, <1>5, <1>6

\* The set that is verified is the next one of the file.
LEMMA FirstIsDue ==
  ASSUME Inv, DurInv, Acceptable, phase = "epoch", NEW l \in Loggers, InStep(l), DueSets(l) # {}
  PROVE  /\ 1 \in 1 .. Len(archive[l].buffered) /\ SetEpoch(archive[l].buffered[1]) = current_epoch
         /\ (CHOOSE j \in DueSets(l) : \A h \in DueSets(l) : j <= h) = 1
         /\ VerifiedTo(l) + 1 \in 1 .. Len(logfile[l])
         /\ archive[l].buffered[1] = logfile[l][VerifiedTo(l) + 1]
<1>0. /\ Typed /\ CleanInv /\ PlacesInv /\ ReadOf(l) /\ clean /\ InOrder(l) /\ Ahead(l) /\ current_epoch \in Int
  BY DEF Inv, ReadInv, DurInv, Acceptable, CleanInv, FilesOf, PlacesInv, Typed
<1>1. PICK a, q, v : a = archive[l] /\ q = archive[l].buffered /\ v = VerifiedTo(l)
  OBVIOUS
<1>2. /\ a.offset \in Nat /\ q \in Seq(LogSets) /\ Len(q) \in Nat /\ v \in Int /\ a.offset = v + Len(q)
      /\ a.offset <= Len(logfile[l]) /\ Len(logfile[l]) \in Nat /\ v \in 0 .. Len(logfile[l])
      /\ \A i \in 1 .. Len(logfile[l]) : SetEpoch(logfile[l][i]) \in Int
      /\ \A i \in 1 .. Len(q) : q[i] = logfile[l][v + i]
  BY <1>0, <1>1, InStepMeans, EpochsAreInt DEF ReadOf, InStep
<1>3. DueSets(l) = {i \in 1 .. Len(q) : SetEpoch(q[i]) = current_epoch}
  BY <1>1 DEF DueSets
<1>4. PICK x \in 1 .. Len(q) : SetEpoch(q[x]) = current_epoch
  BY <1>3
<1>5. 1 \in 1 .. Len(q) /\ v + 1 \in 1 .. Len(logfile[l]) /\ v + x \in 1 .. Len(logfile[l]) /\ v + 1 <= v + x
  BY <1>2, <1>4
<1>6. SetEpoch(logfile[l][v + 1]) <= SetEpoch(logfile[l][v + x])
  BY <1>0, <1>5 DEF InOrder
<1>7. current_epoch <= SetEpoch(q[1])
  BY <1>0, <1>1, <1>5 DEF Ahead
<1>8. q[1] = logfile[l][v + 1] /\ q[x] = logfile[l][v + x]
  BY <1>2, <1>4, <1>5
<1>9. SetEpoch(q[1]) = current_epoch
  BY <1>0, <1>2, <1>4, <1>5, <1>6, <1>7, <1>8
<1>10. PICK D : D = DueSets(l)
  OBVIOUS
<1>11. 1 \in D /\ \A h \in D : 1 <= h /\ h \in Int
  BY <1>2, <1>3, <1>5, <1>9, <1>10
<1>12. (CHOOSE j \in D : \A h \in D : j <= h) = 1
  <2>1. \A j \in D : (\A h \in D : j <= h) => j = 1
    BY <1>11
  <2> QED
    BY <1>11, <2>1
<1> QED
  BY <1>1, <1>5, <1>8, <1>9, <1>10, <1>12

\* The chain of an acceptable log is the one that recovery checks, and with a record the
\* earlier ones of its key are handed over.
LEMMA VerifyLogSetAcc ==
  ASSUME Inv, DurInv, AcceptedInv, NEW l \in Loggers, VerifyLogSet(l)
  PROVE  AcceptedInv'
<1>0. /\ Typed /\ WorkerInv /\ FirstInv /\ AcceptInv /\ phase = "epoch" /\ DueSets(l) # {} /\ ~Verified
      /\ UNCHANGED <<logfile, tail, db, clean, crashes, pepoch, commits>>
  BY DEF Inv, AcceptedInv, VerifyLogSet, Verified, fileVars, historyVars
<1>1. WorkerInv' /\ FirstInv'
  <2>1. phase' \in {"refused", "epoch"}
    BY <1>0 DEF VerifyLogSet
  <2> QED
    BY <1>0, <2>1, SameWorker DEF VerifyLogSet, runVars
<1>2. ASSUME Acceptable PROVE phase' = "epoch" /\ (\A m \in Loggers : InStep(m)') /\ WithEarlier'
  <2>0. (\A m \in Loggers : InStep(m)) /\ WithEarlier /\ clean
    BY <1>0, <1>2 DEF AcceptInv, Acceptable
  <2>a. PICK a, b, q, v, f, s : /\ a = archive[l] /\ b = archive'[l] /\ q = archive[l].buffered /\ v = VerifiedTo(l)
                                /\ f = logfile[l] /\ s = archive[l].buffered[1]
    OBVIOUS
  <2>b. /\ a \in Archives /\ a.offset \in Nat /\ q \in Seq(LogSets) /\ Len(q) \in Nat /\ v \in Int
        /\ a.offset = v + Len(q) /\ q = a.buffered
    BY <1>0, <2>a, InStepMeans
  <2>c. /\ 1 \in 1 .. Len(q) /\ v + 1 \in 1 .. Len(f) /\ s = f[v + 1] /\ s = q[1]
        /\ (CHOOSE j \in DueSets(l) : \A h \in DueSets(l) : j <= h) = 1
    BY <1>0, <1>2, <2>0, <2>a, FirstIsDue
  <2>d. /\ Len(f) \in Nat
        /\ \A i \in 1 .. Len(f) : f[i] \in LogSets /\ f[i].prev = IF i = 1 THEN PASSPHRASE ELSE Plain(f[i - 1])
        /\ \A i, j \in 1 .. Len(f) : Plain(f[i]) = Plain(f[j]) => i = j
        /\ TailIsLast(l)
    BY <1>0, <1>2, <2>a, AcceptableLog
  <2>e. /\ v \in 0 .. Len(f) /\ (\A i \in 1 .. Len(q) : q[i] = f[v + i])
        /\ a.prev = (IF v = 0 THEN PASSPHRASE ELSE Plain(f[v])) /\ (a.matched <=> v = Len(f))
    BY <2>0, <2>a DEF InStep
  <2>1. s.prev = a.prev
    <3>1. (v + 1 = 1 <=> v = 0) /\ (v + 1) - 1 = v
      BY <2>b
    <3> QED
      BY <2>c, <2>d, <2>e, <3>1
  <2>2. LogLevelIntegrity(s)
    BY <2>c, <2>d DEF LogSets
  <2>3. /\ phase' = "epoch" /\ records' = records \cup HandedOver(l)
        /\ archive' = [archive EXCEPT ![l].prev = Plain(s), ![l].matched = @ \/ Plain(s) = tail[l],
                                      ![l].buffered = RemoveAt(@, 1)]
    <3>1. PICK i : i = CHOOSE j \in DueSets(l) : \A h \in DueSets(l) : j <= h
      OBVIOUS
    <3>2. i = 1
      BY <2>c, <3>1
    <3>3. ~(s.prev # archive[l].prev \/ ~LogLevelIntegrity(s)) /\ s = archive[l].buffered[i]
      BY <2>a, <2>1, <2>2, <3>2
    <3>4. /\ UNCHANGED phase /\ records' = records \cup HandedOver(l)
          /\ archive' = [archive EXCEPT ![l].prev = Plain(s), ![l].matched = @ \/ Plain(s) = tail[l],
                                        ![l].buffered = RemoveAt(@, i)]
      BY <3>1, <3>3 DEF VerifyLogSet
    <3> QED
      BY <1>0, <3>2, <3>4
  <2>4. /\ b = [a EXCEPT !.prev = Plain(s), !.matched = @ \/ Plain(s) = tail[l], !.buffered = RemoveAt(@, 1)]
        /\ \A m \in Loggers : m # l => archive'[m] = archive[m]
    <3>1. b = [a EXCEPT !.prev = Plain(s), !.matched = @ \/ Plain(s) = tail[l], !.buffered = RemoveAt(@, 1)]
      BY <1>0, <2>a, <2>3 DEF Typed
    <3>2. \A m \in Loggers : m # l => archive'[m] = archive[m]
      BY <1>0, <2>3 DEF Typed
    <3> QED
      BY <3>1, <3>2
  <2>5. b.offset = a.offset /\ b.prev = Plain(s) /\ b.buffered = RemoveAt(q, 1)
    BY <2>b, <2>4 DEF Archives
  <2>6. b.matched <=> a.matched \/ Plain(s) = tail[l]
    BY <2>b, <2>4 DEF Archives
  <2>7. Len(b.buffered) = Len(q) - 1 /\ \A i \in 1 .. Len(q) - 1 : b.buffered[i] = q[i + 1]
    BY <2>b, <2>c, <2>5, RemoveFirstSet
  <2>8. VerifiedTo(l)' = v + 1
    BY <2>a, <2>b, <2>5, <2>7 DEF VerifiedTo
  <2>9. Plain(s) = tail[l] <=> v + 1 = Len(f)
    <3>1. f # <<>> /\ Len(f) \in 1 .. Len(f)
      BY <2>c, <2>d
    <3>2. tail[l] = Plain(f[Len(f)])
      BY <2>a, <2>d, <3>1 DEF TailIsLast
    <3> QED
      BY <2>c, <2>d, <3>1, <3>2
  <2>10. InStep(l)'
    <3>1. v + 1 \in 0 .. Len(f)
      BY <2>b, <2>c, <2>d
    <3>2. \A i \in 1 .. Len(b.buffered) : b.buffered[i] = f[(v + 1) + i]
      <4>1. \A i \in 1 .. Len(q) - 1 : i + 1 \in 1 .. Len(q) /\ v + (i + 1) = (v + 1) + i
        BY <2>b
      <4>2. \A i \in 1 .. Len(q) - 1 : q[i + 1] = f[v + (i + 1)]
        BY <2>e, <4>1
      <4> QED
        BY <2>7, <4>1, <4>2
    <3>3. v + 1 # 0 /\ b.prev = Plain(f[v + 1])
      BY <2>c, <2>d, <2>5
    <3>4. b.matched <=> v + 1 = Len(f)
      <4>1. v # Len(f)
        BY <2>b, <2>c, <2>d
      <4> QED
        BY <2>e, <2>6, <2>9, <4>1
    <3>5. logfile'[l] = f /\ archive'[l] = b
      BY <1>0, <2>a
    <3> QED
      BY <2>8, <3>1, <3>2, <3>3, <3>4, <3>5 DEF InStep
  <2>11. \A m \in Loggers : m # l => InStep(m)'
    BY <1>0, <2>0, <2>4, SameStep
  <2>12. ASSUME NEW c \in commits, NEW d \in commits, d.rec \in records', c.rec.key = d.rec.key,
                c.rec.val < d.rec.val
         PROVE  c.rec \in records' \/ db[c.rec.key] # Absent
    <3>1. CASE d.rec \in records
      BY <2>0, <2>3, <2>12, <3>1 DEF WithEarlier
    <3>2. CASE d.rec \in HandedOver(l)
      <4>0. FromWorker(l) /\ Rising(l) /\ HistoryTyped /\ Placed(l) /\ EpochsInv /\ current_epoch \in Int
        BY <1>0, <2>0 DEF WorkerInv, DurInv, PlacesInv, Typed
      <4>1. PICK x \in 1 .. Len(q) : IsIn(d.rec, q[x])
        BY <1>0, <2>a, <3>2, HandsOver
      <4>2. PICK h : h = v + x
        OBVIOUS
      <4>3. h \in 1 .. Len(f) /\ h <= a.offset /\ h \in Int /\ q[x] = f[h]
        <5>1. ReadOf(l)
          BY DEF Inv, ReadInv
        <5>2. a.offset <= Len(f)
          BY <2>a, <5>1 DEF ReadOf
        <5> QED
          BY <2>b, <2>d, <2>e, <4>2, <5>2
      <4>4. PICK j \in 1 .. Len(f[h].recs) : f[h].recs[j].rec = d.rec
        BY <4>1, <4>3 DEF IsIn
      <4>5. d.log = l
        <5>1. PICK p \in commits : p.rec = d.rec /\ p.log = l
          BY <2>a, <4>0, <4>3, <4>4 DEF FromWorker, Written
        <5> QED
          BY <4>0, <5>1 DEF HistoryTyped
      <4>6. c.log = l
        BY <1>2, <2>12, <4>5 DEF Acceptable, KeyInOneLog
      <4>7. PICK g \in 1 .. Len(f) : IsIn(c.rec, f[g])
        BY <1>0, <1>2, <2>a, <4>6, OwnLog
      <4>8. PICK y \in 1 .. Len(f[g].recs) : f[g].recs[y].rec = c.rec
        BY <4>7 DEF IsIn
      <4>9. ~(h < g)
        <5>1. SUFFICES ASSUME h < g PROVE FALSE
          OBVIOUS
        <5>2. Before(Plain(f[h]), Plain(f[g]))
          BY <2>a, <4>0, <4>3, <5>1 DEF Rising
        <5>3. /\ j \in 1 .. Len(Plain(f[h])) /\ Plain(f[h])[j] = d.rec
              /\ y \in 1 .. Len(Plain(f[g])) /\ Plain(f[g])[y] = c.rec
          BY <2>d, <4>3, <4>4, <4>8, PlainOf
        <5>4. d.rec.val < c.rec.val
          BY <5>2, <5>3 DEF Before
        <5>5. d.rec.val \in Int /\ c.rec.val \in Int
          BY <4>0 DEF HistoryTyped, LogRecs, Vals
        <5> QED
          BY <2>12, <5>4, <5>5
      <4>10. g <= a.offset
        BY <2>b, <2>d, <4>3, <4>9
      <4>11. SetEpoch(f[g]) \in Int /\ EpochAt(c) = SetEpoch(f[g])
        BY <1>0, <2>a, <4>0, <4>8, RecordEpoch, EpochsAreInt DEF EpochAt
      <4>12. CASE SetEpoch(f[g]) < current_epoch
        BY <1>0, <1>2, <4>11, <4>12, PassedIsThere DEF Passed
      <4>13. CASE ~(SetEpoch(f[g]) < current_epoch)
        <5>1. Buffered(l, f[g]) \/ Taken(f[g])
          BY <1>0, <2>a, <4>0, <4>10, <4>11, <4>13 DEF Placed
        <5>2. CASE Taken(f[g])
          BY <2>3, <4>8, <5>2 DEF Taken
        <5>3. CASE Buffered(l, f[g])
          <6>1. c.rec \in HandedOver(l)
            BY <1>0, <4>7, <5>3, HandsOver DEF Buffered
          <6> QED
            BY <2>3, <6>1
        <5> QED
          BY <5>1, <5>2, <5>3
      <4> QED
        BY <4>12, <4>13
    <3> QED
      BY <2>3, <2>12, <3>1, <3>2
  <2>13. WithEarlier'
    BY <1>0, <2>12 DEF WithEarlier
  <2> QED
    BY <2>3, <2>10, <2>11, <2>13
<1>3. AcceptInv'
  BY <1>0, <1>2, StaysAcceptable DEF AcceptInv
<1> QED
  BY <1>1, <1>3 DEF AcceptedInv

\* A WRITE finds its key: the INSERT before it has a smaller TID.
LEMMA ReplayRecordAcc ==
  ASSUME Inv, DurInv, AcceptedInv, NEW r \in records, ReplayRecord(r)
  PROVE  AcceptedInv'
<1>0. /\ Typed /\ WorkerInv /\ FirstInv /\ AcceptInv /\ HistoryTyped /\ OrderInv /\ CleanInv /\ Replayed
      /\ phase = "epoch" /\ NextByTid(r) /\ records' = records \ {r}
      /\ UNCHANGED <<archive, logfile, clean, crashes, pepoch, commits>>
  BY DEF Inv, ReadInv, DurInv, AcceptedInv, ReplayRecord, Verified, fileVars, historyVars
<1>1. WorkerInv' /\ FirstInv'
  <2>1. phase' \in {"died", "epoch"}
    BY <1>0 DEF ReplayRecord
  <2> QED
    BY <1>0, <2>1, SameWorker DEF ReplayRecord, runVars
<1>2. ASSUME Acceptable PROVE phase' = "epoch" /\ (\A l \in Loggers : InStep(l)') /\ WithEarlier'
  <2>0. (\A l \in Loggers : InStep(l)) /\ WithEarlier /\ clean
    BY <1>0, <1>2 DEF AcceptInv, Acceptable
  <2>1. PICK d \in commits : d.rec = r
    <3>1. PICK l \in Loggers : \E i \in 1 .. Len(logfile[l]) : IsIn(r, logfile[l][i])
      BY <1>0 DEF Replayed, Logged
    <3>2. PICK i \in 1 .. Len(logfile[l]) : IsIn(r, logfile[l][i])
      BY <3>1
    <3>3. PICK j \in 1 .. Len(logfile[l][i].recs) : logfile[l][i].recs[j].rec = r
      BY <3>2 DEF IsIn
    <3>4. MadeOnly(l)
      BY <1>0, <2>0 DEF CleanInv, FilesOf
    <3>5. Made(r)
      BY <3>3, <3>4 DEF MadeOnly
    <3> QED
      BY <3>5 DEF Made
  <2>2. /\ r.op \in {"INSERT", "WRITE"} /\ r.key \in Keys /\ r.val # Absent /\ r.val \in Vals
        /\ db \in [Keys -> Vals]
    <3>1. r.op \in Ops /\ r.key \in Keys /\ r.val \in Vals /\ 1 <= r.val
      BY <1>0, <2>1 DEF HistoryTyped, LogRecs
    <3>2. r.op # "DELETE"
      BY <1>2, <2>1 DEF Acceptable
    <3> QED
      BY <1>0, <3>1, <3>2 DEF Ops, Typed, Absent
  <2>3. ASSUME r.op = "WRITE" PROVE db[r.key] # Absent
    <3>1. PICK p \in commits : p.rec.key = r.key /\ p.rec.val < d.rec.val
      BY <1>0, <2>0, <2>1, <2>3 DEF FirstInv, Inserted
    <3>2. CASE p.rec \in records
      <4>1. p.session = d.session
        BY <1>2, <2>1, <3>1 DEF Acceptable, KeyInOneLog, LogOfOneSession
      <4>2. Less(p.rec.tid, d.rec.tid)
        BY <1>0, <2>1, <3>1, <4>1 DEF OrderInv
      <4> QED
        BY <1>0, <2>1, <3>2, <4>2 DEF NextByTid
    <3>3. CASE p.rec \notin records
      BY <2>0, <2>1, <3>1, <3>3 DEF WithEarlier
    <3> QED
      BY <3>2, <3>3
  <2>4. phase' = "epoch"
    BY <1>0, <2>3 DEF ReplayRecord
  <2>5. /\ db'[r.key] # Absent /\ \A k \in Keys : db[k] # Absent => db'[k] # Absent
    <3>1. CASE r.op = "INSERT"
      BY <2>2, <3>1 DEF ReplayRecord
    <3>2. CASE r.op = "WRITE"
      BY <2>2, <2>3, <3>2 DEF ReplayRecord
    <3> QED
      BY <2>2, <3>1, <3>2
  <2>6. ASSUME NEW c \in commits, NEW e \in commits, e.rec \in records', c.rec.key = e.rec.key,
               c.rec.val < e.rec.val
        PROVE  c.rec \in records' \/ db'[c.rec.key] # Absent
    <3>1. c.rec.key \in Keys
      BY <1>0 DEF HistoryTyped, LogRecs
    <3>2. c.rec \in records \/ db[c.rec.key] # Absent
      BY <1>0, <2>0, <2>6 DEF WithEarlier
    <3>3. CASE c.rec = r
      BY <2>5, <3>3
    <3> QED
      BY <1>0, <2>5, <3>1, <3>2, <3>3
  <2>7. WithEarlier'
    BY <1>0, <2>6 DEF WithEarlier
  <2>8. \A l \in Loggers : InStep(l)'
    BY <1>0, <2>0, SameStep
  <2> QED
    BY <2>4, <2>7, <2>8
<1>3. AcceptInv'
  BY <1>0, <1>2, StaysAcceptable DEF AcceptInv
<1> QED
  BY <1>1, <1>3 DEF AcceptedInv

-----------------------------------------------------------------------------
(* Logs that a quiet session left are accepted: the theorem                *)

\* A new directory.
LEMMA InitAcc ==
  ASSUME Init
  PROVE  AcceptedInv
<1>1. WorkerInv
  BY DEF Init, WorkerInv, FromWorker, Rising, Linked, OldSets
<1>2. FirstInv /\ AcceptInv
  BY DEF Init, FirstInv, AcceptInv
<1> QED
  BY <1>1, <1>2 DEF AcceptedInv

\* The steps of the running server that add neither a transaction nor a log set.
LEMMA ClockAcc ==
  ASSUME AcceptedInv, phase = "run", phase' = "run",
         UNCHANGED <<tidword, buffer, queue, logfile, prevHash, historyVars>>
  PROVE  AcceptedInv'
BY SameWorker, RunAccepts DEF AcceptedInv

\* A state that does not change.
LEMMA StutterAcc ==
  ASSUME AcceptedInv, UNCHANGED vars
  PROVE  AcceptedInv'
<1>0. UNCHANGED <<phase, tidword, buffer, queue, prevHash, logfile, pepoch, archive, records, db,
                  commits, made, crashes, clean>>
  BY DEF vars, runVars, fileVars, recoveryVars, historyVars
<1>1. WorkerInv' /\ FirstInv'
  BY <1>0, SameWorker DEF AcceptedInv, historyVars
<1>2. \A l \in Loggers : InStep(l) => InStep(l)'
  BY <1>0, SameStep
<1>3. WithEarlier => WithEarlier'
  BY <1>0 DEF WithEarlier
<1>4. Acceptable' => Acceptable
  BY <1>0, StaysAcceptable
<1>5. AcceptInv'
  BY <1>0, <1>2, <1>3, <1>4 DEF AcceptedInv, AcceptInv
<1> QED
  BY <1>1, <1>5 DEF AcceptedInv

\* The workers, the log files and the archives stay in step, in every session and
\* through every crash.
THEOREM AcceptedInvariance == Spec => [](Inv /\ DurInv /\ AcceptedInv)
<1>1. Init => Inv /\ DurInv /\ AcceptedInv
  BY InitInv, InitDur, InitAcc
<1>2. ASSUME Inv, DurInv, AcceptedInv, [Next]_vars PROVE AcceptedInv'
  <2>1. CASE EpochAdvance
    BY <1>2, <2>1, ClockAcc DEF EpochAdvance, fileVars
  <2>2. CASE \E l \in Loggers : EpochWork(l)
    BY <1>2, <2>2, ClockAcc DEF EpochWork, fileVars
  <2>3. CASE \E l \in Loggers, op \in Ops, k \in Keys, e \in 1 .. MaxEpoch : Commit(l, op, k, e)
    BY <1>2, <2>3, CommitAcc
  <2>4. CASE \E l \in Loggers : Publish(l)
    BY <1>2, <2>4, PublishAcc
  <2>5. CASE \E l \in Loggers : WriteLog(l)
    BY <1>2, <2>5, WriteLogAcc
  <2>6. CASE \E l \in Loggers : WriteTail(l)
    BY <1>2, <2>6, ClockAcc DEF WriteTail, runVars
  <2>7. CASE \E d \in 1 .. MaxEpoch : WritePepoch(d)
    BY <1>2, <2>7, ClockAcc DEF WritePepoch
  <2>8. CASE Crash
    BY <1>2, <2>8, CrashAcc
  <2>9. CASE RecoveryStep
    <3>1. CASE OpenFiles
      BY <1>2, <3>1, OpenFilesAcc
    <3>2. CASE \E l \in Loggers : ReadLogSet(l)
      BY <1>2, <3>2, ReadLogSetAcc
    <3>3. CASE ReadDone
      BY <1>2, <3>3, ReadDoneAcc
    <3>4. CASE \E l \in Loggers : VerifyLogSet(l)
      BY <1>2, <3>4, VerifyLogSetAcc
    <3>5. CASE \E r \in records : ReplayRecord(r)
      BY <1>2, <3>5, ReplayRecordAcc
    <3>6. CASE NextEpoch
      BY <1>2, <3>6, NextEpochAcc
    <3>7. CASE CheckTails
      BY <1>2, <3>7, CheckTailsAcc
    <3> QED
      BY <2>9, <3>1, <3>2, <3>3, <3>4, <3>5, <3>6, <3>7 DEF RecoveryStep
  <2>10. CASE Restart
    BY <1>2, <2>10, RestartAcc
  <2>11. CASE Stopped \/ UNCHANGED vars
    BY <1>2, <2>11, StutterAcc DEF Stopped
  <2> QED
    BY <1>2, <2>1, <2>2, <2>3, <2>4, <2>5, <2>6, <2>7, <2>8, <2>9, <2>10, <2>11 DEF Next
<1>3. Spec => [](Inv /\ DurInv)
  BY DurableInvariance
<1> QED
  BY <1>1, <1>2, <1>3, PTL DEF Spec

\* No step of the recovery of acceptable logs fails.
LEMMA AcceptedMeans ==
  ASSUME AcceptedInv
  PROVE  QuietLogsRecover
BY DEF AcceptedInv, AcceptInv, Acceptable, QuietLogsRecover

\* For any number of loggers, keys, epochs, transactions and crashes, logs that end at
\* the durable epoch, without DELETE, each key in one log and each log from one session,
\* are not refused and do not end recovery early: the chain and the tail hash that a
\* logger wrote are the ones that recovery looks for, and a WRITE is replayed after the
\* INSERT of its key (create_json_log, verify_log_level_integrity,
\* verify_epoch_level_integrity, execute_recovery).
THEOREM LogsAreAccepted == Spec => []QuietLogsRecover
BY AcceptedInvariance, AcceptedMeans, PTL
=============================================================================
