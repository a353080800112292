--------------------------- MODULE SiloEpochProofs ---------------------------
(***************************************************************************)
(* Proofs about SiloEpoch, for every number of workers and every bound.    *)
(***************************************************************************)
EXTENDS SiloEpoch, TLAPS

\* A value about to be stored is the global epoch, or the worker's own epoch
\* already: the global epoch moved on after the load, which it does only when
\* this worker had caught up.
PendingStore ==
    \A w \in Workers :
        pc[w] \in {"store", "vstore"} => ge[w] = GlobalEpoch \/ ge[w] = ThLocalEpoch[w]

\* The leader runs in worker 0, so between its AtomicAddGE and its own store it
\* is one behind, and everywhere else it is up to date (or has not started).
LeaderEpoch ==
    \/ ThLocalEpoch[Leader] = 0
    \/ ThLocalEpoch[Leader] = GlobalEpoch
    \/ pc[Leader] \in {"load", "store"} /\ ThLocalEpoch[Leader] = GlobalEpoch - 1

\* What chkEpochLoaded has established so far.
Checked ==
    /\ pc[Leader] = "check" =>
          /\ ge[Leader] = GlobalEpoch
          /\ \A i \in Workers : 1 <= i /\ i < idx => ThLocalEpoch[i] = GlobalEpoch
    /\ pc[Leader] = "add" =>
          /\ GlobalEpoch < MaxEpoch
          /\ \A i \in Workers : 1 <= i => ThLocalEpoch[i] = GlobalEpoch
    /\ pc[Leader] = "check" => GlobalEpoch < MaxEpoch
    /\ pc[Leader] = "store" => ge[Leader] = GlobalEpoch
    /\ pc[Leader] = "vstore" => ge[Leader] = GlobalEpoch

IInv ==
    /\ TypeOK
    /\ EpochLag
    /\ CtidwBehindCommits
    /\ PendingStore
    /\ LeaderEpoch
    /\ Checked

\* Worker 0 exists, since there is at least one worker (isLeader).
LEMMA LeaderIsWorker == Leader \in Workers
BY EpochAssumption DEF Leader, Workers

\* The strengthened invariant holds when the threads start
\* (ecall_initialize_global_variables).
LEMMA InitIInv == Init => IInv
<1> SUFFICES ASSUME Init PROVE IInv
  OBVIOUS
<1>1. TypeOK
  BY EpochAssumption DEF Init, TypeOK, Workers, Pcs
<1>2. EpochLag /\ CtidwBehindCommits /\ PendingStore
  BY DEF Init, EpochLag, CtidwBehindCommits, PendingStore
<1>3. LeaderEpoch /\ Checked
  BY LeaderIsWorker DEF Init, LeaderEpoch, Checked
<1> QED
  BY <1>1, <1>2, <1>3 DEF IInv

\* Every step of epochWork, siloLeaderWork, validationPhase and wal preserves it.
LEMMA NextIInv == IInv /\ [Next]_vars => IInv'
<1> SUFFICES ASSUME IInv, [Next]_vars PROVE IInv'
  OBVIOUS
<1> USE EpochAssumption, LeaderIsWorker
<1> USE DEF IInv, TypeOK, EpochLag, CtidwBehindCommits, PendingStore, LeaderEpoch,
            Checked, Pcs, Goto
<1>1. CASE LeaderTimerExpired
  BY <1>1 DEF LeaderTimerExpired, Workers, Leader
<1>2. CASE CheckEpochLoaded
  <2>1. idx < N /\ idx \in Workers
    BY <1>2 DEF CheckEpochLoaded, Workers
  <2>2. CASE ThLocalEpoch[idx] # ge[Leader]
    BY <1>2, <2>1, <2>2 DEF CheckEpochLoaded
  <2>3. CASE ThLocalEpoch[idx] = ge[Leader]
    BY <1>2, <2>1, <2>3 DEF CheckEpochLoaded, Workers
  <2> QED
    BY <2>2, <2>3
<1>3. CASE CheckEpochDone
  BY <1>3 DEF CheckEpochDone, Workers
<1>4. CASE AtomicAddGE
  <2>1. \A w \in Workers : w # Leader => ThLocalEpoch[w] = GlobalEpoch
    BY <1>4 DEF AtomicAddGE, Workers, Leader
  <2>2. ThLocalEpoch[Leader] = GlobalEpoch \/ ThLocalEpoch[Leader] = 0
    BY <1>4 DEF AtomicAddGE
  <2> QED
    BY <1>4, <2>1, <2>2 DEF AtomicAddGE
<1>5. ASSUME NEW w \in Workers, SkipLeaderWork(w) PROVE IInv'
  BY <1>5 DEF SkipLeaderWork
<1>6. ASSUME NEW w \in Workers, LoadGE(w) PROVE IInv'
  BY <1>6 DEF LoadGE
<1>7. ASSUME NEW w \in Workers, StoreThLocalEpoch(w) PROVE IInv'
  BY <1>7 DEF StoreThLocalEpoch
<1>8. ASSUME NEW w \in Workers, StoreCTIDW(w) PROVE IInv'
  BY <1>8 DEF StoreCTIDW
<1>9. ASSUME NEW w \in Workers, ValidateLoadGE(w) PROVE IInv'
  BY <1>9 DEF ValidateLoadGE
<1>10. ASSUME NEW w \in Workers, ValidateStore(w) PROVE IInv'
  BY <1>10 DEF ValidateStore
<1>11. ASSUME NEW w \in Workers, CommitWal(w) PROVE IInv'
  BY <1>11 DEF CommitWal
<1>12. ASSUME NEW w \in Workers, AbortRetry(w) PROVE IInv'
  BY <1>12 DEF AbortRetry
<1>13. CASE UNCHANGED vars
  BY <1>13 DEF vars
<1> QED
  BY <1>1, <1>2, <1>3, <1>4, <1>5, <1>6, <1>7, <1>8, <1>9, <1>10, <1>11, <1>12, <1>13
  DEF Next, LeaderStep, WorkerStep

\* Every variable keeps its type; in particular the loop index of chkEpochLoaded
\* never leaves 1 .. N, so the comparison never reads past ThLocalEpoch.
THEOREM TypeCorrect == Spec => []TypeOK
<1>1. IInv => TypeOK
  BY DEF IInv
<1> QED
  BY InitIInv, NextIInv, <1>1, PTL DEF Spec

\* However many workers run and however their loads and stores interleave, a
\* started worker is never more than one epoch behind (chkEpochLoaded, epochWork).
THEOREM LagBounded == Spec => []EpochLag
<1>1. IInv => EpochLag
  BY DEF IInv
<1> QED
  BY InitIInv, NextIInv, <1>1, PTL DEF Spec

\* CTIDW, from which the loggers derive the durable epoch, never exceeds the
\* epoch in which its worker would commit next (epochWork, wal).
THEOREM CtidwSafe == Spec => []CtidwBehindCommits
<1>1. IInv => CtidwBehindCommits
  BY DEF IInv
<1> QED
  BY InitIInv, NextIInv, <1>1, PTL DEF Spec

\* Every step is a step of EpochSync or changes neither shared epoch: the add of
\* atomicAddGE is Advance, the store of a loaded epoch Sync.
LEMMA StepRefines == IInv /\ [Next]_vars => [Sync!Next]_(Sync!vars)
<1> SUFFICES ASSUME IInv, [Next]_vars PROVE [Sync!Next]_(Sync!vars)
  OBVIOUS
<1> USE EpochAssumption, LeaderIsWorker
<1> USE DEF Sync!Next, Sync!vars, Sync!Sync, Sync!Advance, Sync!CaughtUp, Sync!Workers,
            Workers
<1>1. CASE AtomicAddGE
  <2>1. \A w \in Workers : Sync!CaughtUp(w)
    BY <1>1 DEF AtomicAddGE, IInv, TypeOK, Checked, LeaderEpoch, Leader
  <2>2. Sync!Advance
    BY <1>1, <2>1 DEF AtomicAddGE, IInv, Checked
  <2> QED
    BY <2>2
<1>2. ASSUME NEW w \in Workers, StoreThLocalEpoch(w) \/ ValidateStore(w)
      PROVE  [Sync!Next]_(Sync!vars)
  <2>1. /\ ThLocalEpoch' = [ThLocalEpoch EXCEPT ![w] = ge[w]]
        /\ GlobalEpoch' = GlobalEpoch
        /\ pc[w] \in {"store", "vstore"}
    BY <1>2 DEF StoreThLocalEpoch, ValidateStore
  <2>2. CASE ge[w] = GlobalEpoch
    <3>1. Sync!Sync(w)
      BY <2>1, <2>2
    <3> QED
      BY <3>1
  <2>3. CASE ge[w] = ThLocalEpoch[w]
    BY <2>1, <2>3 DEF IInv, TypeOK
  <2> QED
    BY <2>1, <2>2, <2>3 DEF IInv, PendingStore
<1>3. ASSUME NEW w \in Workers,
             \/ SkipLeaderWork(w) \/ LoadGE(w) \/ StoreCTIDW(w)
             \/ ValidateLoadGE(w) \/ CommitWal(w) \/ AbortRetry(w)
      PROVE  UNCHANGED Sync!vars
  BY <1>3 DEF SkipLeaderWork, LoadGE, StoreCTIDW, ValidateLoadGE, CommitWal, AbortRetry
<1>4. CASE LeaderTimerExpired \/ CheckEpochLoaded \/ CheckEpochDone
  BY <1>4 DEF LeaderTimerExpired, CheckEpochLoaded, CheckEpochDone
<1>5. CASE UNCHANGED vars
  BY <1>5 DEF vars
<1> QED
  BY <1>1, <1>2, <1>3, <1>4, <1>5 DEF Next, LeaderStep, WorkerStep

\* The split loads, comparisons and stores of the code implement the atomic epoch
\* protocol that SiloLog and SiloTx take for granted (chkEpochLoaded, atomicAddGE,
\* atomicStoreThLocalEpoch).
THEOREM ImplementsEpochSync == Spec => RefinesEpochSync
<1>1. Init => Sync!Init
  BY DEF Init, Sync!Init, Workers, Sync!Workers
<1> QED
  BY <1>1, InitIInv, NextIInv, StepRefines, PTL DEF Spec, RefinesEpochSync, Sync!Spec
=============================================================================
