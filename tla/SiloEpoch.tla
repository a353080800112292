------------------------------ MODULE SiloEpoch ------------------------------
(***************************************************************************)
(* The epoch protocol of the worker threads: GlobalEpoch, the thread-local *)
(* epochs and the epoch part of CTIDW, with every atomic load and store a  *)
(* step of its own (silo_util.h, silo_util.cpp and the epoch code of       *)
(* TxExecutor in silo_transaction.cpp).                                    *)
(*                                                                         *)
(* A worker alternates epochWork, which reads GlobalEpoch and publishes it *)
(* as its own epoch, with transactions, whose validationPhase does the     *)
(* same; worker 0 also runs siloLeaderWork.  CTIDW is kept as its epoch    *)
(* field: 0 before the first store.                                        *)
(***************************************************************************)
EXTENDS Integers

CONSTANTS N,             \* num_worker_threads; worker 0 is the leader
          InitialEpoch,  \* GlobalEpoch at start: 1, or the durable epoch after a recovery
          MaxEpoch       \* bound on GlobalEpoch

ASSUME EpochAssumption ==
    /\ N \in Nat \ {0}
    /\ InitialEpoch \in Nat \ {0}
    /\ MaxEpoch \in Nat

VARIABLES GlobalEpoch,
          ThLocalEpoch,  \* per worker
          CTIDW,         \* per worker: epoch of the CTIDW word
          pc,            \* per worker: the next atomic access
          ge,            \* per worker: result of its last atomicLoadGE
          idx            \* loop index of the leader's chkEpochLoaded

vars == <<GlobalEpoch, ThLocalEpoch, CTIDW, pc, ge, idx>>

Workers == 0 .. N-1
Leader == 0

\* "epoch": epochWork comes next; "ready": epochWork is done, the worker may run
\* a transaction or call epochWork again.
Pcs == {"epoch", "check", "add", "load", "store", "ctidw",
        "ready", "vstore", "validated"}

Init ==
    /\ GlobalEpoch = InitialEpoch
    /\ ThLocalEpoch = [w \in Workers |-> 0]
    /\ CTIDW = [w \in Workers |-> 0]
    /\ pc = [w \in Workers |-> "epoch"]
    /\ ge = [w \in Workers |-> 0]
    /\ idx = 1

Goto(w, label) == pc' = [pc EXCEPT ![w] = label]

-----------------------------------------------------------------------------
(* siloLeaderWork: worker 0 at the start of its epochWork.                 *)

\* Faulty form: the loop of chkEpochLoaded counted from 2.
LeaderTimerExpired_FromTwo ==
    /\ pc[Leader] \in {"epoch", "ready"}
    /\ GlobalEpoch < MaxEpoch
    /\ ge' = [ge EXCEPT ![Leader] = GlobalEpoch]
    /\ idx' = 2
    /\ Goto(Leader, "check")
    /\ UNCHANGED <<GlobalEpoch, ThLocalEpoch, CTIDW>>

\* Faulty form: the loop counted from 0.
LeaderTimerExpired_FromZero ==
    /\ pc[Leader] \in {"epoch", "ready"}
    /\ GlobalEpoch < MaxEpoch
    /\ ge' = [ge EXCEPT ![Leader] = GlobalEpoch]
    /\ idx' = 0
    /\ Goto(Leader, "check")
    /\ UNCHANGED <<GlobalEpoch, ThLocalEpoch, CTIDW>>

\* chkClkSpan: the epoch time has or has not passed; the clock is left free.
\* atomicLoadGE of chkEpochLoaded (only the leader changes GlobalEpoch).
LeaderTimerExpired ==
    /\ pc[Leader] \in {"epoch", "ready"}
    /\ GlobalEpoch < MaxEpoch
    /\ ge' = [ge EXCEPT ![Leader] = GlobalEpoch]
    /\ idx' = 1
    /\ Goto(Leader, "check")
    /\ UNCHANGED <<GlobalEpoch, ThLocalEpoch, CTIDW>>

\* Faulty form: accepts a worker that is one epoch behind.
CheckEpochLoaded_Lenient ==
    /\ pc[Leader] = "check"
    /\ idx < N
    /\ IF ThLocalEpoch[idx] < ge[Leader] - 1
       THEN Goto(Leader, "load") /\ UNCHANGED idx
       ELSE idx' = idx + 1 /\ UNCHANGED pc
    /\ UNCHANGED <<GlobalEpoch, ThLocalEpoch, CTIDW, ge>>

\* One iteration of the loop of chkEpochLoaded, which starts at worker 1.
CheckEpochLoaded ==
    /\ pc[Leader] = "check"
    /\ idx < N
    /\ IF ThLocalEpoch[idx] # ge[Leader]
       THEN Goto(Leader, "load") /\ UNCHANGED idx
       ELSE idx' = idx + 1 /\ UNCHANGED pc
    /\ UNCHANGED <<GlobalEpoch, ThLocalEpoch, CTIDW, ge>>

CheckEpochDone ==
    /\ pc[Leader] = "check"
    /\ idx >= N
    /\ Goto(Leader, "add")
    /\ UNCHANGED <<GlobalEpoch, ThLocalEpoch, CTIDW, ge, idx>>

AtomicAddGE ==
    /\ pc[Leader] = "add"
    /\ GlobalEpoch' = GlobalEpoch + 1
    /\ Goto(Leader, "load")
    /\ UNCHANGED <<ThLocalEpoch, CTIDW, ge, idx>>

-----------------------------------------------------------------------------
(* epochWork                                                               *)

\* Workers other than the leader, and the leader when its timer has not expired.
SkipLeaderWork(w) ==
    /\ pc[w] \in {"epoch", "ready"}
    /\ Goto(w, "load")
    /\ UNCHANGED <<GlobalEpoch, ThLocalEpoch, CTIDW, ge, idx>>

\* Faulty form: the worker adopts the epoch before the current one.
LoadGE_Previous(w) ==
    /\ pc[w] = "load"
    /\ ge' = [ge EXCEPT ![w] = GlobalEpoch - 1]
    /\ Goto(w, "store")
    /\ UNCHANGED <<GlobalEpoch, ThLocalEpoch, CTIDW, idx>>

LoadGE(w) ==
    /\ pc[w] = "load"
    /\ ge' = [ge EXCEPT ![w] = GlobalEpoch]
    /\ Goto(w, "store")
    /\ UNCHANGED <<GlobalEpoch, ThLocalEpoch, CTIDW, idx>>

StoreThLocalEpoch(w) ==
    /\ pc[w] = "store"
    /\ ThLocalEpoch' = [ThLocalEpoch EXCEPT ![w] = ge[w]]
    /\ Goto(w, "ctidw")
    /\ UNCHANGED <<GlobalEpoch, CTIDW, ge, idx>>

\* Faulty form: CTIDW takes the global epoch instead of the worker's own.
StoreCTIDW_Global(w) ==
    /\ pc[w] = "ctidw"
    /\ CTIDW' = [CTIDW EXCEPT ![w] = GlobalEpoch]
    /\ Goto(w, "ready")
    /\ UNCHANGED <<GlobalEpoch, ThLocalEpoch, ge, idx>>

StoreCTIDW(w) ==
    /\ pc[w] = "ctidw"
    /\ CTIDW' = [CTIDW EXCEPT ![w] = ThLocalEpoch[w]]
    /\ Goto(w, "ready")
    /\ UNCHANGED <<GlobalEpoch, ThLocalEpoch, ge, idx>>

-----------------------------------------------------------------------------
(* The epoch steps of a transaction: validationPhase, then wal or a retry. *)

ValidateLoadGE(w) ==
    /\ pc[w] = "ready"
    /\ ge' = [ge EXCEPT ![w] = GlobalEpoch]
    /\ Goto(w, "vstore")
    /\ UNCHANGED <<GlobalEpoch, ThLocalEpoch, CTIDW, idx>>

ValidateStore(w) ==
    /\ pc[w] = "vstore"
    /\ ThLocalEpoch' = [ThLocalEpoch EXCEPT ![w] = ge[w]]
    /\ Goto(w, "validated")
    /\ UNCHANGED <<GlobalEpoch, CTIDW, ge, idx>>

\* Validation succeeded: wal stores the commit TID, whose epoch is ThLocalEpoch.
CommitWal(w) ==
    /\ pc[w] = "validated"
    /\ CTIDW' = [CTIDW EXCEPT ![w] = ThLocalEpoch[w]]
    /\ Goto(w, "epoch")
    /\ UNCHANGED <<GlobalEpoch, ThLocalEpoch, ge, idx>>

\* Validation failed: abort and retry, which starts with durableEpochWork.
AbortRetry(w) ==
    /\ pc[w] = "validated"
    /\ Goto(w, "epoch")
    /\ UNCHANGED <<GlobalEpoch, ThLocalEpoch, CTIDW, ge, idx>>

LeaderStep ==
    LeaderTimerExpired \/ CheckEpochLoaded \/ CheckEpochDone \/ AtomicAddGE

WorkerStep(w) ==
    \/ SkipLeaderWork(w) \/ LoadGE(w) \/ StoreThLocalEpoch(w) \/ StoreCTIDW(w)
    \/ ValidateLoadGE(w) \/ ValidateStore(w) \/ CommitWal(w) \/ AbortRetry(w)

Next == LeaderStep \/ \E w \in Workers : WorkerStep(w)

\* Every worker thread runs its loop for ever; the leader's timer keeps expiring.
Fairness ==
    /\ \A w \in Workers : WF_vars(WorkerStep(w))
    /\ SF_vars(LeaderTimerExpired)
    /\ WF_vars(CheckEpochLoaded \/ CheckEpochDone \/ AtomicAddGE)

Spec == Init /\ [][Next]_vars

FairSpec == Spec /\ Fairness

-----------------------------------------------------------------------------
(* Properties                                                              *)

TypeOK ==
    /\ GlobalEpoch \in Nat \ {0}
    /\ ThLocalEpoch \in [Workers -> Nat]
    /\ CTIDW \in [Workers -> Nat]
    /\ pc \in [Workers -> Pcs]
    /\ ge \in [Workers -> Nat]
    /\ idx \in 1 .. N

\* A worker that has published an epoch is at most one epoch behind the global
\* one, although the load of GlobalEpoch and the store of ThLocalEpoch are two
\* steps and the leader compares the workers one by one (silo_util.cpp, chkEpochLoaded).
EpochLag ==
    \A w \in Workers :
        ThLocalEpoch[w] # 0 => GlobalEpoch - ThLocalEpoch[w] \in {0, 1}

\* The loggers take min(CTIDW) - 1 for durable: a worker's CTIDW never runs
\* ahead of the epoch its next commit gets (epochWork, wal).
CtidwBehindCommits ==
    \A w \in Workers : CTIDW[w] <= ThLocalEpoch[w]

\* The detailed protocol implements the atomic one (EpochSync): a check against
\* separately loaded values and a store of an earlier load are as good as atomic.
Sync == INSTANCE EpochSync

RefinesEpochSync == Sync!Spec

\* The global epoch keeps moving while the worker threads run: the leader's
\* check never waits for ever on a worker (siloLeaderWork, epochWork).
EpochAdvances == <>(GlobalEpoch = MaxEpoch)
=============================================================================
