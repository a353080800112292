------------------------------ MODULE EpochSync ------------------------------
(***************************************************************************)
(* What the epoch protocol of Silo promises, as an atomic specification:   *)
(* the global epoch moves on only when every worker has caught up with it, *)
(* and a worker's local epoch jumps to the global one in a single step.    *)
(* SiloEpoch, which splits every load, comparison and store of the code,   *)
(* is shown to implement this module.  SiloLog and SiloTx use these atomic *)
(* steps for the epoch part of a worker.                                   *)
(***************************************************************************)
EXTENDS Integers

CONSTANTS N,             \* number of worker threads; worker 0 is the leader
          InitialEpoch,  \* 1, or the durable epoch after a recovery
          MaxEpoch       \* bound on GlobalEpoch

VARIABLES GlobalEpoch, ThLocalEpoch

Workers == 0 .. N-1

vars == <<GlobalEpoch, ThLocalEpoch>>

Init ==
    /\ GlobalEpoch = InitialEpoch
    /\ ThLocalEpoch = [w \in Workers |-> 0]

\* The leader is not compared by chkEpochLoaded: before its first epochWork its
\* local epoch is still 0 and does not hold the global epoch back.
CaughtUp(w) == ThLocalEpoch[w] = GlobalEpoch \/ (w = 0 /\ ThLocalEpoch[w] = 0)

Advance ==
    /\ GlobalEpoch < MaxEpoch
    /\ \A w \in Workers : CaughtUp(w)
    /\ GlobalEpoch' = GlobalEpoch + 1
    /\ UNCHANGED ThLocalEpoch

Sync(w) ==
    /\ ThLocalEpoch' = [ThLocalEpoch EXCEPT ![w] = GlobalEpoch]
    /\ UNCHANGED GlobalEpoch

Next == Advance \/ \E w \in Workers : Sync(w)

Spec == Init /\ [][Next]_vars
=============================================================================
