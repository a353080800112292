---------------------------- MODULE MCSiloRecovery ----------------------------
(* Instances of SiloRecovery for TLC. *)
EXTENDS SiloRecovery
=============================================================================
