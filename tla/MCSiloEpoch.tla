----------------------------- MODULE MCSiloEpoch -----------------------------
(***************************************************************************)
(* SiloEpoch for TLC.                                                      *)
(***************************************************************************)
EXTENDS SiloEpoch
=============================================================================
