----------------------------- MODULE MCVhostCan -----------------------------
(***************************************************************************)
(* Instances of VhostCan for TLC.                                          *)
(***************************************************************************)
EXTENDS VhostCan
=============================================================================
