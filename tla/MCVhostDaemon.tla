--------------------------- MODULE MCVhostDaemon ---------------------------
(***************************************************************************)
(* Instances of VhostDaemon for TLC.                                       *)
(***************************************************************************)
EXTENDS VhostDaemon
=============================================================================
