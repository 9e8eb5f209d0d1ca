--------------------------- MODULE MCVhostConsole ---------------------------
(***************************************************************************)
(* Instances of VhostConsole for TLC.                                      *)
(***************************************************************************)
EXTENDS VhostConsole
=============================================================================
