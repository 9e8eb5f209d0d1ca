--------------------------- MODULE MCVirtioCanRx ---------------------------
(***************************************************************************)
(* Instances of VirtioCanRx for TLC.  The temporal properties rule out     *)
(* symmetry of the receive buffers.                                        *)
(***************************************************************************)
EXTENDS VirtioCanRx
=============================================================================
