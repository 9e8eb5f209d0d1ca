--------------------------- MODULE MCVirtioCanTx ---------------------------
(***************************************************************************)
(* Instances of VirtioCanTx for TLC.                                       *)
(***************************************************************************)
EXTENDS VirtioCanTx, TLC

\* Buffers are interchangeable: they are only compared for equality.
SkbSymmetry == Permutations(Skbs)
=============================================================================
