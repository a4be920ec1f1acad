--------------------------- MODULE MCVodPipeline ---------------------------
(* Instances of VodPipeline for TLC.                                         *)
EXTENDS VodPipeline, TLC

\* Jobs are interchangeable.
MCSymmetry == Permutations(Jobs)
=============================================================================
