------------------------- MODULE MCFrameStatistics --------------------------
(* The statistics with control blocks that may be exchanged.               *)
EXTENDS FrameStatistics, TLC

Symmetry == Permutations(Items)
=============================================================================
