---------------------------- MODULE MCFlushControl ----------------------------
(* Instances of FlushControl for TLC. *)
EXTENDS FlushControl, TLC

MCSymmetry == Permutations(Threads)
==============================================================================
