--------------------------- MODULE MCFlushPipeline ---------------------------
(* Instances of FlushPipeline for TLC. *)
EXTENDS FlushPipeline, TLC

MCSymmetry == Permutations(Threads)
==============================================================================
