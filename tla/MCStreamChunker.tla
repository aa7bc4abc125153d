--------------------------- MODULE MCStreamChunker ---------------------------
(***************************************************************************)
(* Instances of StreamChunker for TLC.                                     *)
(***************************************************************************)
EXTENDS StreamChunker, TLC

Symmetry == Permutations(Slots) \cup Permutations(Chunkers)

=============================================================================
