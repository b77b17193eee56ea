--------------------------- MODULE MCFrameCaches ---------------------------
(* FrameCaches with interchangeable frames. *)
EXTENDS FrameCaches

MCSymmetry == Permutations(Frames)
=============================================================================
