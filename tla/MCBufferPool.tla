---------------------------- MODULE MCBufferPool ----------------------------
(* BufferPool on a small instance. *)
EXTENDS BufferPool, TLC

TakerSymmetry == Permutations(Takers)

=============================================================================
