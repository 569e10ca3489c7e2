-------------------------- MODULE MCCanvasImageJob --------------------------
(* Small instances of CanvasImageJob for TLC.                              *)
EXTENDS CanvasImageJob, TLC

\* Submissions, client request ids and callers are each interchangeable.
ImageSymmetry == Permutations(Submissions) \cup Permutations(ClientIds) \cup Permutations(Callers)
=============================================================================
