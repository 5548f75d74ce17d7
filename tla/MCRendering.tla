----------------------------- MODULE MCRendering -----------------------------
(* Rendering for TLC.  RQ jobs are interchangeable.                         *)
EXTENDS Rendering, TLC

RunSymmetry == Permutations(Runs)
=============================================================================
