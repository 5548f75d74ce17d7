----------------------------- MODULE MCPipeline -----------------------------
(* Pipeline for TLC: one retry per stage stands for the two or three of the *)
(* code, so that a run has a first, a repeated and a last attempt.          *)
EXTENDS PipelineClaims, TLC

OneRetry == [s \in Stages |-> 1]
RqSymmetry == Permutations(RqIds) \cup Permutations(Windows)
=============================================================================
