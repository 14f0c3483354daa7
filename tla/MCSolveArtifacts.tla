-------------------------- MODULE MCSolveArtifacts --------------------------
(* A small instance of SolveArtifacts for TLC.                              *)
EXTENDS SolveArtifacts
=============================================================================
