--------------------------- MODULE MCEmailSignIn ----------------------------
(* A small instance of EmailSignIn for TLC.                                 *)
EXTENDS EmailSignIn, TLC

Interchangeable == Permutations(Challenge) \cup Permutations(Request)
=============================================================================
