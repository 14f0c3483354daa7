-------------------------- MODULE MCStoreMigration --------------------------
(* A small instance of StoreMigration for TLC.                              *)
EXTENDS StoreMigration
=============================================================================
