-------------------------- MODULE MCDynamoJobStore --------------------------
(* Small instances of DynamoJobStore for TLC.                               *)
EXTENDS DynamoJobStore, TLC

(* Concurrent calls are interchangeable.                                    *)
Interchangeable == Permutations(Call)
=============================================================================
