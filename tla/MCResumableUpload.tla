------------------------- MODULE MCResumableUpload --------------------------
(* Small instances of ResumableUpload for TLC.                              *)
EXTENDS ResumableUpload

CONSTANTS u1, p1, p2, f1, f2, a1, a2

OnePart == <<p1>>
TwoParts == <<p1, p2>>

SmallSizes == [u \in Plain \cup Partial |-> CASE u = u1 -> 4 [] u = p1 -> 2 [] OTHER -> 1]

(* A file in chunks of several sizes on the local store of one process, and  *)
(* a file through two processes; a file in two parts that is concatenated,   *)
(* through two processes, and one that two requests concatenate, on either   *)
(* store.                                                                    *)
PlainAndConcat ==
    {[uploads |-> {u1}, chunks |-> {1, 2}, replicas |-> {a1}, store |-> "local",
      drops |-> 2],
     [uploads |-> {u1}, chunks |-> {2}, replicas |-> {a1, a2}, store |-> "s3",
      drops |-> 1],
     [uploads |-> {p1, p2, f1}, chunks |-> {1}, replicas |-> {a1, a2}, store |-> "s3",
      drops |-> 1],
     [uploads |-> {p1, p2, f1, f2}, chunks |-> {1}, replicas |-> {a1}, store |-> "s3",
      drops |-> 1],
     [uploads |-> {p1, p2, f1, f2}, chunks |-> {1}, replicas |-> {a1}, store |-> "local",
      drops |-> 1]}

ConcatTwice ==
    {[uploads |-> {p1, f1, f2}, chunks |-> {2}, replicas |-> {a1}, store |-> "local",
      drops |-> 1]}
=============================================================================
