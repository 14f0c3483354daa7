----------------------------- MODULE MCJobQueue -----------------------------
(* Small instances of JobQueue for TLC.                                     *)
EXTENDS JobQueue, TLC

CONSTANTS j1, j2, o1, o2, c1, c2

OneJob == {j1}
TwoJobs == {j1, j2}
TwoOwners == {o1, o2}
OneOwnerEach == [j \in Job |-> IF j = j1 THEN o1 ELSE o2]
EqualWeights == [j \in Job |-> 100]
HeavyAndLight == [j \in Job |-> IF j = j1 THEN 150 ELSE 100]
OnlyAny == {AnyJob}
Conns == {c1, c2}
SameConns == Permutations(Conns)
EarlyJobs == \A j \in Job : created[j] <= 2
FewOpen == \E c \in Conn : txn[c].kind # "pending"
=============================================================================
