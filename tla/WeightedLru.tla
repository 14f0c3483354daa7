---------------------------- MODULE WeightedLru -----------------------------
(***************************************************************************)
(* The scheduling policy shared by the SQLx and the DynamoDB job stores:     *)
(* among the queued jobs, serve the one whose owner has waited longest since *)
(* it was last served, weighted by the job's queue weight; an owner that was *)
(* never served comes first; ties go to the older job.                       *)
(*                                                                         *)
(* Weights are in hundredths, so that the floor of 0.01 is the integer       *)
(* MinWeight.  Times are clock readings, at least 1.                         *)
(***************************************************************************)
EXTENDS Naturals, Integers

MinWeight == 1
NeverServed == 0        \* no client_service row for the owner

(* now - last can be negative when `now' was read before a concurrent claim *)
(* stored a later last_served_at.                                           *)
Score(now, last, weight) ==
    (now - last) * (IF weight > MinWeight THEN weight ELSE MinWeight)

(* Variant for the mutation runs: the scan never replaces its first         *)
(* candidate, so that jobs are served in order of creation.                  *)
NeverOutscores(now, lastA, wA, lastB, wB) == FALSE

(* A job whose owner was last served at lastA and whose weight is wA scores *)
(* strictly higher than one with lastB, wB.  A never-served owner's score   *)
(* (f64::MAX / 4) exceeds every other and equals that of its like.          *)
Outscores(now, lastA, wA, lastB, wB) ==
    /\ lastB # NeverServed
    /\ \/ lastA = NeverServed
       \/ Score(now, lastA, wA) > Score(now, lastB, wB)

(* The winners of a scan over `queued' in created_at order that replaces    *)
(* the best candidate only by a strictly better one: a single job, or the   *)
(* jobs tied on score and on creation time, whose order SQL leaves open.     *)
Winners(queued, now, last, weight, created) ==
    {j \in queued : \A k \in queued :
        /\ ~Outscores(now, last[k], weight[k], last[j], weight[j])
        /\ \/ Outscores(now, last[j], weight[j], last[k], weight[k])
           \/ created[j] <= created[k]}
=============================================================================
