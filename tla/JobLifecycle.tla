---------------------------- MODULE JobLifecycle ----------------------------
(***************************************************************************)
(* What the durable job store promises to everyone who uses it: the         *)
(* contract of the JobRepository trait (src/src/repository.rs).             *)
(*                                                                         *)
(* A job is submitted once, is handed to at most one lease at a time, may   *)
(* lose a lease and go back to the queue any number of times, and receives  *)
(* exactly one result, written under the lease that is current when it is   *)
(* written.  `outbox' is the set of jobs whose queue notification is        *)
(* recorded as still to be sent.                                            *)
(*                                                                         *)
(* Time is absent: a lease may be lost at any moment.  JobQueue, which has  *)
(* clocks, transactions and a scheduling policy, is shown to implement this *)
(* module, and SolveDelivery composes it with a message queue and workers.  *)
(***************************************************************************)
EXTENDS Naturals

CONSTANT Job            \* the jobs that may ever be submitted

VARIABLES
    status,             \* Job -> Status
    lease,              \* Job -> the current lease token, NoToken if none
    result,             \* Job -> the token under which the result was stored
    outbox,             \* jobs whose notification is not marked delivered
    tokens              \* number of lease tokens drawn so far

lifecycleVars == <<status, lease, result, outbox, tokens>>

NoToken == 0
Terminal == {"succeeded", "failed"}
Status == {"absent", "queued", "solving"} \cup Terminal

Init ==
    /\ status = [j \in Job |-> "absent"]
    /\ lease = [j \in Job |-> NoToken]
    /\ result = [j \in Job |-> NoToken]
    /\ outbox = {}
    /\ tokens = 0

-----------------------------------------------------------------------------
(* enqueue: the job row and its outbox row are written together.           *)
Submit(j) ==
    /\ status[j] = "absent"
    /\ status' = [status EXCEPT ![j] = "queued"]
    /\ outbox' = outbox \cup {j}
    /\ UNCHANGED <<lease, result, tokens>>

(* Leases are lost: the jobs of R return to the queue and their             *)
(* notifications are due again.  A job of P that is not in R only has its    *)
(* notification re-armed.                                                   *)
Requeue(R, P) ==
    /\ R \subseteq P
    /\ P \subseteq {j \in Job : status[j] # "absent"}
    /\ \A j \in R : status[j] = "solving"
    /\ status' = [j \in Job |-> IF j \in R THEN "queued" ELSE status[j]]
    /\ lease' = [j \in Job |-> IF j \in R THEN NoToken ELSE lease[j]]
    /\ outbox' = outbox \cup P
    /\ UNCHANGED <<result, tokens>>

(* claim: leases are lost as above, and one queued job is handed out under  *)
(* a token nobody has seen before.  A job may pass from a lost lease straight *)
(* to a new one without being announced.                                     *)
Grant(R, P, j) ==
    /\ R \ {j} \subseteq P
    /\ P \subseteq {k \in Job : status[k] # "absent"}
    /\ \A k \in R : status[k] = "solving"
    /\ status[j] = "queued" \/ j \in R
    /\ status' = [k \in Job |-> IF k = j THEN "solving"
                                ELSE IF k \in R THEN "queued" ELSE status[k]]
    /\ lease' = [k \in Job |-> IF k = j THEN tokens + 1
                               ELSE IF k \in R THEN NoToken ELSE lease[k]]
    /\ outbox' = outbox \cup P
    /\ tokens' = tokens + 1
    /\ UNCHANGED result

(* complete: the holder of the current lease stores the one result.         *)
Finish(j, end) ==
    /\ status[j] = "solving"
    /\ end \in Terminal
    /\ status' = [status EXCEPT ![j] = end]
    /\ result' = [result EXCEPT ![j] = lease[j]]
    /\ lease' = [lease EXCEPT ![j] = NoToken]
    /\ UNCHANGED <<outbox, tokens>>

(* mark_notification_delivered: unconditional.                              *)
Acknowledge(j) ==
    /\ outbox' = outbox \ {j}
    /\ UNCHANGED <<status, lease, result, tokens>>

Next ==
    \/ \E j \in Job : Submit(j) \/ Acknowledge(j)
    \/ \E R, P \in SUBSET Job :
         \/ Requeue(R, P)
         \/ \E j \in Job : Grant(R, P, j)
    \/ \E j \in Job, end \in Terminal : Finish(j, end)

Spec == Init /\ [][Next]_lifecycleVars
=============================================================================
