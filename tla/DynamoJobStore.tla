--------------------------- MODULE DynamoJobStore ---------------------------
(***************************************************************************)
(* The DynamoDB job store (src/src/dynamodb_repository.rs).  There are no    *)
(* transactions around a read and the write that depends on it: every write  *)
(* carries the condition under which it may happen, and the reads behind it  *)
(* may be stale.                                                            *)
(*                                                                         *)
(*  - `view' is what the status index and the reads that do not ask for      *)
(*    consistency show of a job's status; it catches up eventually.          *)
(*  - A claim is a call of several requests that share one reading of the    *)
(*    clock: it reads the named job, or reclaims each expired lease and      *)
(*    looks at the queued jobs; then it makes one conditional write.         *)
(*    Anything may happen between two requests.                              *)
(*  - `clock', `Lag' and `leases' are as in JobQueue.                        *)
(*                                                                         *)
(* Which of the queued jobs an unnamed claim prefers rests on stale reads of *)
(* the owners' service times, so it is left open here, and the service times *)
(* with it; WeightedLru has the score.                                       *)
(***************************************************************************)
EXTENDS Naturals

CONSTANTS
    Job,
    Call,           \* claims that may be in progress at the same time
    NoJob,
    License,        \* validation-licence versions, positive numbers
    LeaseSeconds,
    Lag,
    MaxTime,        \* bound: the clock stops here
    MaxLeases       \* bound: leases handed out in total

ASSUME DynamoAssumptions ==
    /\ NoJob \notin Job
    /\ License \subseteq Nat \ {0}
    /\ LeaseSeconds \in Nat
    /\ Lag \in Nat
    /\ MaxTime \in Nat \ {0}
    /\ MaxLeases \in Nat

VARIABLES
    clock,          \* clock of the fastest replica
    status,         \* Job -> status attribute ("absent": no item)
    lease,          \* Job -> lease_token, NoToken if the attribute is missing
    expires,        \* Job -> lease_expires_at, 0 if missing
    result,         \* Job -> token of the lease whose result is stored
    donation,       \* Job -> licence of the donation, NoLicense if none
    outbox,         \* jobs whose item has no notification_delivered_at
    view,           \* Job -> status as stale reads show it
    leases,         \* every lease handed out
    tokens,         \* number of lease tokens handed out
    call            \* Call -> the claim in progress

vars == <<clock, status, lease, expires, result, donation, outbox, view, leases,
          tokens, call>>

NoToken == 0
NoLicense == 0
Terminal == {"succeeded", "failed"}
Status == {"absent", "queued", "solving"} \cup Terminal

Lease == [job : Job, token : Nat, until : Nat]
Idle == [pc |-> "idle", now |-> 0, todo |-> {}, job |-> NoJob]
CallState ==
    [pc : {"idle", "begun", "reclaim"}, now : Nat, todo : SUBSET Job,
     job : Job \cup {NoJob}]
    \cup [pc : {"queued", "expired"}, now : Nat, todo : SUBSET Job, job : Job]

Init ==
    /\ clock = 1
    /\ status = [j \in Job |-> "absent"]
    /\ lease = [j \in Job |-> NoToken]
    /\ expires = [j \in Job |-> 0]
    /\ result = [j \in Job |-> NoToken]
    /\ donation = [j \in Job |-> NoLicense]
    /\ outbox = {}
    /\ view = [j \in Job |-> "absent"]
    /\ leases = {}
    /\ tokens = 0
    /\ call = [c \in Call |-> Idle]

-----------------------------------------------------------------------------
Now == {t \in 1..clock : clock <= t + Lag}

LeaseSpan == IF LeaseSeconds > 1 THEN LeaseSeconds ELSE 1

(* Variant for the mutation runs: the expiry is not part of the condition.  *)
ExpiredAnyway(j, now) == status[j] = "solving"

(* #status = :solving AND #lease_expires_at <= :now                         *)
ExpiredLease(j, now) == status[j] = "solving" /\ expires[j] <= now

(* #status = :solving AND lease_token = :t AND lease_expires_at > :now      *)
LeaseActive(l, now) ==
    /\ status[l.job] = "solving"
    /\ lease[l.job] = l.token
    /\ expires[l.job] > now

-----------------------------------------------------------------------------
(* enqueue: the job and its index items in one transaction; a repeated      *)
(* enqueue of the same object is cancelled and reads the existing job.       *)
Enqueue(j) ==
    /\ status[j] = "absent"
    /\ status' = [status EXCEPT ![j] = "queued"]
    /\ outbox' = outbox \cup {j}
    /\ UNCHANGED <<clock, lease, expires, result, donation, view, leases, tokens,
                   call>>

(* A stale read of job j catches up (external).                             *)
CatchUp(j) ==
    /\ view[j] # status[j]
    /\ view' = [view EXCEPT ![j] = status[j]]
    /\ UNCHANGED <<clock, status, lease, expires, result, donation, outbox,
                   leases, tokens, call>>

(* claim starts: it reads the clock once, for all its requests.  want is the *)
(* named job, NoJob for any job.                                             *)
BeginClaim(c, want, now) ==
    /\ call[c] = Idle
    /\ call' = [call EXCEPT ![c] = [Idle EXCEPT !.pc = "begun", !.now = now,
                                               !.job = want]]
    /\ UNCHANGED <<clock, status, lease, expires, result, donation, outbox, view,
                   leases, tokens>>

(* requested_candidate: a consistent read decides on what condition to write. *)
ReadNamed(c) ==
    LET j == call[c].job
    IN  /\ call[c].pc = "begun"
        /\ j # NoJob
        /\ status[j] = "queued" \/ ExpiredLease(j, call[c].now)
        /\ call' = [call EXCEPT ![c].pc =
                        IF status[j] = "queued" THEN "queued" ELSE "expired"]
        /\ UNCHANGED <<clock, status, lease, expires, result, donation, outbox,
                       view, leases, tokens>>

(* reclaim_expired: the jobs the index lists as being solved.               *)
ListSolving(c) ==
    /\ call[c].pc = "begun"
    /\ call[c].job = NoJob
    /\ call' = [call EXCEPT ![c].pc = "reclaim",
                            ![c].todo = {j \in Job : view[j] = "solving"}]
    /\ UNCHANGED <<clock, status, lease, expires, result, donation, outbox, view,
                   leases, tokens>>

(* reclaim_expired, one conditional write per listed job.                   *)
ReclaimOne(c, j) ==
    LET expired == ExpiredLease(j, call[c].now)
    IN  /\ call[c].pc = "reclaim"
        /\ j \in call[c].todo
        /\ status' = [status EXCEPT ![j] = IF expired THEN "queued" ELSE @]
        /\ lease' = [lease EXCEPT ![j] = IF expired THEN NoToken ELSE @]
        /\ expires' = [expires EXCEPT ![j] = IF expired THEN 0 ELSE @]
        /\ outbox' = outbox \cup {k \in {j} : expired}
        /\ call' = [call EXCEPT ![c].todo = @ \ {j}]
        /\ UNCHANGED <<clock, result, donation, view, leases, tokens>>

(* queued_candidate: a job that a stale read shows as queued.               *)
Pick(c, j) ==
    /\ call[c].pc = "reclaim"
    /\ call[c].todo = {}
    /\ view[j] = "queued"
    /\ call' = [call EXCEPT ![c].pc = "queued", ![c].job = j]
    /\ UNCHANGED <<clock, status, lease, expires, result, donation, outbox, view,
                   leases, tokens>>

(* Variant for the mutation runs: the write trusts the read behind it.      *)
GrantableOnTrust(c) == call[c].pc \in {"queued", "expired"}

(* The condition of the conditional write.                                  *)
Grantable(c) ==
    \/ call[c].pc = "queued" /\ status[call[c].job] = "queued"
    \/ call[c].pc = "expired" /\ ExpiredLease(call[c].job, call[c].now)

(* The write succeeds.  The notification of a job that was taken over from  *)
(* an expired lease stays as it is.                                          *)
Grant(c) ==
    LET j == call[c].job
        until == call[c].now + LeaseSpan
    IN  /\ Grantable(c)
        /\ tokens < MaxLeases
        /\ status' = [status EXCEPT ![j] = "solving"]
        /\ lease' = [lease EXCEPT ![j] = tokens + 1]
        /\ expires' = [expires EXCEPT ![j] = until]
        /\ leases' = leases \cup {[job |-> j, token |-> tokens + 1, until |-> until]}
        /\ tokens' = tokens + 1
        /\ call' = [call EXCEPT ![c] = Idle]
        /\ UNCHANGED <<clock, result, donation, outbox, view>>

(* The call ends without a lease: no candidate, the condition of the write  *)
(* no longer holds, or the process dies.                                     *)
GiveUp(c) ==
    /\ call[c] # Idle
    /\ call' = [call EXCEPT ![c] = Idle]
    /\ UNCHANGED <<clock, status, lease, expires, result, donation, outbox, view,
                   leases, tokens>>

Heartbeat(l, now) ==
    /\ LeaseActive(l, now)
    /\ expires' = [expires EXCEPT ![l.job] = now + LeaseSpan]
    /\ leases' = (leases \ {l}) \cup {[l EXCEPT !.until = now + LeaseSpan]}
    /\ UNCHANGED <<clock, status, lease, result, donation, outbox, view, tokens,
                   call>>

Complete(l, end, now) ==
    /\ LeaseActive(l, now)
    /\ status' = [status EXCEPT ![l.job] = end]
    /\ result' = [result EXCEPT ![l.job] = l.token]
    /\ lease' = [lease EXCEPT ![l.job] = NoToken]
    /\ expires' = [expires EXCEPT ![l.job] = 0]
    /\ UNCHANGED <<clock, donation, outbox, view, leases, tokens, call>>

(* donate_validation: a repeated donation replaces the licence.             *)
DonateValidation(j, license) ==
    /\ status[j] \in Terminal
    /\ donation' = [donation EXCEPT ![j] = license]
    /\ UNCHANGED <<clock, status, lease, expires, result, outbox, view, leases,
                   tokens, call>>

(* mark_notification_delivered: unconditional; its callers name a stored job. *)
MarkNotificationDelivered(j) ==
    /\ status[j] # "absent"
    /\ outbox' = outbox \ {j}
    /\ UNCHANGED <<clock, status, lease, expires, result, donation, view, leases,
                   tokens, call>>

Tick ==
    /\ clock < MaxTime
    /\ clock' = clock + 1
    /\ UNCHANGED <<status, lease, expires, result, donation, outbox, view, leases,
                   tokens, call>>

Next ==
    \/ \E j \in Job : Enqueue(j) \/ CatchUp(j) \/ MarkNotificationDelivered(j)
    \/ \E c \in Call, want \in Job \cup {NoJob}, now \in Now :
         BeginClaim(c, want, now)
    \/ \E c \in Call : ReadNamed(c) \/ ListSolving(c)
    \/ \E c \in Call, j \in Job : ReclaimOne(c, j) \/ Pick(c, j)
    \/ \E c \in Call : Grant(c) \/ GiveUp(c)
    \/ \E l \in leases, now \in Now : Heartbeat(l, now)
    \/ \E l \in leases, end \in Terminal, now \in Now : Complete(l, end, now)
    \/ \E j \in Job, license \in License : DonateValidation(j, license)
    \/ Tick

Spec == Init /\ [][Next]_vars

-----------------------------------------------------------------------------
(* Properties.                                                             *)

(* Types of the items, the calls and the leases handed out; a claim only      *)
(* reaches its conditional write with a job to write to.                      *)
TypeOK ==
    /\ clock \in Nat \ {0}
    /\ status \in [Job -> Status]
    /\ lease \in [Job -> Nat]
    /\ expires \in [Job -> Nat]
    /\ result \in [Job -> Nat]
    /\ donation \in [Job -> License \cup {NoLicense}]
    /\ outbox \subseteq Job
    /\ view \in [Job -> Status]
    /\ leases \subseteq Lease
    /\ tokens \in Nat
    /\ call \in [Call -> CallState]

(* The stored result of a job comes from the newest lease handed out for it,  *)
(* although claims act on stale reads and old holders keep calling.           *)
StaleWorkerNeverWins ==
    \A l \in leases : result[l.job] # NoToken => l.token <= result[l.job]

(* "Leases are changed conditionally, so duplicate queue messages and         *)
(* multiple worker processes are safe": no two holders of leases of the same  *)
(* job were both told an expiry that has not passed.                          *)
LeaseExclusive ==
    \A l, m \in leases :
        l.job = m.job /\ l.until > clock /\ m.until > clock => l = m

(* The input a worker is given is the uploaded original (input_object_key     *)
(* prefers a donated copy): a donation never coexists with a lease.           *)
SolvesOnlyOriginals ==
    \A j \in Job : status[j] = "solving" => donation[j] = NoLicense

-----------------------------------------------------------------------------
(* The inductive invariants behind those properties.                       *)

(* A token is in the item exactly while the job is being solved, and it is   *)
(* the newest one handed out for the job; so is the one of a result.          *)
LeaseDiscipline ==
    /\ \A j \in Job : /\ status[j] = "solving" <=> lease[j] # NoToken
                      /\ result[j] # NoToken => status[j] \in Terminal
                      /\ donation[j] # NoLicense => status[j] \in Terminal
    /\ \A l \in leases : /\ l.token \in 1..tokens
                         /\ status[l.job] = "solving" => l.token <= lease[l.job]
    /\ StaleWorkerNeverWins
    /\ outbox \subseteq {j \in Job : status[j] # "absent"}

(* A call read the time in the past, tokens identify leases, and a lease its  *)
(* holder counts on is the current one or the one that finished the job.      *)
ExclusionDiscipline ==
    /\ \A c \in Call : call[c].now <= clock
    /\ \A l, m \in leases : l.token = m.token => l = m
    /\ \A l \in leases : l.until > clock =>
         \/ status[l.job] \in Terminal /\ result[l.job] = l.token
         \/ /\ status[l.job] = "solving"
            /\ lease[l.job] = l.token
            /\ expires[l.job] = l.until

(* The store implements the contract of the JobRepository trait.             *)
Lifecycle == INSTANCE JobLifecycle
LifecycleSpec == Lifecycle!Spec
=============================================================================
